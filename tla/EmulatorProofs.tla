--------------------------- MODULE EmulatorProofs ---------------------------
(***************************************************************************)
(* What holds of the emulator for every program, breakpoint and budget:    *)
(* its types, that every activation stays one that can be continued, that  *)
(* a call makes the steps its breakpoint allows, and that the operations   *)
(* executed are those of the structured program.                           *)
(***************************************************************************)
EXTENDS Emulator, StackLemmas

-----------------------------------------------------------------------------
(***************************************************************************)
(* Fetching an instruction and entering a block keep an activation one     *)
(* that can be continued, whatever the function.                           *)
(***************************************************************************)

(***************************************************************************)
(* The inductive invariant of one activation.  Beyond ActivationOk it says *)
(* that a saved pointer is in a block with code, and that a block with a   *)
(* counter to consult has code: what next_instruction finds there when it  *)
(* takes code[0].  A counter can outlive the block it was pushed for, so   *)
(* it is the block reached that must have code, not the repeat's own body. *)
(***************************************************************************)
HasCode(a, ip) == Code(a, ip) # << >>

GoodActivation ==
    {a \in ActivationRecord :
        /\ ActivationOk(a)
        /\ RepeatBodiesNonEmpty(a.function)
        /\ \A i \in DOMAIN a.ip_stack : HasCode(a, a.ip_stack[i])
        /\ RepeatsAgain(TopRepeat(a)) => HasCode(a, a.ip)}

GoodFunction == {f \in Function : RepeatBodiesNonEmpty(f)}

\* The code of a block is a sequence of operations.
LEMMA CodeType ==
    ASSUME NEW a \in ActivationRecord, NEW ip \in InstructionPointer
    PROVE  /\ Code(a, ip) \in Seq(Op)
           /\ Len(Code(a, ip)) \in Nat
           /\ HasOp(a, ip) => OpAt(a, ip) \in Op
           /\ HasOp(a, ip) => HasCode(a, ip)
           /\ HasCode(a, ip) => Len(Code(a, ip)) >= 1
<1>1. Code(a, ip) \in Seq(Op)
  BY DEF Code, ActivationRecord, Function, InstructionPointer
<1>2. Len(Code(a, ip)) \in Nat
  BY <1>1, LenProperties
<1>3. HasOp(a, ip) => OpAt(a, ip) \in Op
  BY <1>1, <1>2, ElementOfSeq DEF HasOp, OpAt, InstructionPointer
<1>4. HasOp(a, ip) => HasCode(a, ip)
  BY <1>1, EmptySeq DEF HasOp, HasCode, InstructionPointer
<1>5. HasCode(a, ip) => Len(Code(a, ip)) >= 1
  BY <1>1, <1>2, EmptySeq DEF HasCode
<1> QED BY <1>1, <1>2, <1>3, <1>4, <1>5

\* How the parts of an activation make it a good one; ActivationOk's last part follows.
LEMMA GoodParts ==
    ASSUME NEW f \in GoodFunction, NEW ip \in InstructionPointer,
           NEW rs \in Seq(RepeatEntry), NEW saved \in Seq(InstructionPointer),
           NEW a, a = [function |-> f, ip |-> ip, repeat_stack |-> rs, ip_stack |-> saved],
           PointerOk(a, ip),
           \A i \in 1 .. Len(saved) : PointerOk(a, saved[i]) /\ HasCode(a, saved[i]),
           Len(saved) <= Len(rs),
           HasCode(a, ip) \/ ~RepeatsAgain(TopRepeat(a))
    PROVE  a \in GoodActivation
<1>1. a \in ActivationRecord
  BY DEF ActivationRecord, GoodFunction
<1>2. DOMAIN saved = 1 .. Len(saved)
  BY LenProperties
<1>3. a.function = f /\ a.ip = ip /\ a.repeat_stack = rs /\ a.ip_stack = saved
  OBVIOUS
<1>4. ActivationOk(a)
  BY <1>2, <1>3, Zenon DEF ActivationOk, HasCode
<1>5. RepeatBodiesNonEmpty(a.function)
  BY <1>3 DEF GoodFunction
<1> QED
  BY <1>1, <1>2, <1>3, <1>4, <1>5, Zenon DEF GoodActivation

\* What a good activation is made of.
LEMMA PartsOfGood ==
    ASSUME NEW a \in GoodActivation
    PROVE  /\ a \in ActivationRecord
           /\ a.function \in GoodFunction
           /\ a.ip \in InstructionPointer
           /\ a.repeat_stack \in Seq(RepeatEntry)
           /\ a.ip_stack \in Seq(InstructionPointer)
           /\ a = [function |-> a.function, ip |-> a.ip,
                   repeat_stack |-> a.repeat_stack, ip_stack |-> a.ip_stack]
           /\ PointerOk(a, a.ip)
           /\ \A i \in 1 .. Len(a.ip_stack) :
                 PointerOk(a, a.ip_stack[i]) /\ HasCode(a, a.ip_stack[i])
           /\ Len(a.ip_stack) <= Len(a.repeat_stack)
           /\ Len(a.ip_stack) \in Nat /\ Len(a.repeat_stack) \in Nat
<1>1. a \in ActivationRecord
  BY DEF GoodActivation
<1>2. /\ a.function \in GoodFunction
      /\ a.ip \in InstructionPointer
      /\ a.repeat_stack \in Seq(RepeatEntry)
      /\ a.ip_stack \in Seq(InstructionPointer)
      /\ a = [function |-> a.function, ip |-> a.ip,
              repeat_stack |-> a.repeat_stack, ip_stack |-> a.ip_stack]
  BY <1>1 DEF ActivationRecord, GoodActivation, GoodFunction
<1>3. Len(a.ip_stack) \in Nat /\ Len(a.repeat_stack) \in Nat /\ DOMAIN a.ip_stack = 1 .. Len(a.ip_stack)
  BY <1>2, LenProperties
<1>4. ActivationOk(a) /\ \A i \in DOMAIN a.ip_stack : HasCode(a, a.ip_stack[i])
  BY Zenon DEF GoodActivation
<1> QED
  BY <1>1, <1>2, <1>3, <1>4, Zenon DEF ActivationOk

\* Activation::new.
LEMMA NewActivationGood ==
    ASSUME NEW f \in GoodFunction
    PROVE  NewActivation(f) \in GoodActivation
<1> DEFINE a == NewActivation(f)
<1>1. StartOf(f.body) \in InstructionPointer
  BY DEF GoodFunction, Function, InstructionPointer, StartOf
<1>2. << >> \in Seq(RepeatEntry) /\ << >> \in Seq(InstructionPointer) /\ Len(<< >>) = 0
  BY EmptySeq
<1>3. a \in ActivationRecord
  BY <1>1, <1>2 DEF NewActivation, ActivationRecord, GoodFunction
<1>4. Len(Code(a, StartOf(f.body))) \in Nat
  BY <1>1, <1>3, CodeType
<1>5. PointerOk(a, StartOf(f.body))
  BY <1>4 DEF PointerOk, StartOf
<1>6. ~RepeatsAgain(TopRepeat(a))
  BY DEF TopRepeat, RepeatsAgain, NewActivation
<1>7. /\ \A i \in 1 .. Len(<< >>) : PointerOk(a, (<< >>)[i]) /\ HasCode(a, (<< >>)[i])
      /\ Len(<< >>) <= Len(<< >>)
  BY <1>2
<1>8. a = [function |-> f, ip |-> StartOf(f.body), repeat_stack |-> << >>, ip_stack |-> << >>]
  BY DEF NewActivation
<1>9. a \in GoodActivation
  <2> HIDE DEF a
  <2> QED BY <1>1, <1>2, <1>5, <1>6, <1>7, <1>8, GoodParts
<1> QED BY <1>9

-----------------------------------------------------------------------------
(***************************************************************************)
(* Activation::next_instruction, jump by jump.                             *)
(***************************************************************************)
\* What a fetch that does not return leaves behind.
FetchedWell(a, b) ==
    /\ b \in GoodActivation
    /\ b.function = a.function
    /\ b.ip = Advance(PendingIp(a).ip)
    /\ HasCode(b, b.ip)
    /\ HasOp(a, PendingIp(a).ip)
    /\ PendingIp(a).ip \in InstructionPointer

\* Reading the next operation of the block.
LEMMA FetchNone ==
    ASSUME NEW a \in GoodActivation, ~AtEnd(a)
    PROVE  FetchedWell(a, [a EXCEPT !.ip = Advance(a.ip)])
<1> DEFINE ip == Advance(a.ip)
           b == [a EXCEPT !.ip = ip]
<1>1. PendingIp(a).ip = a.ip
  BY DEF PendingIp
<1>2. a.ip \in InstructionPointer /\ a.ip.index \in Nat /\ ip \in InstructionPointer
      /\ ip.block = a.ip.block /\ ip.index = a.ip.index + 1
  BY PartsOfGood DEF InstructionPointer, Advance
<1>3. HasOp(a, a.ip)
  <2>1. a.ip.index <= Len(Code(a, a.ip)) /\ a.ip.index # Len(Code(a, a.ip))
    BY PartsOfGood DEF PointerOk, AtEnd
  <2>2. Len(Code(a, a.ip)) \in Nat
    BY <1>2, CodeType, PartsOfGood
  <2> QED BY <1>2, <2>1, <2>2 DEF HasOp
<1>4. HasCode(a, a.ip)
  BY <1>2, <1>3, CodeType, PartsOfGood
<1>5. b = [function |-> a.function, ip |-> ip, repeat_stack |-> a.repeat_stack,
           ip_stack |-> a.ip_stack]
  BY PartsOfGood DEF ActivationRecord
<1>6. \A q : Code(b, q) = Code(a, q)
  BY <1>5 DEF Code
<1>7. Code(a, ip) = Code(a, a.ip)
  BY <1>2 DEF Code
<1>8. HasCode(b, ip)
  BY <1>4, <1>6, <1>7, Zenon DEF HasCode
<1>9. PointerOk(b, ip)
  <2>1. a.ip.index < Len(Code(a, a.ip)) /\ Len(Code(a, a.ip)) \in Nat
    BY <1>2, <1>3, CodeType, PartsOfGood DEF HasOp
  <2>2. ip.index <= Len(Code(a, a.ip))
    BY <1>2, <2>1
  <2> QED BY <1>6, <1>7, <2>2, Zenon DEF PointerOk
<1>10. \A i \in 1 .. Len(a.ip_stack) : PointerOk(b, a.ip_stack[i]) /\ HasCode(b, a.ip_stack[i])
  BY <1>6, PartsOfGood, Zenon DEF PointerOk, HasCode
<1>11. b \in GoodActivation
  <2> HIDE DEF b, ip
  <2> QED BY <1>2, <1>5, <1>8, <1>9, <1>10, PartsOfGood, GoodParts
<1>12. b.function = a.function /\ b.ip = ip
  BY <1>5
<1> QED BY <1>1, <1>2, <1>3, <1>8, <1>11, <1>12, Zenon DEF FetchedWell

\* Starting the next pass of a repeat.
LEMMA FetchRepeat ==
    ASSUME NEW a \in GoodActivation, AtEnd(a), RepeatsAgain(TopRepeat(a))
    PROVE  FetchedWell(a, RepeatBody(a))
<1> DEFINE top == Len(a.repeat_stack)
           ip == Advance(StartOf(a.ip.block))
           rs == [a.repeat_stack EXCEPT ![top].count = @ + 1]
           b == RepeatBody(a)
<1>1. PendingIp(a).ip = StartOf(a.ip.block)
  BY DEF PendingIp
<1>2. /\ a.ip \in InstructionPointer
      /\ StartOf(a.ip.block) \in InstructionPointer
      /\ ip \in InstructionPointer
      /\ ip = [block |-> a.ip.block, index |-> 1]
  BY PartsOfGood DEF InstructionPointer, Advance, StartOf
<1>3. HasCode(a, a.ip)
  BY DEF GoodActivation
<1>4. Len(Code(a, a.ip)) \in Nat /\ Len(Code(a, a.ip)) >= 1
  BY <1>2, <1>3, CodeType, PartsOfGood
<1>5. HasOp(a, StartOf(a.ip.block))
  BY <1>4 DEF HasOp, StartOf, Code
<1>6. a.repeat_stack # << >>
  BY DEF TopRepeat, RepeatsAgain
<1>7. top \in 1 .. top /\ a.repeat_stack[top] \in RepeatEntry
  <2>1. top \in Nat \ {0}
    BY <1>6, PartsOfGood, StackEnds
  <2>2. top \in 1 .. top
    BY <2>1
  <2> QED BY <2>2, PartsOfGood, ElementOfSeq
<1>8. rs \in Seq(RepeatEntry) /\ Len(rs) = top
  <2> DEFINE entry == [a.repeat_stack[top] EXCEPT !.count = @ + 1]
  <2>1. entry \in RepeatEntry
    BY <1>7 DEF RepeatEntry
  <2>2. rs = [a.repeat_stack EXCEPT ![top] = entry]
    OBVIOUS
  <2> HIDE DEF entry, rs
  <2> QED BY <1>7, <2>1, <2>2, PartsOfGood, ExceptSeq
<1>9. b = [function |-> a.function, ip |-> ip, repeat_stack |-> rs, ip_stack |-> a.ip_stack]
  <2>1. b = [a EXCEPT !.repeat_stack = rs, !.ip = [a.ip EXCEPT !.index = 1]]
    BY DEF RepeatBody
  <2>2. [a.ip EXCEPT !.index = 1] = ip
    BY <1>2 DEF InstructionPointer
  <2> HIDE DEF rs, ip, b
  <2> QED BY <2>1, <2>2, PartsOfGood DEF ActivationRecord
<1>10. \A q : Code(b, q) = Code(a, q)
  BY <1>9 DEF Code
<1>11. Code(a, ip) = Code(a, a.ip)
  BY <1>2 DEF Code
<1>12. HasCode(b, ip)
  BY <1>3, <1>10, <1>11, Zenon DEF HasCode
<1>13. PointerOk(b, ip)
  <2>1. ip.index <= Len(Code(a, a.ip))
    BY <1>2, <1>4
  <2> QED BY <1>10, <1>11, <2>1, Zenon DEF PointerOk
<1>14. \A i \in 1 .. Len(a.ip_stack) : PointerOk(b, a.ip_stack[i]) /\ HasCode(b, a.ip_stack[i])
  BY <1>10, PartsOfGood, Zenon DEF PointerOk, HasCode
<1>15. b \in GoodActivation
  <2> HIDE DEF b, ip, rs
  <2> QED BY <1>2, <1>8, <1>9, <1>12, <1>13, <1>14, PartsOfGood, GoodParts
<1>16. b.function = a.function /\ b.ip = ip
  BY <1>9
<1> QED BY <1>1, <1>2, <1>5, <1>12, <1>15, <1>16, Zenon DEF FetchedWell

\* Leaving blocks for a saved pointer that has an operation under it.
LEMMA FetchBranch ==
    ASSUME NEW a \in GoodActivation, NEW i \in 1 .. Len(a.ip_stack), HasOp(a, a.ip_stack[i]),
           PendingIp(a).ip = a.ip_stack[i]
    PROVE  FetchedWell(a, BranchTo(a, i))
<1> DEFINE saved == a.ip_stack[i]
           ip == Advance(saved)
           rs == PopRepeat(a)
           rest == SubSeq(a.ip_stack, 1, i - 1)
           b == BranchTo(a, i)
<1>1. Len(a.ip_stack) \in Nat /\ Len(a.repeat_stack) \in Nat
      /\ Len(a.ip_stack) <= Len(a.repeat_stack)
  BY PartsOfGood
<1>2. PICK n \in Nat : i = n + 1 /\ i - 1 = n /\ n <= Len(a.ip_stack)
  <2>1. i - 1 \in Nat /\ i = (i - 1) + 1 /\ i - 1 <= Len(a.ip_stack)
    BY <1>1
  <2> QED BY <2>1
<1>3. saved \in InstructionPointer
  BY PartsOfGood, ElementOfSeq
<1>4. ip \in InstructionPointer /\ ip.block = saved.block /\ ip.index = saved.index + 1
  BY <1>3 DEF InstructionPointer, Advance
<1>5. HasCode(a, saved) /\ Len(Code(a, saved)) \in Nat
  BY <1>3, PartsOfGood, CodeType
<1>6. a.repeat_stack # << >>
  <2>1. Len(a.repeat_stack) # 0
    BY <1>1
  <2> QED BY <2>1, EmptySeq
<1>7. rs \in Seq(RepeatEntry) /\ Len(rs) = Len(a.repeat_stack) - 1
  <2>1. rs = Front(a.repeat_stack)
    BY <1>6 DEF PopRepeat, Front
  <2> QED BY <1>6, <2>1, PartsOfGood, StackEnds
<1>8. /\ rest \in Seq(InstructionPointer)
      /\ Len(rest) = n
      /\ \A k \in 1 .. n : rest[k] = a.ip_stack[k]
  <2>1. rest = SubSeq(a.ip_stack, 1, n)
    BY <1>2
  <2> QED BY <1>2, <2>1, PartsOfGood, StackCut
<1>9. Len(rest) <= Len(rs)
  BY <1>1, <1>2, <1>7, <1>8
<1>10. b = [function |-> a.function, ip |-> ip, repeat_stack |-> rs, ip_stack |-> rest]
  <2>1. b = [a EXCEPT !.repeat_stack = rs, !.ip_stack = rest, !.ip = ip]
    BY DEF BranchTo
  <2> HIDE DEF rs, rest, ip, b
  <2> QED BY <2>1, PartsOfGood DEF ActivationRecord
<1>11. \A q : Code(b, q) = Code(a, q)
  BY <1>10 DEF Code
<1>12. Code(a, ip) = Code(a, saved)
  BY <1>4 DEF Code
<1>13. HasCode(b, ip)
  BY <1>5, <1>11, <1>12, Zenon DEF HasCode
<1>14. PointerOk(b, ip)
  <2>1. saved.index < Len(Code(a, saved)) /\ saved.index \in Nat
    BY <1>3 DEF HasOp, InstructionPointer
  <2>2. ip.index <= Len(Code(a, saved))
    BY <1>4, <1>5, <2>1
  <2> QED BY <1>11, <1>12, <2>2, Zenon DEF PointerOk
<1>15. \A k \in 1 .. Len(rest) : PointerOk(b, rest[k]) /\ HasCode(b, rest[k])
  <2>1. \A k \in 1 .. n : k \in 1 .. Len(a.ip_stack)
    BY <1>1, <1>2
  <2> QED BY <1>8, <1>11, <2>1, PartsOfGood, Zenon DEF PointerOk, HasCode
<1>16. b \in GoodActivation
  <2> HIDE DEF b, ip, rs, rest
  <2> QED BY <1>4, <1>7, <1>8, <1>9, <1>10, <1>13, <1>14, <1>15, PartsOfGood, GoodParts
<1>17. b.function = a.function /\ b.ip = ip
  BY <1>10
<1> QED BY <1>3, <1>13, <1>16, <1>17, Zenon DEF FetchedWell

\* The saved pointer pending_ip finds is there, and it is the last that will do.
LEMMA LiveSavedMax ==
    ASSUME NEW a \in GoodActivation, LiveSaved(a) # {}
    PROVE  /\ Max(LiveSaved(a)) \in 1 .. Len(a.ip_stack)
           /\ HasOp(a, a.ip_stack[Max(LiveSaved(a))])
<1>1. Len(a.ip_stack) \in Nat /\ DOMAIN a.ip_stack = 1 .. Len(a.ip_stack)
  BY PartsOfGood, LenProperties
<1>2. LiveSaved(a) \in SUBSET (1 .. Len(a.ip_stack))
  BY <1>1 DEF LiveSaved
<1>3. Max(LiveSaved(a)) \in LiveSaved(a)
  BY <1>1, <1>2, MaxOfPositions
<1> QED BY <1>1, <1>3, Zenon DEF LiveSaved

\* A fetch that does not return keeps the activation good.
LEMMA FetchGood ==
    ASSUME NEW a \in GoodActivation, PendingIp(a).jump # "Return"
    PROVE  FetchedWell(a, NextInstruction(a))
<1>1. CASE ~AtEnd(a)
  <2>1. PendingIp(a).jump = "None"
    BY <1>1 DEF PendingIp
  <2>2. NextInstruction(a) = [a EXCEPT !.ip = Advance(a.ip)]
    BY <2>1 DEF NextInstruction
  <2> QED BY <1>1, <2>2, FetchNone
<1>2. CASE AtEnd(a) /\ RepeatsAgain(TopRepeat(a))
  <2>1. PendingIp(a).jump = "Repeat"
    BY <1>2 DEF PendingIp
  <2>2. NextInstruction(a) = RepeatBody(a)
    BY <2>1 DEF NextInstruction
  <2> QED BY <1>2, <2>2, FetchRepeat
<1>3. CASE AtEnd(a) /\ ~RepeatsAgain(TopRepeat(a))
  <2>1. LiveSaved(a) # {}
    BY <1>3 DEF PendingIp
  <2>2. PendingIp(a) = [ip |-> a.ip_stack[Max(LiveSaved(a))], jump |-> "Branch"]
    BY <1>3, <2>1 DEF PendingIp
  <2>3. NextInstruction(a) = BranchTo(a, Max(LiveSaved(a)))
    BY <2>2 DEF NextInstruction
  <2>4. PendingIp(a).ip = a.ip_stack[Max(LiveSaved(a))]
    BY <2>2
  <2> QED BY <2>1, <2>3, <2>4, LiveSavedMax, FetchBranch
<1> QED BY <1>1, <1>2, <1>3

-----------------------------------------------------------------------------
(***************************************************************************)
(* What step does with the activation it has fetched.                      *)
(***************************************************************************)
\* The pointer after a fetch, and the pointer of the operation fetched.
LEMMA FetchedPointer ==
    ASSUME NEW a, NEW b, FetchedWell(a, b)
    PROVE  /\ b.ip.index \in Nat \ {0}
           /\ StepBack(b).ip \in InstructionPointer
           /\ StepBack(b).ip.block = b.ip.block
           /\ StepBack(b).ip.index = b.ip.index - 1
           /\ PointerOk(b, StepBack(b).ip)
           /\ HasCode(b, StepBack(b).ip)
<1>1. b \in GoodActivation /\ HasCode(b, b.ip)
  BY DEF FetchedWell
<1>2. PendingIp(a).ip \in InstructionPointer /\ b.ip = Advance(PendingIp(a).ip)
  BY DEF FetchedWell
<1>3. PICK n \in Nat : b.ip.index = n + 1
  BY <1>2 DEF InstructionPointer, Advance
<1>4. b.ip.index \in Nat \ {0} /\ b.ip.index - 1 = n
  BY <1>3
<1>5. b \in ActivationRecord /\ b.ip \in InstructionPointer /\ PointerOk(b, b.ip)
  BY <1>1, PartsOfGood
<1>6. StepBack(b).ip = [block |-> b.ip.block, index |-> n]
  <2>1. StepBack(b).ip = [b.ip EXCEPT !.index = @ - 1]
    BY <1>5 DEF StepBack, ActivationRecord
  <2> QED BY <1>4, <1>5, <2>1 DEF InstructionPointer
<1>7. StepBack(b).ip \in InstructionPointer
  BY <1>5, <1>6 DEF InstructionPointer
<1>8. Code(b, StepBack(b).ip) = Code(b, b.ip)
  BY <1>6 DEF Code
<1>9. PointerOk(b, StepBack(b).ip)
  <2>1. n + 1 <= Len(Code(b, b.ip)) /\ Len(Code(b, b.ip)) \in Nat
    BY <1>3, <1>5, CodeType DEF PointerOk
  <2>2. n <= Len(Code(b, b.ip))
    BY <2>1
  <2>3. StepBack(b).ip.index = n
    BY <1>6
  <2> QED BY <1>8, <2>2, <2>3, Zenon DEF PointerOk
<1>10. HasCode(b, StepBack(b).ip)
  BY <1>1, <1>8, Zenon DEF HasCode
<1>11. StepBack(b).ip.block = b.ip.block /\ StepBack(b).ip.index = b.ip.index - 1
  BY <1>4, <1>6
<1> QED BY <1>4, <1>7, <1>9, <1>10, <1>11, Zenon

\* Putting the activation back on the operation it was about to execute.
LEMMA StepBackGood ==
    ASSUME NEW a, NEW b, FetchedWell(a, b)
    PROVE  StepBack(b) \in GoodActivation
<1> DEFINE ip == StepBack(b).ip
           c == StepBack(b)
<1>1. b \in GoodActivation
  BY DEF FetchedWell
<1>2. c = [function |-> b.function, ip |-> ip, repeat_stack |-> b.repeat_stack,
           ip_stack |-> b.ip_stack]
  BY <1>1, PartsOfGood DEF StepBack, ActivationRecord
<1>3. \A q : Code(c, q) = Code(b, q)
  BY <1>2 DEF Code
<1>4. PointerOk(c, ip) /\ HasCode(c, ip) /\ ip \in InstructionPointer
  BY <1>3, FetchedPointer, Zenon DEF PointerOk, HasCode
<1>5. \A i \in 1 .. Len(b.ip_stack) : PointerOk(c, b.ip_stack[i]) /\ HasCode(c, b.ip_stack[i])
  BY <1>1, <1>3, PartsOfGood, Zenon DEF PointerOk, HasCode
<1>6. c \in GoodActivation
  <2> HIDE DEF c, ip
  <2> QED BY <1>1, <1>2, <1>4, <1>5, PartsOfGood, GoodParts
<1> QED BY <1>6

\* Entering a block, the pointer to come back to being in a block with code.
LEMMA EnterGood ==
    ASSUME NEW a \in GoodActivation, NEW block \in BlockId,
           NEW saved \in InstructionPointer, NEW entry \in RepeatEntry,
           PointerOk(a, saved), HasCode(a, saved),
           HasCode(a, StartOf(block)) \/ ~RepeatsAgain(entry)
    PROVE  Enter(a, block, saved, entry) \in GoodActivation
<1> DEFINE rs == Append(a.repeat_stack, entry)
           ips == Append(a.ip_stack, saved)
           b == Enter(a, block, saved, entry)
<1>1. Len(a.ip_stack) \in Nat /\ Len(a.repeat_stack) \in Nat
      /\ Len(a.ip_stack) <= Len(a.repeat_stack)
  BY PartsOfGood
<1>2. StartOf(block) \in InstructionPointer
  BY DEF StartOf, InstructionPointer
<1>3. rs \in Seq(RepeatEntry) /\ rs # << >> /\ Len(rs) = Len(a.repeat_stack) + 1
      /\ rs[Len(rs)] = entry
  BY PartsOfGood, StackPush
<1>4. /\ ips \in Seq(InstructionPointer)
      /\ Len(ips) = Len(a.ip_stack) + 1
      /\ ips[Len(a.ip_stack) + 1] = saved
      /\ \A i \in 1 .. Len(a.ip_stack) : ips[i] = a.ip_stack[i]
  BY PartsOfGood, StackPush
<1>5. Len(ips) <= Len(rs)
  BY <1>1, <1>3, <1>4
<1>6. b = [function |-> a.function, ip |-> StartOf(block), repeat_stack |-> rs, ip_stack |-> ips]
  <2>1. b = [a EXCEPT !.ip_stack = ips, !.repeat_stack = rs, !.ip = StartOf(block)]
    BY DEF Enter
  <2> HIDE DEF rs, ips, b
  <2> QED BY <2>1, PartsOfGood DEF ActivationRecord
<1>7. \A q : Code(b, q) = Code(a, q)
  BY <1>6 DEF Code
<1>8. TopRepeat(b) = entry
  <2>1. b.repeat_stack = rs
    BY <1>6
  <2> HIDE DEF b, rs
  <2> QED BY <1>3, <2>1, Zenon DEF TopRepeat
<1>9. PointerOk(b, StartOf(block))
  <2>1. Len(Code(a, StartOf(block))) \in Nat
    BY <1>2, PartsOfGood, CodeType
  <2>2. StartOf(block).index <= Len(Code(a, StartOf(block)))
    BY <2>1 DEF StartOf
  <2> QED BY <1>7, <2>2, Zenon DEF PointerOk
<1>10. HasCode(b, StartOf(block)) \/ ~RepeatsAgain(TopRepeat(b))
  BY <1>7, <1>8, Zenon DEF HasCode
<1>11. \A i \in 1 .. Len(ips) : PointerOk(b, ips[i]) /\ HasCode(b, ips[i])
  <2> SUFFICES ASSUME NEW i \in 1 .. Len(ips) PROVE PointerOk(b, ips[i]) /\ HasCode(b, ips[i])
    OBVIOUS
  <2>1. i \in 1 .. Len(a.ip_stack) \/ i = Len(a.ip_stack) + 1
    BY <1>1, <1>4
  <2>2. PointerOk(a, ips[i]) /\ HasCode(a, ips[i])
    BY <1>4, <2>1, PartsOfGood, Zenon
  <2> QED BY <1>7, <2>2, Zenon DEF PointerOk, HasCode
<1>12. b \in GoodActivation
  <2> HIDE DEF b, rs, ips
  <2> QED BY <1>2, <1>3, <1>4, <1>5, <1>6, <1>9, <1>10, <1>11, PartsOfGood, GoodParts
<1> QED BY <1>12

\* The fields of an operation, by its kind.
LEMMA OpFields ==
    ASSUME NEW op \in Op
    PROVE  /\ op.op = "If" => op.then \in BlockId /\ op.else \in BlockId
           /\ op.op = "While" => op.body \in BlockId
           /\ op.op = "Repeat" => op.body \in BlockId /\ op.n \in Nat
           /\ op.op = "Exec" => op.callee \in FunctionIdent
BY DEF Op, PlainOp, StoreOp, IfOp, WhileOp, RepeatOp, ExecOp

\* Entering the block of an if, and of a while.true.
LEMMA EnterBlocksGood ==
    ASSUME NEW a, NEW b, FetchedWell(a, b), NEW block \in BlockId
    PROVE  EnterBlock(b, block) \in GoodActivation /\ EnterWhileLoop(b, block) \in GoodActivation
<1>1. b \in GoodActivation /\ HasCode(b, b.ip)
  BY DEF FetchedWell
<1>2. PointerOk(b, b.ip) /\ b.ip \in InstructionPointer
  BY <1>1, PartsOfGood
<1>3. NoRepeat \in RepeatEntry /\ ~RepeatsAgain(NoRepeat)
  BY DEF NoRepeat, RepeatEntry, RepeatsAgain
<1>4. EnterBlock(b, block) \in GoodActivation
  BY <1>1, <1>2, <1>3, EnterGood DEF EnterBlock
<1>5. EnterWhileLoop(b, block) \in GoodActivation
  BY <1>1, <1>3, FetchedPointer, EnterGood DEF EnterWhileLoop
<1> QED BY <1>4, <1>5

\* Entering the body of a repeat: here the body must have code.
LEMMA EnterRepeatGood ==
    ASSUME NEW a \in GoodActivation, NEW b, FetchedWell(a, b), NEW op,
           op = OpAt(a, PendingIp(a).ip), op.op = "Repeat"
    PROVE  EnterRepeat(b, op.body, op.n) \in GoodActivation
<1> DEFINE ip == PendingIp(a).ip
           f == a.function
<1>1. b \in GoodActivation /\ HasCode(b, b.ip) /\ b.function = f /\ HasOp(a, ip)
      /\ ip \in InstructionPointer
  BY DEF FetchedWell
<1>2. PointerOk(b, b.ip) /\ b.ip \in InstructionPointer
  BY <1>1, PartsOfGood
<1>3. a \in ActivationRecord /\ f \in GoodFunction
  BY PartsOfGood
<1>4. op \in Op
  BY <1>1, <1>3, CodeType
<1>5. op.body \in BlockId /\ op.n \in Nat
  BY <1>4, OpFields
<1>6. ip.index + 1 \in DOMAIN f.blocks[ip.block] /\ ip.block \in BlockId
  <2>1. Code(a, ip) \in Seq(Op) /\ Len(Code(a, ip)) \in Nat /\ Code(a, ip) = f.blocks[ip.block]
    BY <1>1, <1>3, CodeType DEF Code
  <2>2. ip.index \in Nat /\ ip.index < Len(Code(a, ip)) /\ ip.block \in BlockId
    BY <1>1 DEF HasOp, InstructionPointer
  <2>3. ip.index + 1 \in 1 .. Len(Code(a, ip))
    <3>1. \A k, n \in Nat : k < n => k + 1 \in 1 .. n
      OBVIOUS
    <3> QED BY <2>1, <2>2, <3>1, Zenon
  <2> QED BY <2>1, <2>2, <2>3, LenProperties
<1>7. f.blocks[op.body] # << >>
  <2>1. op = f.blocks[ip.block][ip.index + 1]
    BY DEF OpAt, Code
  <2>2. RepeatBodiesNonEmpty(f)
    BY <1>3 DEF GoodFunction
  <2> QED BY <1>6, <2>1, <2>2, Zenon DEF RepeatBodiesNonEmpty
<1>8. HasCode(b, StartOf(op.body))
  BY <1>1, <1>7 DEF HasCode, Code, StartOf
<1>9. [count |-> 1, n |-> op.n] \in RepeatEntry
  BY <1>5 DEF RepeatEntry
<1> QED BY <1>1, <1>2, <1>5, <1>8, <1>9, EnterGood DEF EnterRepeat

-----------------------------------------------------------------------------
(***************************************************************************)
(* The emulator: a stack of activations, and what a call is asked for.     *)
(***************************************************************************)

Status == {"ready", "running", "unwinding", "suspended", "exhausted", "done", "failed"}

(***************************************************************************)
(* The inductive invariant: the types, with every activation a good one,   *)
(* and somewhere to return to while the loop is returning.                 *)
(***************************************************************************)
IInv ==
    /\ TypeOK
    /\ callstack \in Seq(GoodActivation)
    /\ status = "unwinding" => callstack # << >>

\* Good activations are activations.
LEMMA GoodStacks ==
    ASSUME NEW cs \in Seq(GoodActivation)
    PROVE  /\ cs \in Seq(ActivationRecord)
           /\ \A i \in DOMAIN cs : ActivationOk(cs[i])
<1>1. cs \in [1 .. Len(cs) -> GoodActivation] /\ Len(cs) \in Nat /\ DOMAIN cs = 1 .. Len(cs)
  BY LenProperties
<1>2. \A i \in 1 .. Len(cs) : cs[i] \in ActivationRecord /\ ActivationOk(cs[i])
  BY <1>1 DEF GoodActivation
<1>3. cs \in Seq(ActivationRecord)
  <2>1. cs \in [1 .. Len(cs) -> ActivationRecord]
    BY <1>1, <1>2
  <2> QED BY <1>1, <2>1, SeqDef
<1> QED BY <1>1, <1>2, <1>3

\* The functions an emulator has loaded, by ProgramsAssumption.
LEMMA LoadedFunctions ==
    ASSUME NEW fs \in Programs, NEW id \in DOMAIN fs
    PROVE  fs[id] \in GoodFunction
BY ProgramsAssumption DEF IsFunctionTable, GoodFunction

\* Where pending_ip points is a pointer, even on a return.
LEMMA PendingIpType ==
    ASSUME NEW a \in GoodActivation
    PROVE  PendingIp(a).ip \in InstructionPointer
<1>1. CASE PendingIp(a).jump = "Return"
  <2>1. PendingIp(a).ip = a.ip
    BY <1>1 DEF PendingIp
  <2> QED BY <2>1, PartsOfGood
<1>2. CASE PendingIp(a).jump # "Return"
  BY <1>2, FetchGood DEF FetchedWell
<1> QED BY <1>1, <1>2

\* The breakpoints the code itself sets.
LEMMA OwnBreakpoints ==
    /\ NoBreakpoint \in Breakpoint
    /\ \A ip \in InstructionPointer : [kind |-> "StepUntil", ip |-> ip] \in Breakpoint
BY DEF NoBreakpoint, Breakpoint

LEMMA OverBpType ==
    ASSUME bp \in Breakpoint, NEW a \in GoodActivation
    PROVE  OverBp(a) \in Breakpoint
BY PendingIpType, OwnBreakpoints DEF OverBp

\* handle_action on a suspension.
LEMMA SuspendType ==
    ASSUME NEW cs, NEW b \in Breakpoint, Suspend(cs, b)
    PROVE  callstack' = cs /\ bp' \in Breakpoint /\ status' \in {"running", "suspended"}
BY OwnBreakpoints DEF Suspend

\* The innermost activation and the callers under it.
LEMMA Innermost ==
    ASSUME callstack \in Seq(GoodActivation), callstack # << >>
    PROVE  /\ Current \in GoodActivation
           /\ Front(callstack) \in Seq(GoodActivation)
           /\ \A a \in GoodActivation : Resched(a) \in Seq(GoodActivation)
           /\ Jumped # "Return" => FetchedWell(Current, Fetched)
<1>1. Current \in GoodActivation /\ Front(callstack) \in Seq(GoodActivation)
  BY StackEnds DEF Current
<1>2. \A a \in GoodActivation : Resched(a) \in Seq(GoodActivation)
  BY <1>1, StackPush DEF Resched
<1>3. Jumped # "Return" => FetchedWell(Current, Fetched)
  BY <1>1, FetchGood DEF Jumped, Fetched
<1> QED BY <1>1, <1>2, <1>3

\* A fetch: what every operation starts from.
LEMMA FetchesGood ==
    ASSUME callstack \in Seq(GoodActivation), NEW op, Fetches(op)
    PROVE  /\ FetchedWell(Current, Fetched)
           /\ Current \in GoodActivation /\ Fetched \in GoodActivation
           /\ Ix \in Op
           /\ Ix = OpAt(Current, PendingIp(Current).ip)
           /\ Ix.op = op
           /\ callstack # << >>
<1>1. callstack # << >> /\ Jumped # "Return" /\ Ix.op = op
  BY DEF Fetches
<1>2. FetchedWell(Current, Fetched) /\ Current \in GoodActivation
  BY <1>1, Innermost
<1>3. Ix \in Op
  BY <1>2, PartsOfGood, CodeType DEF FetchedWell, Ix
<1> QED BY <1>1, <1>2, <1>3 DEF FetchedWell, Ix

-----------------------------------------------------------------------------
\* The conjuncts of the invariant that executing an operation can disturb.
Executes ==
    /\ callstack' \in Seq(GoodActivation)
    /\ bp' \in Breakpoint
    /\ status' \in Status
    /\ status' = "unwinding" => callstack' # << >>

LEMMA SuspendGood ==
    ASSUME NEW cs \in Seq(GoodActivation), NEW b \in Breakpoint, Suspend(cs, b)
    PROVE  Executes
BY SuspendType DEF Executes, Status

LEMMA BreakBeforeGood ==
    ASSUME IInv, NEW op, Fetches(op), BreakBefore
    PROVE  Executes
<1>1. StepBack(Fetched) \in GoodActivation
  BY FetchesGood, StepBackGood DEF IInv
<1>2. Resched(StepBack(Fetched)) \in Seq(GoodActivation)
  BY <1>1, FetchesGood, Innermost DEF IInv
<1> QED BY <1>2 DEF Executes, BreakBefore, Status, IInv, TypeOK

LEMMA SimpleOpsGood ==
    ASSUME IInv, Plain \/ Store
    PROVE  Executes
<1>1. PICK op : Fetches(op)
  BY DEF Plain, Store
<1>2. Resched(Fetched) \in Seq(GoodActivation)
  BY <1>1, FetchesGood, Innermost DEF IInv
<1>3. Suspend(Resched(Fetched), bp) => Executes
  BY <1>2, SuspendGood DEF IInv, TypeOK
<1>4. BreakBefore => Executes
  BY <1>1, BreakBeforeGood
<1> QED BY <1>3, <1>4 DEF Plain, Store

LEMMA IfGood ==
    ASSUME IInv, If
    PROVE  Executes
<1>1. Fetches("If")
  BY DEF If
<1>2. PICK block \in {Ix.then, Ix.else} :
        Suspend(Resched(EnterBlock(Fetched, block)), OverBp(Fetched))
  BY DEF If
<1>3. block \in BlockId
  BY <1>1, FetchesGood, OpFields DEF IInv
<1>4. EnterBlock(Fetched, block) \in GoodActivation
  BY <1>1, <1>3, FetchesGood, EnterBlocksGood DEF IInv
<1>5. Resched(EnterBlock(Fetched, block)) \in Seq(GoodActivation)
  BY <1>1, <1>4, FetchesGood, Innermost DEF IInv
<1>6. OverBp(Fetched) \in Breakpoint
  BY <1>1, FetchesGood, OverBpType DEF IInv, TypeOK
<1> QED BY <1>2, <1>5, <1>6, SuspendGood

LEMMA WhileGood ==
    ASSUME IInv, While
    PROVE  Executes
<1>1. Fetches("While")
  BY DEF While
<1>2. Ix.body \in BlockId
  BY <1>1, FetchesGood, OpFields DEF IInv
<1>3. EnterWhileLoop(Fetched, Ix.body) \in GoodActivation /\ Fetched \in GoodActivation
  BY <1>1, <1>2, FetchesGood, EnterBlocksGood DEF IInv
<1>4. /\ Resched(EnterWhileLoop(Fetched, Ix.body)) \in Seq(GoodActivation)
      /\ Resched(Fetched) \in Seq(GoodActivation)
  BY <1>1, <1>3, FetchesGood, Innermost DEF IInv
<1>5. OverBp(Fetched) \in Breakpoint
  BY <1>1, <1>3, OverBpType DEF IInv, TypeOK
<1>6. Suspend(Resched(EnterWhileLoop(Fetched, Ix.body)), OverBp(Fetched)) => Executes
  BY <1>4, <1>5, SuspendGood
<1>7. Suspend(Resched(Fetched), OverBp(Fetched)) => Executes
  BY <1>4, <1>5, SuspendGood
<1>8. BreakBefore => Executes
  BY <1>1, BreakBeforeGood
<1> QED BY <1>6, <1>7, <1>8 DEF While

LEMMA RepeatGood ==
    ASSUME IInv, Repeat
    PROVE  Executes
<1>1. Fetches("Repeat")
  BY DEF Repeat
<1>2. EnterRepeat(Fetched, Ix.body, Ix.n) \in GoodActivation
  BY <1>1, FetchesGood, EnterRepeatGood DEF IInv
<1>3. Resched(EnterRepeat(Fetched, Ix.body, Ix.n)) \in Seq(GoodActivation)
  BY <1>1, <1>2, FetchesGood, Innermost DEF IInv
<1>4. OverBp(Fetched) \in Breakpoint
  BY <1>1, FetchesGood, OverBpType DEF IInv, TypeOK
<1>5. Suspend(Resched(EnterRepeat(Fetched, Ix.body, Ix.n)), OverBp(Fetched)) => Executes
  BY <1>3, <1>4, SuspendGood
<1>6. BreakBefore => Executes
  BY <1>1, BreakBeforeGood
<1> QED BY <1>5, <1>6 DEF Repeat

LEMMA ExecGood ==
    ASSUME IInv, Exec \/ ExecUndefined
    PROVE  Executes
<1>1. Fetches("Exec")
  BY DEF Exec, ExecUndefined
<1>2. CASE Exec
  <2> DEFINE callee == NewActivation(functions[Ix.callee])
             cs == Append(Resched(Fetched), callee)
  <2>1. callee \in GoodActivation
    BY <1>2, LoadedFunctions, NewActivationGood DEF Exec, IInv, TypeOK
  <2>2. Resched(Fetched) \in Seq(GoodActivation)
    BY <1>1, FetchesGood, Innermost DEF IInv
  <2>3. cs \in Seq(GoodActivation)
    BY <2>1, <2>2, StackPush
  <2>4. OverBp(Fetched) \in Breakpoint
    BY <1>1, FetchesGood, OverBpType DEF IInv, TypeOK
  <2>5. Suspend(cs, OverBp(Fetched)) => Executes
    BY <2>3, <2>4, SuspendGood
  <2>6. callstack' = cs /\ status' = "suspended" /\ bp' = bp => Executes
    BY <2>3 DEF Executes, Status, IInv, TypeOK
  <2>7. Suspend(cs, OverBp(Fetched)) \/ (callstack' = cs /\ status' = "suspended" /\ bp' = bp)
    BY <1>2 DEF Exec
  <2> QED BY <2>5, <2>6, <2>7
<1>3. CASE ExecUndefined
  <2>1. Front(callstack) \in Seq(GoodActivation)
    BY <1>1, FetchesGood, Innermost DEF IInv
  <2> QED BY <1>3, <2>1, OwnBreakpoints DEF ExecUndefined, StepBp, Executes, Status, IInv, TypeOK
<1> QED BY <1>2, <1>3

\* The passes that execute no operation.
LEMMA OtherPassesGood ==
    ASSUME IInv, BudgetExceeded \/ Halt \/ Return \/ BreakOnJump \/ Unwind
    PROVE  Executes
<1> USE DEF IInv, TypeOK, Executes, Status
<1>1. CASE BudgetExceeded \/ Halt
  BY <1>1 DEF BudgetExceeded, Halt
<1>2. CASE Return
  BY <1>2, Innermost DEF Return, ReturnFrom
<1>3. CASE BreakOnJump
  BY <1>3, Innermost DEF BreakOnJump
<1>4. CASE Unwind
  <2>1. Front(callstack) \in Seq(GoodActivation)
    BY <1>4, Innermost DEF Unwind
  <2>2. CASE Jumped = "Return"
    BY <1>4, <2>1, <2>2 DEF Unwind, ReturnFrom
  <2>3. CASE Jumped # "Return"
    BY <1>4, <2>3, SuspendGood DEF Unwind
  <2> QED BY <2>2, <2>3
<1> QED BY <1>1, <1>2, <1>3, <1>4

\* The parts of the state that a pass only counts or clears.
LEMMA PassCounts ==
    ASSUME TypeOK, Run
    PROVE  /\ functions' \in Programs
           /\ clk' \in Nat /\ clk_limit' \in Nat /\ step_until' \in Nat
           /\ resuming' \in BOOLEAN
           /\ began' \in [bp : Breakpoint, clk : Nat, worked : BOOLEAN]
<1>1. UNCHANGED hostOwned
  BY DEF Run, BudgetExceeded, Halt, Return, BreakOnJump, Plain, Store, If, While, Repeat,
         Exec, ExecUndefined, Unwind
<1>2. clk' \in {clk, clk + 1}
  BY DEF Run, BudgetExceeded, Halt, Return, BreakOnJump, Plain, Store, If, While, Repeat,
         Exec, ExecUndefined, Unwind, Fetches, Tick
<1>3. resuming' \in {resuming, FALSE}
  BY DEF Run, BudgetExceeded, Halt, Return, BreakOnJump, Plain, Store, If, While, Repeat,
         Exec, ExecUndefined, Unwind, Fetches, Tick
<1>4. began' \in {began, [began EXCEPT !.worked = TRUE]}
  BY DEF Run, BudgetExceeded, Halt, Return, BreakOnJump, Plain, Store, If, While, Repeat,
         Exec, ExecUndefined, Unwind, BreakBefore, Executed
<1>5. clk' \in Nat
  BY <1>2 DEF TypeOK
<1> QED BY <1>1, <1>3, <1>4, <1>5 DEF TypeOK, hostOwned

-----------------------------------------------------------------------------
\* The host leaves the invariant alone too.
LEMMA NoCallType == NoCall \in [bp : Breakpoint, clk : Nat, worked : BOOLEAN]
BY OwnBreakpoints DEF NoCall

LEMMA EnterRunType ==
    ASSUME TypeOK, EnterRun
    PROVE  /\ status' = "running" /\ resuming' \in BOOLEAN /\ step_until' \in Nat
           /\ began' \in [bp : Breakpoint, clk : Nat, worked : BOOLEAN]
<1>1. bp.kind = "StepN" => clk + (bp.n - 1) \in Nat
  BY DEF TypeOK, Breakpoint
<1> QED BY <1>1, BoundsAssumption DEF EnterRun, TypeOK

LEMMA HostGood ==
    ASSUME IInv, Host
    PROVE  IInv'
<1> USE NoCallType, BoundsAssumption DEF IInv, TypeOK, Forget
<1>1. ASSUME NEW b \in Breakpoint, SetBreakpoint(b) PROVE IInv'
  BY <1>1 DEF SetBreakpoint, Running
<1>2. CASE ClearBreakpoint
  BY <1>1, <1>2, OwnBreakpoints DEF ClearBreakpoint
<1>3. ASSUME NEW max \in Budgets, SetMaxCycles(max) PROVE IInv'
  BY <1>3 DEF SetMaxCycles, Running
<1>4. CASE Resume
  BY <1>4, EnterRunType DEF Resume
<1>5. ASSUME NEW f \in Invoked \cap DOMAIN functions, Invoke(f) PROVE IInv'
  <2>1. NewActivation(functions[f]) \in GoodActivation
    BY LoadedFunctions, NewActivationGood
  <2>2. callstack' \in Seq(GoodActivation)
    BY <1>5, <2>1, StackPush DEF Invoke
  <2>3. callstack' \in Seq(ActivationRecord)
    BY <2>2, GoodStacks
  <2>4. CASE BreaksOnEntry(f)
    BY <1>5, <2>2, <2>3, <2>4 DEF Invoke
  <2>5. CASE ~BreaksOnEntry(f)
    BY <1>5, <2>2, <2>3, <2>5, EnterRunType DEF Invoke
  <2> QED BY <2>4, <2>5
<1>6. \A b \in Breakpoints : b \in Breakpoint
  BY BreakpointsAssumption
<1> QED BY <1>1, <1>2, <1>3, <1>4, <1>5, <1>6 DEF Host

LEMMA RunGood ==
    ASSUME IInv, Run
    PROVE  IInv'
<1>1. Executes
  BY SimpleOpsGood, IfGood, WhileGood, RepeatGood, ExecGood, OtherPassesGood DEF Run
<1>2. TypeOK
  BY DEF IInv
<1>3. callstack' \in Seq(ActivationRecord)
  BY <1>1, GoodStacks DEF Executes
<1> QED BY <1>1, <1>2, <1>3, PassCounts DEF IInv, TypeOK, Executes, Status

LEMMA InitGood == Init => IInv
<1>1. << >> \in Seq(GoodActivation) /\ << >> \in Seq(ActivationRecord)
  BY EmptySeq
<1>2. MaxCycles \in Nat
  BY BoundsAssumption
<1> SUFFICES ASSUME Init PROVE IInv
  OBVIOUS
<1>3. callstack \in Seq(GoodActivation) /\ callstack \in Seq(ActivationRecord)
  BY <1>1, Zenon DEF Init
<1>4. /\ functions \in Programs /\ status = "ready" /\ resuming \in BOOLEAN
      /\ bp \in Breakpoint /\ began \in [bp : Breakpoint, clk : Nat, worked : BOOLEAN]
  BY NoCallType, OwnBreakpoints DEF Init
<1>5. clk \in Nat /\ clk_limit \in Nat /\ step_until \in Nat
  BY <1>2 DEF Init
<1> QED BY <1>3, <1>4, <1>5 DEF IInv, TypeOK

THEOREM Invariance == Spec => []IInv
<1>1. Init => IInv
  BY InitGood
<1>2. IInv /\ [Next]_vars => IInv'
  <2> SUFFICES ASSUME IInv, [Next]_vars PROVE IInv'
    OBVIOUS
  <2>1. CASE Next
    BY <2>1, HostGood, RunGood DEF Next
  <2>2. CASE UNCHANGED vars
    BY <2>2 DEF vars, IInv, TypeOK
  <2> QED BY <2>1, <2>2
<1> QED BY <1>1, <1>2, PTL DEF Spec

(***************************************************************************)
(* The state of the emulator is well typed, whatever the host does.        *)
(***************************************************************************)
THEOREM TypeCorrect == Spec => []TypeOK
<1>1. IInv => TypeOK
  BY DEF IInv
<1> QED BY <1>1, Invariance, PTL

(***************************************************************************)
(* Every activation can be continued: pending_ip and next_instruction find *)
(* every end of a block, and never index an empty one.                     *)
(***************************************************************************)
THEOREM ActivationsStayOk == Spec => []ActivationsOk
<1>1. IInv => ActivationsOk
  BY GoodStacks DEF IInv, ActivationsOk
<1> QED BY <1>1, Invariance, PTL

-----------------------------------------------------------------------------
(***************************************************************************)
(* Resuming.  Until the first operation of a call is executed the call is  *)
(* on its first pass, with the breakpoint it began with; from then on      *)
(* every stop at a breakpoint is one after work done.                      *)
(***************************************************************************)
ResumeInv ==
    /\ ResumeProgresses
    /\ status = "running" /\ resuming => bp = began.bp
    /\ status = "running" /\ ~resuming => began.worked
    /\ status = "unwinding" => began.worked /\ ~resuming

\* Executing an operation is work; no later pass is the first.
LEMMA WorkingPass ==
    ASSUME TypeOK, Executed, resuming' = FALSE
    PROVE  ResumeInv'
<1>1. began'.worked
  BY DEF Executed, TypeOK
<1> QED BY <1>1 DEF ResumeInv, ResumeProgresses

\* A breakpoint that stops a pass before its operation is not one masked on the first.
LEMMA EarlyBreak ==
    ASSUME TypeOK, ResumeInv, Tick, UNCHANGED began, status' = "suspended",
           \/ StepBp.kind \in {"Loop", "MemoryWrite"}
           \/ BreaksOnJump
    PROVE  ResumeInv'
<1>1. CASE resuming
  <2>1. StepBp.kind = "StepOut"
    BY <1>1 DEF StepBp, Masked, NoBreakpoint, BreaksOnJump
  <2>2. bp.kind = "StepOut"
    BY <2>1 DEF StepBp, NoBreakpoint
  <2>3. began.bp.kind = "StepOut"
    BY <1>1, <2>2 DEF ResumeInv, Tick
  <2> QED BY <2>3 DEF ResumeInv, ResumeProgresses
<1>2. CASE ~resuming
  BY <1>2 DEF ResumeInv, ResumeProgresses, Tick
<1> QED BY <1>1, <1>2 DEF TypeOK

LEMMA RunResumes ==
    ASSUME TypeOK, ResumeInv, Run
    PROVE  ResumeInv'
<1>1. CASE BudgetExceeded \/ Halt \/ ExecUndefined
  BY <1>1 DEF BudgetExceeded, Halt, ExecUndefined, ResumeInv, ResumeProgresses
<1>2. CASE Return \/ Plain \/ If \/ Exec
  BY <1>2, WorkingPass DEF Return, Plain, If, Exec, Fetches, Tick
<1>3. CASE BreakOnJump
  BY <1>3, EarlyBreak DEF BreakOnJump
<1>4. CASE Store
  <2>1. Tick
    BY <1>4 DEF Store, Fetches
  <2>2. CASE Touches(Ix.addr)
    BY <1>4, <2>1, <2>2, EarlyBreak DEF Store, BreakBefore, Touches
  <2>3. CASE ~Touches(Ix.addr)
    BY <1>4, <2>1, <2>3, WorkingPass DEF Store, Tick
  <2> QED BY <2>2, <2>3
<1>5. CASE While \/ Repeat
  <2>1. Tick
    BY <1>5 DEF While, Repeat, Fetches
  <2>2. CASE StepBp.kind = "Loop"
    BY <1>5, <2>1, <2>2, EarlyBreak DEF While, Repeat, BreakBefore
  <2>3. CASE StepBp.kind # "Loop"
    BY <1>5, <2>1, <2>3, WorkingPass DEF While, Repeat, Tick
  <2> QED BY <2>2, <2>3
<1>6. CASE Unwind
  BY <1>6 DEF Unwind, ResumeInv, ResumeProgresses
<1> QED BY <1>1, <1>2, <1>3, <1>4, <1>5, <1>6 DEF Run

LEMMA HostResumes ==
    ASSUME TypeOK, ResumeInv, Host
    PROVE  ResumeInv'
<1>1. ASSUME Forget, status' \notin {"running", "unwinding"} PROVE ResumeInv'
  BY <1>1 DEF Forget, NoCall, NoBreakpoint, ResumeInv, ResumeProgresses
<1>2. ASSUME EnterRun, UNCHANGED bp PROVE ResumeInv'
  BY <1>2 DEF EnterRun, ResumeInv, ResumeProgresses
<1>3. ASSUME NEW b, SetBreakpoint(b) PROVE ResumeInv'
  BY <1>1, <1>3 DEF SetBreakpoint, Running
<1>4. ASSUME NEW max, SetMaxCycles(max) PROVE ResumeInv'
  BY <1>1, <1>4 DEF SetMaxCycles, Running
<1>5. CASE Resume
  BY <1>2, <1>5 DEF Resume
<1>6. ASSUME NEW f, Invoke(f) PROVE ResumeInv'
  BY <1>1, <1>2, <1>6 DEF Invoke
<1> QED BY <1>3, <1>4, <1>5, <1>6 DEF Host, ClearBreakpoint

(***************************************************************************)
(* A host that keeps resuming is never stopped twice before the same       *)
(* instruction, whatever the program: a call that stops at a breakpoint    *)
(* other than StepOut has executed something.                              *)
(***************************************************************************)
THEOREM CallsProgress == Spec => []ResumeProgresses
<1>1. Init => ResumeInv
  BY DEF Init, ResumeInv, ResumeProgresses
<1>2. TypeOK /\ ResumeInv /\ [Next]_vars => ResumeInv'
  <2> SUFFICES ASSUME TypeOK, ResumeInv, [Next]_vars PROVE ResumeInv'
    OBVIOUS
  <2>1. CASE Next
    BY <2>1, RunResumes, HostResumes DEF Next
  <2>2. CASE UNCHANGED vars
    BY <2>2 DEF vars, ResumeInv, ResumeProgresses
  <2> QED BY <2>1, <2>2
<1>3. ResumeInv => ResumeProgresses
  BY DEF ResumeInv
<1> QED BY <1>1, <1>2, <1>3, TypeCorrect, PTL DEF Spec

-----------------------------------------------------------------------------
(***************************************************************************)
(* Stepping.  While a stepping call runs, its breakpoint is the one it     *)
(* began with and its clock has not passed the target.                     *)
(***************************************************************************)
Stepping == began.bp.kind \in {"Step", "StepOnce", "StepN"}
Target == began.clk + StepCycles(began.bp)

StepInv ==
    /\ StepsCounted
    /\ Stepping /\ Running =>
         /\ bp = began.bp
         /\ bp.kind = "StepN" => step_until = began.clk + (bp.n - 1)
         /\ clk >= began.clk
         /\ status = "unwinding" => clk > began.clk

\* StepsCounted, by the names used here.
LEMMA StepsCountedIs ==
    StepsCounted <=>
        (Stepping => /\ status = "suspended" => clk = Target
                     /\ status = "running" => clk < Target
                     /\ status = "unwinding" => clk <= Target)
BY DEF StepsCounted, Stepping, Target

\* The target is one cycle away, but for StepN(n) with n > 1.
LEMMA Targets ==
    ASSUME TypeOK, Stepping
    PROVE  /\ Target \in Nat
           /\ Target > began.clk
           /\ began.bp.kind = "StepN" => /\ began.bp.n \in Nat \ {0}
                                         /\ began.clk + (began.bp.n - 1) <= Target
                                         /\ \/ Target = began.clk + 1
                                            \/ Target = began.clk + (began.bp.n - 1)
           /\ began.bp.kind # "StepN" => Target = began.clk + 1
<1>1. began.clk \in Nat /\ began.bp \in Breakpoint
  BY DEF TypeOK
<1>2. began.bp.kind = "StepN" => began.bp.n \in Nat \ {0}
  BY <1>1 DEF Breakpoint
<1> QED BY <1>1, <1>2 DEF Target, StepCycles, Stepping

\* A pass that reaches handle_action: the clock stands at most at the target.
LEMMA StopsOnTarget ==
    ASSUME TypeOK, StepInv, Stepping, Running, NEW cs, Suspend(cs, bp),
           UNCHANGED step_until, clk' \in Nat, clk' > began.clk, clk' <= Target,
           began'.bp = began.bp, began'.clk = began.clk
    PROVE  StepInv'
<1>1. bp = began.bp /\ (bp.kind = "StepN" => step_until = began.clk + (bp.n - 1))
  BY DEF StepInv
<1>2. Target' = Target /\ Stepping'
  BY DEF Target, Stepping, StepCycles
<1>3. CASE Breaks(cs, bp)
  <2>1. status' = "suspended"
    BY <1>3 DEF Suspend
  <2>2. clk' = Target
    <3>1. CASE bp.kind = "StepN"
      <4>1. clk' >= began.clk + (bp.n - 1)
        BY <1>1, <1>3, <3>1 DEF Breaks
      <4> QED BY <1>1, <3>1, <4>1, Targets DEF TypeOK
    <3>2. CASE bp.kind # "StepN"
      BY <1>1, <3>2, Targets DEF TypeOK
    <3> QED BY <3>1, <3>2
  <2> QED BY <1>2, <2>1, <2>2 DEF StepInv, StepsCounted, Target, Stepping, Running
<1>4. CASE ~Breaks(cs, bp)
  <2>1. status' = "running" /\ bp' = bp
    BY <1>4 DEF Suspend
  <2>2. bp.kind = "StepN" /\ clk' < began.clk + (bp.n - 1)
    <3>1. bp.kind = "StepN" /\ ~(clk' >= step_until)
      BY <1>1, <1>4 DEF Breaks, Stepping
    <3> QED BY <1>1, <3>1, Targets DEF TypeOK
  <2>3. clk' < Target
    BY <1>1, <2>2, Targets DEF TypeOK
  <2>4. (clk >= began.clk)'
    BY DEF TypeOK
  <2> QED BY <1>1, <1>2, <2>1, <2>3, <2>4 DEF StepInv, StepsCounted, Target, Stepping, Running
<1> QED BY <1>3, <1>4

\* A pass that counts a cycle does not overrun the target.
LEMMA TickWithinTarget ==
    ASSUME TypeOK, StepInv, Stepping, Tick
    PROVE  clk' \in Nat /\ clk' > began.clk /\ clk' <= Target
<1>1. clk < Target /\ clk >= began.clk
  BY StepsCountedIs DEF StepInv, Tick, Running
<1>2. clk \in Nat /\ began.clk \in Nat /\ Target \in Nat
  BY Targets DEF TypeOK
<1> QED BY <1>1, <1>2 DEF Tick

\* Under a stepping breakpoint an operation is executed and then considered for a stop.
LEMMA SteppingOps ==
    ASSUME bp.kind \in {"Step", "StepOnce", "StepN"},
           Plain \/ Store \/ If \/ While \/ Repeat \/ Exec
    PROVE  /\ \E cs : Suspend(cs, bp)
           /\ Tick /\ Executed /\ UNCHANGED step_until
<1>1. StepBp = bp
  BY DEF StepBp, Masked
<1>2. \A a : OverBp(a) = bp
  BY <1>1 DEF OverBp
<1>3. CASE Plain
  BY <1>3 DEF Plain, Fetches, hostOwned
<1>4. CASE Store
  BY <1>1, <1>4 DEF Store, Touches, Fetches, hostOwned
<1>5. CASE If
  BY <1>2, <1>5 DEF If, Fetches, hostOwned
<1>6. CASE While
  BY <1>1, <1>2, <1>6 DEF While, Fetches, hostOwned
<1>7. CASE Repeat
  BY <1>1, <1>2, <1>7 DEF Repeat, Fetches, hostOwned
<1>8. CASE Exec
  BY <1>1, <1>2, <1>8 DEF Exec, Fetches, hostOwned
<1> QED BY <1>3, <1>4, <1>5, <1>6, <1>7, <1>8

LEMMA RunSteps ==
    ASSUME TypeOK, StepInv, Run
    PROVE  StepInv'
<1>1. /\ began'.bp = began.bp /\ began'.clk = began.clk
      /\ UNCHANGED step_until /\ Running
  BY DEF Run, BudgetExceeded, Halt, Return, BreakOnJump, Plain, Store, If, While, Repeat,
         Exec, ExecUndefined, Unwind, Fetches, Tick, BreakBefore, Executed, TypeOK,
         hostOwned, Running
<1>2. CASE ~Stepping
  <2>1. ~Stepping'
    BY <1>1, <1>2 DEF Stepping
  <2> QED BY <2>1 DEF StepInv, StepsCounted, Stepping
<1>3. CASE Stepping
  <2>1. bp.kind \in {"Step", "StepOnce", "StepN"} /\ bp = began.bp
    BY <1>1, <1>3 DEF StepInv, Stepping
  <2>2. Target' = Target /\ Stepping'
    BY <1>1, <1>3 DEF Target, Stepping, StepCycles
  <2>3. CASE BudgetExceeded \/ Halt \/ ExecUndefined
    BY <2>3 DEF BudgetExceeded, Halt, ExecUndefined, StepInv, StepsCounted, Running
  <2>4. CASE BreakOnJump
    BY <2>1, <2>4 DEF BreakOnJump, BreaksOnJump, StepBp, Masked, NoBreakpoint
  <2>5. CASE Plain \/ Store \/ If \/ While \/ Repeat \/ Exec
    BY <1>1, <1>3, <2>1, <2>5, SteppingOps, TickWithinTarget, StopsOnTarget
  <2>6. CASE Return
    <3>1. clk' > began.clk /\ clk' <= Target
      BY <1>3, <2>6, TickWithinTarget DEF Return
    <3>2. status' \in {"done", "unwinding"} /\ bp' = bp
      BY <2>6 DEF Return, ReturnFrom
    <3>3. (clk >= began.clk)' /\ (clk > began.clk)'
      BY <1>1, <1>3, <2>6, <3>1, TickWithinTarget DEF TypeOK, Return
    <3> QED BY <1>1, <1>3, <2>1, <2>2, <3>1, <3>2, <3>3
             DEF StepInv, StepsCounted, Target, Stepping, Running
  <2>7. CASE Unwind
    <3>1. clk' = clk /\ clk > began.clk /\ clk <= Target /\ clk \in Nat
      BY <1>3, <2>7, StepsCountedIs DEF Unwind, StepInv, Running, TypeOK
    <3>2. CASE Jumped = "Return"
      <4>1. status' \in {"done", "unwinding"} /\ bp' = bp
        BY <2>7, <3>2 DEF Unwind, ReturnFrom
      <4>2. (clk >= began.clk)' /\ (clk > began.clk)'
        BY <1>1, <3>1 DEF TypeOK
      <4> QED BY <1>1, <1>3, <2>1, <2>2, <3>1, <4>1, <4>2
               DEF StepInv, StepsCounted, Target, Stepping, Running
    <3>3. CASE Jumped # "Return"
      <4>1. Suspend(callstack, bp)
        BY <2>7, <3>3 DEF Unwind
      <4> QED BY <1>1, <1>3, <3>1, <4>1, StopsOnTarget
    <3> QED BY <3>2, <3>3
  <2> QED BY <2>3, <2>4, <2>5, <2>6, <2>7 DEF Run
<1> QED BY <1>2, <1>3

LEMMA HostSteps ==
    ASSUME TypeOK, StepInv, Host
    PROVE  StepInv'
<1>1. ASSUME Forget PROVE StepInv'
  BY <1>1 DEF Forget, NoCall, NoBreakpoint, StepInv, StepsCounted, Stepping
<1>2. ASSUME EnterRun, UNCHANGED <<bp, clk>> PROVE StepInv'
  <2>1. began'.bp = bp /\ began'.clk = clk /\ status' = "running"
    BY <1>2 DEF EnterRun
  <2>2. Stepping' => bp.kind \in {"Step", "StepOnce", "StepN"}
    BY <2>1 DEF Stepping
  <2>3. clk \in Nat /\ (bp.kind = "StepN" => bp.n \in Nat \ {0})
    BY DEF TypeOK, Breakpoint
  <2>4. Stepping' => (clk < Target)'
    BY <1>2, <2>1, <2>2, <2>3 DEF Target, StepCycles
  <2>5. bp.kind = "StepN" => step_until' = clk + (bp.n - 1)
    BY <1>2 DEF EnterRun
  <2>6. (clk >= began.clk)'
    BY <1>2, <2>1, <2>3
  <2> QED BY <1>2, <2>1, <2>4, <2>5, <2>6 DEF StepInv, StepsCounted, Stepping, Target, Running
<1>3. ASSUME NEW b, SetBreakpoint(b) PROVE StepInv'
  BY <1>1, <1>3 DEF SetBreakpoint
<1>4. ASSUME NEW max, SetMaxCycles(max) PROVE StepInv'
  BY <1>1, <1>4 DEF SetMaxCycles
<1>5. CASE Resume
  BY <1>2, <1>5 DEF Resume
<1>6. ASSUME NEW f, Invoke(f) PROVE StepInv'
  BY <1>1, <1>2, <1>6 DEF Invoke
<1> QED BY <1>3, <1>4, <1>5, <1>6 DEF Host, ClearBreakpoint

(***************************************************************************)
(* A stepping call stops exactly on its target, for every n and program,   *)
(* however many functions return on the way.                               *)
(***************************************************************************)
THEOREM StepsAreCounted == Spec => []StepsCounted
<1>1. Init => StepInv
  BY DEF Init, NoCall, NoBreakpoint, StepInv, StepsCounted, Stepping
<1>2. TypeOK /\ StepInv /\ [Next]_vars => StepInv'
  <2> SUFFICES ASSUME TypeOK, StepInv, [Next]_vars PROVE StepInv'
    OBVIOUS
  <2>1. CASE Next
    BY <2>1, RunSteps, HostSteps DEF Next
  <2>2. CASE UNCHANGED vars
    BY <2>2 DEF vars, StepInv, StepsCounted, Stepping, Running
  <2> QED BY <2>1, <2>2
<1>3. StepInv => StepsCounted
  BY DEF StepInv
<1> QED BY <1>1, <1>2, <1>3, TypeCorrect, PTL DEF Spec

-----------------------------------------------------------------------------
(***************************************************************************)
(* The refinement: the emulator executes the structured program.           *)
(*                                                                         *)
(* An activation with n saved pointers has n + 1 frames and stale + n      *)
(* repeat entries: the last n are those of the pointers after the first,   *)
(* and the `stale` ones under them have lost their pointers to a branch    *)
(* over several finished blocks.                                           *)
(***************************************************************************)
FrameRecord == [function : Function, block : BlockId, index : Nat, again : Nat]

\* The frame of the i-th pointer of an activation with `stale` entries that no pointer has.
FrameAt(a, stale, i, ip) ==
    [function |-> a.function, block |-> ip.block, index |-> ip.index,
     again |-> IF i = 1 THEN 0 ELSE PassesLeft(a.repeat_stack[stale + i - 1])]

\* A pass is left of an entry exactly when next_instruction would run the block again.
LEMMA PassesLeftType ==
    ASSUME NEW r \in RepeatEntry
    PROVE  /\ PassesLeft(r) \in Nat
           /\ PassesLeft(r) # 0 <=> RepeatsAgain(r)
           /\ RepeatsAgain(r) => r # NoRepeat /\ PassesLeft(r) = r.n - r.count + 1
<1>1. r.count \in Nat /\ r.n \in Nat
  BY DEF RepeatEntry
<1> QED BY <1>1 DEF PassesLeft, RepeatsAgain

\* The frames of an activation are those of its saved pointers and of its own.
LEMMA FramesAre ==
    ASSUME NEW a \in ActivationRecord, NEW stale \in Nat, NEW n \in Nat,
           Len(a.ip_stack) = n, Len(a.repeat_stack) = stale + n
    PROVE  /\ FramesOf(a) \in Seq(FrameRecord)
           /\ Len(FramesOf(a)) = n + 1
           /\ \A i \in 1 .. n : FramesOf(a)[i] = FrameAt(a, stale, i, a.ip_stack[i])
           /\ FramesOf(a)[n + 1] = FrameAt(a, stale, n + 1, a.ip)
<1> DEFINE ips == Append(a.ip_stack, a.ip)
           m == Len(a.repeat_stack) - Len(a.ip_stack)
<1>1. /\ a.function \in Function /\ a.ip \in InstructionPointer
      /\ a.repeat_stack \in Seq(RepeatEntry) /\ a.ip_stack \in Seq(InstructionPointer)
  BY DEF ActivationRecord
<1>2. /\ ips \in Seq(InstructionPointer) /\ Len(ips) = n + 1
      /\ ips[n + 1] = a.ip /\ \A i \in 1 .. n : ips[i] = a.ip_stack[i]
  BY <1>1, StackPush
<1>3. m = stale
  OBVIOUS
<1>4. DOMAIN ips = 1 .. n + 1
  BY <1>2, LenProperties
<1>5. FramesOf(a) = [i \in 1 .. n + 1 |-> FrameAt(a, stale, i, ips[i])]
  <2>1. FramesOf(a) = [i \in DOMAIN ips |->
            [function |-> a.function, block |-> ips[i].block, index |-> ips[i].index,
             again |-> IF i = 1 THEN 0 ELSE PassesLeft(a.repeat_stack[m + i - 1])]]
    BY DEF FramesOf
  <2> HIDE DEF ips, m
  <2> QED BY <1>3, <1>4, <2>1, Zenon DEF FrameAt
<1> HIDE DEF ips, m
<1>6. \A i \in 1 .. n + 1 : FrameAt(a, stale, i, ips[i]) \in FrameRecord
  <2> SUFFICES ASSUME NEW i \in 1 .. n + 1 PROVE FrameAt(a, stale, i, ips[i]) \in FrameRecord
    OBVIOUS
  <2>1. ips[i] \in InstructionPointer
    BY <1>2, ElementOfSeq
  <2>2. i = 1 \/ stale + i - 1 \in 1 .. stale + n
    OBVIOUS
  <2>3. i = 1 \/ a.repeat_stack[stale + i - 1] \in RepeatEntry
    BY <1>1, <2>2, ElementOfSeq
  <2>4. i = 1 \/ PassesLeft(a.repeat_stack[stale + i - 1]) \in Nat
    BY <2>3, PassesLeftType
  <2> QED BY <1>1, <2>1, <2>4 DEF FrameAt, FrameRecord, InstructionPointer
<1>7. FramesOf(a) \in [1 .. n + 1 -> FrameRecord]
  BY <1>5, <1>6
<1>8. n + 1 \in Nat /\ DOMAIN FramesOf(a) = 1 .. n + 1
  BY <1>7
<1>9. FramesOf(a) \in Seq(FrameRecord)
  BY <1>7, <1>8, SeqDef
<1>10. Len(FramesOf(a)) = n + 1
  BY <1>8, <1>9, LenProperties
<1>11. \A i \in 1 .. n + 1 : FramesOf(a)[i] = FrameAt(a, stale, i, ips[i])
  BY <1>5
<1>12. \A i \in 1 .. n : i \in 1 .. n + 1
  OBVIOUS
<1>13. n + 1 \in 1 .. n + 1
  OBVIOUS
<1> QED BY <1>2, <1>9, <1>10, <1>11, <1>12, <1>13, Zenon

-----------------------------------------------------------------------------
\* What is left of frames: up to the last that is not done with, ready to go on.
LEMMA NormalAt ==
    ASSUME NEW frames \in Seq(FrameRecord), NEW n \in Nat, Len(frames) = n + 1,
           NEW i \in 0 .. n, ~S!Finished(frames[i + 1]),
           \A j \in i + 2 .. n + 1 : S!Finished(frames[j])
    PROVE  S!Normal(frames) = Append(SubSeq(frames, 1, i), S!Rewound(frames[i + 1]))
<1> DEFINE live == {k \in DOMAIN frames : ~S!Finished(frames[k])}
<1>1. DOMAIN frames = 1 .. n + 1
  BY LenProperties
<1>2. i + 1 \in live
  BY <1>1
<1>3. \A k \in live : k \in 1 .. n + 1 /\ k \notin i + 2 .. n + 1
  BY <1>1
<1>4. \A k \in live : i + 1 >= k
  BY <1>3
<1>5. \A x \in live : (\A y \in live : x >= y) => x = i + 1
  BY <1>2, <1>3, <1>4
<1> HIDE DEF live
<1>6. S!Max(live) = i + 1
  BY <1>2, <1>4, <1>5 DEF S!Max
<1>7. S!Normal(frames) = IF live = {} THEN << >>
        ELSE Append(SubSeq(frames, 1, S!Max(live) - 1), S!Rewound(frames[S!Max(live)]))
  BY DEF S!Normal, live
<1>8. S!Max(live) - 1 = i
  BY <1>6
<1>9. live # {}
  BY <1>2
<1> QED BY <1>6, <1>7, <1>8, <1>9

\* When all frames are done with nothing is left.
LEMMA NormalNone ==
    ASSUME NEW frames \in Seq(FrameRecord), NEW n \in Nat, Len(frames) = n,
           \A j \in 1 .. n : S!Finished(frames[j])
    PROVE  S!Normal(frames) = << >>
<1>1. DOMAIN frames = 1 .. n
  BY LenProperties
<1>2. {k \in DOMAIN frames : ~S!Finished(frames[k])} = {}
  BY <1>1
<1> QED BY <1>2, Zenon DEF S!Normal

-----------------------------------------------------------------------------
(***************************************************************************)
(* Activations that keep their counters.  A counter that is under way is   *)
(* in a block of a repeat or one nested in it, as is everything above it;  *)
(* a saved pointer in such a block has an operation under it, so leaving a *)
(* block goes no further than to that pointer; and an entry without a      *)
(* pointer is no counter.                                                  *)
(***************************************************************************)
Inside(f) == CHOOSE inside \in SUBSET BlockId : RepeatNest(f, inside)

\* The blocks so chosen are such a set.
LEMMA InsideNest ==
    ASSUME NEW f, KeepsCount(f)
    PROVE  RepeatNest(f, Inside(f))
BY DEF KeepsCount, Inside

Aligned(a, stale, n) == Len(a.ip_stack) = n /\ Len(a.repeat_stack) = stale + n
StaleNone(a, stale) == \A j \in 1 .. stale : a.repeat_stack[j] = NoRepeat
CountersInside(a, stale, n) ==
    \A k \in 1 .. n : a.repeat_stack[stale + k] # NoRepeat =>
        /\ a.ip.block \in Inside(a.function)
        /\ \A i \in k + 1 .. n : a.ip_stack[i].block \in Inside(a.function)
InsideLive(a, n) ==
    \A i \in 1 .. n : a.ip_stack[i].block \in Inside(a.function) => HasOp(a, a.ip_stack[i])

CountsAt(a, stale, n) ==
    /\ Aligned(a, stale, n)
    /\ StaleNone(a, stale)
    /\ CountersInside(a, stale, n)
    /\ InsideLive(a, n)

KeptActivation ==
    {a \in GoodActivation :
        KeepsCount(a.function) /\ \E stale, n \in Nat : CountsAt(a, stale, n)}

\* How the frames of the pointers make the frames of an activation.
LEMMA FramesMatch ==
    ASSUME NEW a \in ActivationRecord, NEW stale \in Nat, NEW n \in Nat, Aligned(a, stale, n),
           NEW rest \in Seq(FrameRecord), Len(rest) = n,
           \A i \in 1 .. n : rest[i] = FrameAt(a, stale, i, a.ip_stack[i]),
           NEW top \in FrameRecord, top = FrameAt(a, stale, n + 1, a.ip)
    PROVE  FramesOf(a) = Append(rest, top)
<1> DEFINE F == FramesOf(a)
           G == Append(rest, top)
<1>1. /\ F \in Seq(FrameRecord) /\ Len(F) = n + 1
      /\ \A i \in 1 .. n : F[i] = FrameAt(a, stale, i, a.ip_stack[i])
      /\ F[n + 1] = FrameAt(a, stale, n + 1, a.ip)
  BY FramesAre DEF Aligned
<1>2. /\ G \in Seq(FrameRecord) /\ Len(G) = n + 1
      /\ \A i \in 1 .. n : G[i] = rest[i]
      /\ G[n + 1] = top
  BY StackPush
<1> HIDE DEF F, G
<1>3. \A i \in 1 .. n + 1 : i \in 1 .. n \/ i = n + 1
  OBVIOUS
<1>4. \A i \in 1 .. n + 1 : F[i] = G[i]
  BY <1>1, <1>2, <1>3, Zenon
<1>5. F = G
  BY <1>1, <1>2, <1>4, SeqEqual
<1> QED BY <1>5 DEF F, G

\* A frame is done with when its pointer has no operation under it and no pass is left.
LEMMA FrameDone ==
    ASSUME NEW a \in ActivationRecord, NEW ip \in InstructionPointer, NEW stale, NEW i
    PROVE  /\ HasOp(a, ip) => /\ ~S!Finished(FrameAt(a, stale, i, ip))
                              /\ S!Rewound(FrameAt(a, stale, i, ip)) = FrameAt(a, stale, i, ip)
           /\ ~HasOp(a, ip) =>
                /\ S!Finished(FrameAt(a, stale, i, ip)) <=> FrameAt(a, stale, i, ip).again = 0
                /\ S!Rewound(FrameAt(a, stale, i, ip)) =
                     [FrameAt(a, stale, i, ip) EXCEPT !.index = 0, !.again = @ - 1]
<1> DEFINE fr == FrameAt(a, stale, i, ip)
<1>1. S!BlockOf(fr) = Code(a, ip) /\ fr.index = ip.index
  BY DEF S!BlockOf, FrameAt, Code
<1>2. Len(Code(a, ip)) \in Nat /\ ip.index \in Nat
  BY CodeType DEF InstructionPointer
<1>3. HasOp(a, ip) <=> ~(fr.index >= Len(S!BlockOf(fr)))
  <2>1. HasOp(a, ip) <=> fr.index < Len(S!BlockOf(fr))
    BY <1>1 DEF HasOp
  <2> HIDE DEF fr
  <2> QED BY <1>1, <1>2, <2>1
<1> HIDE DEF fr
<1>4. HasOp(a, ip) => ~S!Finished(fr) /\ S!Rewound(fr) = fr
  BY <1>3 DEF S!Finished, S!Rewound
<1>5. ~HasOp(a, ip) => (S!Finished(fr) <=> fr.again = 0)
                       /\ S!Rewound(fr) = [fr EXCEPT !.index = 0, !.again = @ - 1]
  BY <1>3 DEF S!Finished, S!Rewound
<1> QED BY <1>4, <1>5 DEF fr

\* The entry next_instruction looks at is that of the last pointer.
LEMMA TopEntry ==
    ASSUME NEW a \in ActivationRecord, NEW stale \in Nat, NEW n \in Nat, Aligned(a, stale, n)
    PROVE  /\ n # 0 => TopRepeat(a) = a.repeat_stack[stale + n]
           /\ n = 0 /\ StaleNone(a, stale) => TopRepeat(a) = NoRepeat
           /\ TopRepeat(a) \in RepeatEntry
<1>1. a.repeat_stack \in Seq(RepeatEntry) /\ Len(a.repeat_stack) = stale + n
  BY DEF Aligned, ActivationRecord
<1>2. a.repeat_stack = << >> <=> stale + n = 0
  BY <1>1, EmptySeq
<1>3. stale + n = 0 => TopRepeat(a) = NoRepeat
  BY <1>2 DEF TopRepeat
<1>4. stale + n # 0 => TopRepeat(a) = a.repeat_stack[stale + n]
  BY <1>1, <1>2, Zenon DEF TopRepeat
<1>5. stale + n # 0 => stale + n \in 1 .. stale + n
  OBVIOUS
<1>6. TopRepeat(a) \in RepeatEntry
  <2>1. NoRepeat \in RepeatEntry
    BY DEF NoRepeat, RepeatEntry
  <2>2. stale + n # 0 => a.repeat_stack[stale + n] \in RepeatEntry
    BY <1>1, <1>5, ElementOfSeq
  <2> QED BY <1>3, <1>4, <2>1, <2>2
<1>7. n # 0 => stale + n # 0
  OBVIOUS
<1>8. n = 0 /\ stale # 0 => stale + n = stale /\ stale \in 1 .. stale
  OBVIOUS
<1>9. n = 0 /\ StaleNone(a, stale) => TopRepeat(a) = NoRepeat
  <2>1. CASE stale = 0
    BY <1>3, <2>1
  <2>2. CASE stale # 0
    BY <1>4, <1>8, <2>2 DEF StaleNone
  <2> QED BY <2>1, <2>2
<1> QED BY <1>4, <1>6, <1>7, <1>9

\* The frame of the running pointer has the passes left of the entry on top.
LEMMA TopFrame ==
    ASSUME NEW a \in ActivationRecord, NEW stale \in Nat, NEW n \in Nat, CountsAt(a, stale, n)
    PROVE  FrameAt(a, stale, n + 1, a.ip).again = PassesLeft(TopRepeat(a))
<1>1. CASE n = 0
  <2>1. TopRepeat(a) = NoRepeat
    BY <1>1, TopEntry DEF CountsAt
  <2>2. PassesLeft(NoRepeat) = 0
    BY DEF PassesLeft, RepeatsAgain
  <2> QED BY <1>1, <2>1, <2>2 DEF FrameAt
<1>2. CASE n # 0
  <2>1. n + 1 # 1 /\ stale + (n + 1) - 1 = stale + n
    BY <1>2
  <2>2. TopRepeat(a) = a.repeat_stack[stale + n]
    BY <1>2, TopEntry DEF CountsAt
  <2>3. FrameAt(a, stale, n + 1, a.ip).again = PassesLeft(a.repeat_stack[stale + (n + 1) - 1])
    BY <2>1 DEF FrameAt
  <2> QED BY <2>1, <2>2, <2>3
<1> QED BY <1>1, <1>2

\* A saved pointer's frame is done with exactly when there is no operation under it.
LEMMA SavedFrame ==
    ASSUME NEW a \in ActivationRecord, NEW stale \in Nat, NEW n \in Nat, CountsAt(a, stale, n),
           NEW i \in 1 .. n, ~HasOp(a, a.ip_stack[i])
    PROVE  FrameAt(a, stale, i, a.ip_stack[i]).again = 0
<1>1. CASE i = 1
  BY <1>1 DEF FrameAt
<1>2. CASE i # 1
  <2>1. PICK k \in 1 .. n : i = k + 1
    <3>1. i - 1 \in 1 .. n /\ i = (i - 1) + 1
      BY <1>2
    <3> QED BY <3>1
  <2>2. stale + i - 1 = stale + k /\ i \in k + 1 .. n /\ stale + k \in 1 .. stale + n
    BY <2>1
  <2>3. a.repeat_stack[stale + k] = NoRepeat
    <3>1. a.ip_stack[i].block \notin Inside(a.function)
      BY DEF CountsAt, InsideLive
    <3> QED BY <2>2, <3>1 DEF CountsAt, CountersInside
  <2>4. PassesLeft(NoRepeat) = 0
    BY DEF PassesLeft, RepeatsAgain
  <2>5. FrameAt(a, stale, i, a.ip_stack[i]).again = PassesLeft(a.repeat_stack[stale + i - 1])
    BY <1>2 DEF FrameAt
  <2> QED BY <2>2, <2>3, <2>4, <2>5
<1> QED BY <1>1, <1>2

-----------------------------------------------------------------------------
\* What a fetch that does not return does to what is left: one operation is taken off.
FrameTop(a, nf) ==
    /\ Last(nf).function = a.function
    /\ Last(nf).block = PendingIp(a).ip.block
    /\ Last(nf).index = PendingIp(a).ip.index

Continues(a, b) ==
    /\ b \in KeptActivation
    /\ S!Normal(FramesOf(a)) \in Seq(FrameRecord)
    /\ S!Normal(FramesOf(a)) # << >>
    /\ FrameTop(a, S!Normal(FramesOf(a)))
    /\ FramesOf(b) = S!Past(S!Normal(FramesOf(a)))

\* A frame, field by field.
LEMMA FrameType ==
    ASSUME NEW f \in FrameRecord
    PROVE  /\ f = [function |-> f.function, block |-> f.block, index |-> f.index, again |-> f.again]
           /\ f.function \in Function /\ f.block \in BlockId /\ f.index \in Nat /\ f.again \in Nat
BY DEF FrameRecord

\* How the parts of a fetch make it one that continues.
LEMMA ContinuesIf ==
    ASSUME NEW a \in KeptActivation, NEW b \in KeptActivation,
           NEW stale \in Nat, NEW n \in Nat, Aligned(b, stale, n),
           NEW rest \in Seq(FrameRecord), Len(rest) = n,
           \A i \in 1 .. n : rest[i] = FrameAt(b, stale, i, b.ip_stack[i]),
           NEW top \in FrameRecord, S!Normal(FramesOf(a)) = Append(rest, top),
           top.function = a.function, b.function = a.function,
           top.block = PendingIp(a).ip.block, top.index = PendingIp(a).ip.index,
           b.ip = Advance(PendingIp(a).ip), PendingIp(a).ip \in InstructionPointer,
           FrameAt(b, stale, n + 1, b.ip).again = top.again
    PROVE  Continues(a, b)
<1> DEFINE nf == S!Normal(FramesOf(a))
           next == [top EXCEPT !.index = @ + 1]
<1>1. nf \in Seq(FrameRecord) /\ nf # << >> /\ Front(nf) = rest /\ Last(nf) = top
  BY StackPush, StackPops
<1>2. next = FrameAt(b, stale, n + 1, b.ip)
  <2>1. b.ip.block = top.block /\ b.ip.index = top.index + 1
    BY DEF Advance, InstructionPointer
  <2>2. next = [function |-> top.function, block |-> top.block, index |-> top.index + 1,
                again |-> top.again]
    BY FrameType
  <2> DEFINE again == FrameAt(b, stale, n + 1, b.ip).again
  <2>3. FrameAt(b, stale, n + 1, b.ip) =
          [function |-> b.function, block |-> b.ip.block, index |-> b.ip.index, again |-> again]
    BY DEF FrameAt
  <2> HIDE DEF again, next
  <2>4. again = top.again
    BY DEF again
  <2> QED BY <2>1, <2>2, <2>3, <2>4
<1>3. next \in FrameRecord
  BY DEF FrameRecord
<1>4. b \in ActivationRecord
  BY DEF KeptActivation, GoodActivation
<1> HIDE DEF nf, next
<1>5. FramesOf(b) = Append(rest, next)
  BY <1>2, <1>3, <1>4, FramesMatch
<1>6. S!Past(nf) = Append(rest, next)
  BY <1>1 DEF S!Past, next, S!Front, S!Last, Front, Last
<1>7. FrameTop(a, nf)
  BY <1>1 DEF FrameTop
<1> QED BY <1>1, <1>5, <1>6, <1>7 DEF Continues, nf

\* An activation, and the frames it has.
LEMMA KeptParts ==
    ASSUME NEW a \in KeptActivation
    PROVE  /\ a \in GoodActivation /\ a \in ActivationRecord /\ KeepsCount(a.function)
           /\ \E stale, n \in Nat : CountsAt(a, stale, n)
BY DEF KeptActivation, GoodActivation

\* Reading the next operation of the block.
LEMMA NoneContinues ==
    ASSUME NEW a \in KeptActivation, ~AtEnd(a)
    PROVE  Continues(a, [a EXCEPT !.ip = Advance(a.ip)])
<1> DEFINE b == [a EXCEPT !.ip = Advance(a.ip)]
           F == FramesOf(a)
<1>1. PICK stale, n \in Nat : CountsAt(a, stale, n)
  BY KeptParts
<1>2. a \in GoodActivation /\ a \in ActivationRecord /\ KeepsCount(a.function)
  BY KeptParts
<1>3. PendingIp(a).ip = a.ip
  BY DEF PendingIp
<1>4. FetchedWell(a, b)
  BY <1>2, FetchNone
<1>5. b \in GoodActivation /\ HasOp(a, a.ip) /\ a.ip \in InstructionPointer
  BY <1>3, <1>4 DEF FetchedWell
<1>6. /\ b.function = a.function /\ b.ip = Advance(a.ip)
      /\ b.repeat_stack = a.repeat_stack /\ b.ip_stack = a.ip_stack
  BY <1>2 DEF ActivationRecord
<1>7. b.ip.block = a.ip.block
  BY <1>5, <1>6 DEF Advance, InstructionPointer
<1> HIDE DEF b, F
<1>8. CountsAt(b, stale, n)
  BY <1>1, <1>6, <1>7 DEF CountsAt, Aligned, StaleNone, CountersInside, InsideLive, HasOp, Code
<1>9. b \in KeptActivation
  BY <1>2, <1>5, <1>6, <1>8 DEF KeptActivation
<1>10. /\ F \in Seq(FrameRecord) /\ Len(F) = n + 1
       /\ \A i \in 1 .. n : F[i] = FrameAt(a, stale, i, a.ip_stack[i])
       /\ F[n + 1] = FrameAt(a, stale, n + 1, a.ip)
  BY <1>1, <1>2, FramesAre DEF F, CountsAt, Aligned
<1> DEFINE rest == SubSeq(F, 1, n)
           top == F[n + 1]
<1>11. S!Normal(F) = Append(rest, top)
  <2>0. /\ ~S!Finished(FrameAt(a, stale, n + 1, a.ip))
        /\ S!Rewound(FrameAt(a, stale, n + 1, a.ip)) = FrameAt(a, stale, n + 1, a.ip)
    BY <1>2, <1>5, FrameDone
  <2>1. ~S!Finished(top) /\ S!Rewound(top) = top
    <3> HIDE DEF F
    <3> QED BY <1>10, <2>0, Zenon
  <2>2. n \in 0 .. n /\ \A j \in n + 2 .. n + 1 : S!Finished(F[j])
    OBVIOUS
  <2> HIDE DEF rest, top
  <2> QED BY <1>10, <2>1, <2>2, NormalAt DEF rest, top
<1>12. rest \in Seq(FrameRecord) /\ Len(rest) = n /\ \A i \in 1 .. n : rest[i] = F[i]
  <2>1. n <= Len(F)
    BY <1>10
  <2> QED BY <1>10, <2>1, StackCut
<1>13. \A i \in 1 .. n : rest[i] = FrameAt(b, stale, i, b.ip_stack[i])
  BY <1>6, <1>10, <1>12 DEF FrameAt
<1>14. top \in FrameRecord
  <2>1. n + 1 \in 1 .. Len(F)
    BY <1>10
  <2> QED BY <1>10, <2>1, ElementOfSeq
<1>15. /\ top.function = a.function
       /\ top.block = PendingIp(a).ip.block /\ top.index = PendingIp(a).ip.index
       /\ FrameAt(b, stale, n + 1, b.ip).again = top.again
  BY <1>3, <1>6, <1>10 DEF FrameAt
<1>16. Aligned(b, stale, n)
  BY <1>8 DEF CountsAt
<1> HIDE DEF rest, top
<1>17. Continues(a, b)
  BY <1>3, <1>5, <1>6, <1>9, <1>11, <1>12, <1>13, <1>14, <1>15, <1>16, ContinuesIf DEF F
<1> QED BY <1>17 DEF b

\* One more pass begun is one pass fewer left.
LEMMA NextPass ==
    ASSUME NEW r \in RepeatEntry, RepeatsAgain(r)
    PROVE  LET next == [r EXCEPT !.count = @ + 1]
           IN  /\ next \in RepeatEntry
               /\ PassesLeft(r) \in Nat \ {0}
               /\ PassesLeft(next) = PassesLeft(r) - 1
<1> DEFINE next == [r EXCEPT !.count = @ + 1]
<1>1. PICK c, m \in Nat : r = [count |-> c, n |-> m] /\ r.count = c /\ r.n = m
  BY DEF RepeatEntry
<1>2. c <= m
  BY <1>1 DEF RepeatsAgain
<1>3. next = [count |-> c + 1, n |-> m]
  BY <1>1
<1>4. next \in RepeatEntry /\ next.count = c + 1 /\ next.n = m /\ next # NoRepeat
  BY <1>3 DEF RepeatEntry, NoRepeat
<1> HIDE DEF next
<1>5. PassesLeft(r) = m - c + 1
  BY <1>1, PassesLeftType
<1>6. PassesLeft(next) = IF c + 1 <= m THEN m - (c + 1) + 1 ELSE 0
  BY <1>4 DEF PassesLeft, RepeatsAgain
<1>7. PassesLeft(r) \in Nat \ {0} /\ PassesLeft(next) = PassesLeft(r) - 1
  BY <1>2, <1>5, <1>6
<1> QED BY <1>4, <1>7 DEF next

\* The activation that begins the next pass.
LEMMA RepeatBodyIs ==
    ASSUME NEW a \in ActivationRecord, NEW top \in Nat \ {0}, Len(a.repeat_stack) = top
    PROVE  LET b == RepeatBody(a)
           IN  /\ b.function = a.function /\ b.ip_stack = a.ip_stack
               /\ b.ip = [block |-> a.ip.block, index |-> 1]
               /\ Len(b.repeat_stack) = top
               /\ b.repeat_stack[top] = [a.repeat_stack[top] EXCEPT !.count = @ + 1]
               /\ \A j \in 1 .. top : j # top => b.repeat_stack[j] = a.repeat_stack[j]
<1> DEFINE b == RepeatBody(a)
           entry == [a.repeat_stack[top] EXCEPT !.count = @ + 1]
           rs == [a.repeat_stack EXCEPT ![top] = entry]
<1>1. a.repeat_stack \in Seq(RepeatEntry) /\ a.ip \in InstructionPointer
  BY DEF ActivationRecord
<1>2. top \in 1 .. top
  OBVIOUS
<1>3. a.repeat_stack[top] \in RepeatEntry
  BY <1>1, <1>2, ElementOfSeq
<1>4. entry \in RepeatEntry
  BY <1>3 DEF RepeatEntry
<1>5. b = [a EXCEPT !.repeat_stack = rs, !.ip = [a.ip EXCEPT !.index = 1]]
  BY DEF RepeatBody
<1>6. [a.ip EXCEPT !.index = 1] = [block |-> a.ip.block, index |-> 1]
  BY <1>1 DEF InstructionPointer
<1> HIDE DEF b, entry
<1>7. /\ Len(rs) = top /\ rs[top] = entry
      /\ \A j \in 1 .. top : j # top => rs[j] = a.repeat_stack[j]
  BY <1>1, <1>2, <1>4, ExceptSeq
<1> HIDE DEF rs
<1>8. /\ b.function = a.function /\ b.ip_stack = a.ip_stack /\ b.repeat_stack = rs
      /\ b.ip = [a.ip EXCEPT !.index = 1]
  BY <1>5 DEF ActivationRecord
<1> QED BY <1>6, <1>7, <1>8 DEF b, entry

\* Starting the next pass of a repeat.
LEMMA RepeatContinues ==
    ASSUME NEW a \in KeptActivation, AtEnd(a), RepeatsAgain(TopRepeat(a))
    PROVE  Continues(a, RepeatBody(a))
<1> DEFINE b == RepeatBody(a)
           F == FramesOf(a)
<1>1. PICK stale, n \in Nat : CountsAt(a, stale, n)
  BY KeptParts
<1>2. a \in GoodActivation /\ a \in ActivationRecord /\ KeepsCount(a.function)
  BY KeptParts
<1>3. Len(a.ip_stack) = n /\ Len(a.repeat_stack) = stale + n
      /\ StaleNone(a, stale) /\ CountersInside(a, stale, n) /\ InsideLive(a, n)
  BY <1>1 DEF CountsAt, Aligned
<1>4. n # 0
  <2>1. TopRepeat(a) # NoRepeat
    BY DEF RepeatsAgain
  <2> QED BY <1>1, <1>2, <2>1, TopEntry DEF CountsAt
<1>5. PICK top \in Nat \ {0} : top = stale + n
  BY <1>4
<1>6. TopRepeat(a) = a.repeat_stack[top] /\ TopRepeat(a) \in RepeatEntry
  BY <1>1, <1>2, <1>4, <1>5, TopEntry DEF CountsAt
<1>7. PendingIp(a) = [ip |-> StartOf(a.ip.block), jump |-> "Repeat"]
  BY DEF PendingIp
<1>8. FetchedWell(a, b)
  BY <1>2, FetchRepeat
<1>9. b \in GoodActivation /\ b.ip = Advance(PendingIp(a).ip)
      /\ PendingIp(a).ip \in InstructionPointer
  BY <1>8 DEF FetchedWell
<1>10. /\ b.function = a.function /\ b.ip_stack = a.ip_stack
       /\ b.ip = [block |-> a.ip.block, index |-> 1]
       /\ Len(b.repeat_stack) = top
       /\ b.repeat_stack[top] = [a.repeat_stack[top] EXCEPT !.count = @ + 1]
       /\ \A j \in 1 .. top : j # top => b.repeat_stack[j] = a.repeat_stack[j]
  BY <1>2, <1>3, <1>5, RepeatBodyIs
<1>11. b \in ActivationRecord
  BY <1>9 DEF GoodActivation
<1> HIDE DEF b, F
<1>12. \A j \in 1 .. stale : j \in 1 .. top /\ j # top
  BY <1>4, <1>5
<1>13. \A k \in 1 .. n : stale + k \in 1 .. top /\ (stale + k = top => k = n)
  BY <1>5
<1>14. CountsAt(b, stale, n)
  <2>1. Aligned(b, stale, n)
    BY <1>3, <1>5, <1>10 DEF Aligned
  <2>2. StaleNone(b, stale)
    BY <1>3, <1>10, <1>12 DEF StaleNone
  <2>3. \A k \in 1 .. n : b.repeat_stack[stale + k] # NoRepeat => a.repeat_stack[stale + k] # NoRepeat
    <3> SUFFICES ASSUME NEW k \in 1 .. n, b.repeat_stack[stale + k] # NoRepeat
                 PROVE  a.repeat_stack[stale + k] # NoRepeat
      OBVIOUS
    <3>1. CASE stale + k = top
      BY <1>6, <3>1 DEF RepeatsAgain
    <3>2. CASE stale + k # top
      BY <1>10, <1>13, <3>2
    <3> QED BY <3>1, <3>2
  <2>4. CountersInside(b, stale, n)
    BY <1>3, <1>10, <2>3 DEF CountersInside
  <2>5. InsideLive(b, n)
    BY <1>3, <1>10 DEF InsideLive, HasOp, Code
  <2> QED BY <2>1, <2>2, <2>4, <2>5 DEF CountsAt
<1>15. b \in KeptActivation
  BY <1>2, <1>9, <1>10, <1>14 DEF KeptActivation
<1>16. /\ F \in Seq(FrameRecord) /\ Len(F) = n + 1
       /\ \A i \in 1 .. n : F[i] = FrameAt(a, stale, i, a.ip_stack[i])
       /\ F[n + 1] = FrameAt(a, stale, n + 1, a.ip)
  BY <1>2, <1>3, FramesAre DEF F
<1> DEFINE rest == SubSeq(F, 1, n)
           last == FrameAt(a, stale, n + 1, a.ip)
           frame == S!Rewound(last)
<1>17. last \in FrameRecord
  <2>1. n + 1 \in 1 .. Len(F)
    BY <1>16
  <2> HIDE DEF last
  <2> QED BY <1>16, <2>1, ElementOfSeq DEF last
<1>18. last.again = PassesLeft(TopRepeat(a)) /\ last.again \in Nat \ {0}
       /\ PassesLeft(b.repeat_stack[top]) = last.again - 1
  <2>1. last.again = PassesLeft(TopRepeat(a))
    BY <1>1, <1>2, TopFrame
  <2> HIDE DEF last
  <2> QED BY <1>6, <1>10, <2>1, NextPass
<1>19. ~HasOp(a, a.ip) /\ a.ip \in InstructionPointer
  <2>1. Len(Code(a, a.ip)) \in Nat /\ a.ip \in InstructionPointer
    BY <1>2, CodeType, PartsOfGood
  <2> QED BY <2>1 DEF AtEnd, HasOp
<1>20. ~S!Finished(last) /\ frame = [last EXCEPT !.index = 0, !.again = @ - 1]
  <2>1. /\ S!Finished(last) <=> last.again = 0
        /\ S!Rewound(last) = [last EXCEPT !.index = 0, !.again = @ - 1]
    BY <1>2, <1>19, FrameDone
  <2> HIDE DEF last
  <2> QED BY <1>18, <2>1
<1>21. last.function = a.function /\ last.block = a.ip.block
  BY DEF FrameAt
<1> HIDE DEF last
<1>22. frame \in FrameRecord /\ frame.function = a.function /\ frame.block = a.ip.block
       /\ frame.index = 0 /\ frame.again = last.again - 1
  <2>1. PICK left \in Nat : last.again - 1 = left
    BY <1>18
  <2>2. last = [function |-> last.function, block |-> last.block, index |-> last.index,
                again |-> last.again]
        /\ last.function \in Function /\ last.block \in BlockId
    BY <1>17, FrameType
  <2>3. frame = [function |-> last.function, block |-> last.block, index |-> 0, again |-> left]
    <3> HIDE DEF frame
    <3> QED BY <1>20, <2>1, <2>2
  <2> HIDE DEF frame
  <2> QED BY <1>21, <2>1, <2>2, <2>3 DEF FrameRecord
<1> HIDE DEF frame
<1>23. S!Normal(F) = Append(rest, frame)
  <2>1. n \in 0 .. n /\ \A j \in n + 2 .. n + 1 : S!Finished(F[j])
    OBVIOUS
  <2>2. F[n + 1] = last
    BY <1>16 DEF last
  <2> HIDE DEF rest
  <2> QED BY <1>16, <1>20, <2>1, <2>2, NormalAt DEF rest, frame
<1>24. rest \in Seq(FrameRecord) /\ Len(rest) = n /\ \A i \in 1 .. n : rest[i] = F[i]
  <2>1. n <= Len(F)
    BY <1>16
  <2> QED BY <1>16, <2>1, StackCut
<1> HIDE DEF rest
<1>25. \A i \in 1 .. n : rest[i] = FrameAt(b, stale, i, b.ip_stack[i])
  <2> SUFFICES ASSUME NEW i \in 1 .. n
               PROVE  FrameAt(a, stale, i, a.ip_stack[i]) = FrameAt(b, stale, i, b.ip_stack[i])
    BY <1>16, <1>24
  <2>1. i = 1 \/ (stale + i - 1 \in 1 .. top /\ stale + i - 1 # top)
    BY <1>5
  <2>2. i = 1 \/ b.repeat_stack[stale + i - 1] = a.repeat_stack[stale + i - 1]
    BY <1>10, <2>1
  <2> QED BY <1>10, <2>2 DEF FrameAt
<1>26. FrameAt(b, stale, n + 1, b.ip).again = frame.again
  <2>1. FrameAt(b, stale, n + 1, b.ip).again = PassesLeft(TopRepeat(b))
    BY <1>11, <1>14, TopFrame
  <2>2. TopRepeat(b) = b.repeat_stack[top]
    BY <1>4, <1>5, <1>11, <1>14, TopEntry DEF CountsAt
  <2> QED BY <1>18, <1>22, <2>1, <2>2
<1>27. PendingIp(a).ip.block = a.ip.block /\ PendingIp(a).ip.index = 0
  BY <1>7 DEF StartOf
<1>28. Aligned(b, stale, n)
  BY <1>14 DEF CountsAt
<1>29. S!Normal(FramesOf(a)) = Append(rest, frame)
       /\ frame.block = PendingIp(a).ip.block /\ frame.index = PendingIp(a).ip.index
  BY <1>22, <1>23, <1>27 DEF F
<1>30. Continues(a, b)
  <2>1. b.function = a.function
    BY <1>10
  <2>2. frame \in FrameRecord /\ frame.function = a.function
    BY <1>22
  <2>3. rest \in Seq(FrameRecord) /\ Len(rest) = n
    BY <1>24
  <2> QED BY <1>9, <1>15, <1>25, <1>26, <1>28, <1>29, <2>1, <2>2, <2>3, ContinuesIf
<1> QED BY <1>30 DEF b

\* The activation that goes on at a saved pointer.
Branched(a, b, m, left) ==
    /\ b.function = a.function
    /\ b.ip = Advance(a.ip_stack[m + 1])
    /\ Len(b.ip_stack) = m /\ \A i \in 1 .. m : b.ip_stack[i] = a.ip_stack[i]
    /\ Len(b.repeat_stack) = left
    /\ \A j \in 1 .. left : b.repeat_stack[j] = a.repeat_stack[j]

\* Going on at a saved pointer drops it, those above it, and one repeat entry.
LEMMA BranchToIs ==
    ASSUME NEW a \in ActivationRecord, NEW m \in Nat, NEW left \in Nat,
           m + 1 <= Len(a.ip_stack), Len(a.repeat_stack) = left + 1,
           NEW b, b = BranchTo(a, m + 1)
    PROVE  Branched(a, b, m, left)
<1> DEFINE rs == SubSeq(a.repeat_stack, 1, left)
           saved == SubSeq(a.ip_stack, 1, m)
           ip == Advance(a.ip_stack[m + 1])
<1>1. a.repeat_stack \in Seq(RepeatEntry) /\ a.ip_stack \in Seq(InstructionPointer)
  BY DEF ActivationRecord
<1>2. Len(a.ip_stack) \in Nat
  BY <1>1, LenProperties
<1>3. left <= Len(a.repeat_stack) /\ m <= Len(a.ip_stack)
  BY <1>2
<1>4. Len(rs) = left /\ \A j \in 1 .. left : rs[j] = a.repeat_stack[j]
  BY <1>1, <1>3, StackCut
<1>5. Len(saved) = m /\ \A i \in 1 .. m : saved[i] = a.ip_stack[i]
  BY <1>1, <1>3, StackCut
<1>6. PopRepeat(a) = rs
  <2>1. a.repeat_stack # << >>
    BY <1>1, EmptySeq
  <2>2. Len(a.repeat_stack) - 1 = left
    OBVIOUS
  <2> QED BY <2>1, <2>2, Zenon DEF PopRepeat
<1>7. PICK i : i = m + 1
  OBVIOUS
<1>8. b = [a EXCEPT !.repeat_stack = rs, !.ip_stack = saved, !.ip = ip]
  <2>1. b = [a EXCEPT !.repeat_stack = PopRepeat(a),
                      !.ip_stack = SubSeq(a.ip_stack, 1, i - 1), !.ip = Advance(a.ip_stack[i])]
    BY <1>7, Zenon DEF BranchTo
  <2>2. i - 1 = m
    BY <1>7
  <2>3. SubSeq(a.ip_stack, 1, i - 1) = saved /\ Advance(a.ip_stack[i]) = ip
    BY <1>7, <2>2
  <2> HIDE DEF rs, saved, ip
  <2> QED BY <1>6, <2>1, <2>3
<1> HIDE DEF rs, saved, ip
<1>9. /\ b.function = a.function /\ b.ip = ip
      /\ b.ip_stack = saved /\ b.repeat_stack = rs
  BY <1>8 DEF ActivationRecord
<1> QED BY <1>4, <1>5, <1>9, Zenon DEF ip, Branched

\* When the last saved pointer has nothing under it no repeat is under way but, maybe, on top.
LEMMA NoneUnder ==
    ASSUME NEW a \in ActivationRecord, NEW stale \in Nat, NEW n \in Nat, n # 0,
           CountsAt(a, stale, n), ~HasOp(a, a.ip_stack[n]),
           NEW j \in 1 .. stale + n, j # stale + n
    PROVE  a.repeat_stack[j] = NoRepeat
<1>1. CASE j \in 1 .. stale
  BY <1>1 DEF CountsAt, StaleNone
<1>2. CASE j \notin 1 .. stale
  <2>1. PICK k \in 1 .. n : j = stale + k /\ n \in k + 1 .. n
    <3>1. j - stale \in 1 .. n /\ j = stale + (j - stale) /\ n \in (j - stale) + 1 .. n
      BY <1>2
    <3> QED BY <3>1
  <2>2. a.ip_stack[n].block \notin Inside(a.function)
    <3>1. n \in 1 .. n
      OBVIOUS
    <3> QED BY <3>1 DEF CountsAt, InsideLive
  <2> QED BY <2>1, <2>2 DEF CountsAt, CountersInside
<1> QED BY <1>1, <1>2

\* The frames of the pointers after the last that has an operation under it are done with.
LEMMA DoneFrames ==
    ASSUME NEW a \in ActivationRecord, NEW stale \in Nat, NEW n \in Nat, CountsAt(a, stale, n),
           AtEnd(a), ~RepeatsAgain(TopRepeat(a)),
           NEW m \in Nat, \A i \in m + 1 .. n : ~HasOp(a, a.ip_stack[i]),
           NEW j \in m + 1 .. n + 1
    PROVE  S!Finished(FramesOf(a)[j])
<1>1. /\ \A i \in 1 .. n : FramesOf(a)[i] = FrameAt(a, stale, i, a.ip_stack[i])
      /\ FramesOf(a)[n + 1] = FrameAt(a, stale, n + 1, a.ip)
  BY FramesAre DEF CountsAt, Aligned
<1>2. CASE j = n + 1
  <2>1. a.ip \in InstructionPointer
    BY DEF ActivationRecord
  <2>2. Len(Code(a, a.ip)) \in Nat
    BY <2>1, CodeType
  <2>3. ~HasOp(a, a.ip)
    BY <2>1, <2>2 DEF AtEnd, HasOp
  <2>4. FrameAt(a, stale, n + 1, a.ip).again = PassesLeft(TopRepeat(a))
    BY TopFrame
  <2>5. PassesLeft(TopRepeat(a)) = 0
    BY DEF PassesLeft
  <2>6. S!Finished(FrameAt(a, stale, n + 1, a.ip))
    BY <2>1, <2>3, <2>4, <2>5, FrameDone
  <2> QED BY <1>1, <1>2, <2>6, Zenon
<1>3. CASE j # n + 1
  <2>1. j \in 1 .. n /\ j \in m + 1 .. n
    BY <1>3
  <2>2. ~HasOp(a, a.ip_stack[j])
    BY <2>1
  <2>3. a.ip_stack[j] \in InstructionPointer
    BY <2>1, ElementOfSeq DEF ActivationRecord, CountsAt, Aligned
  <2>4. FrameAt(a, stale, j, a.ip_stack[j]).again = 0
    BY <2>1, <2>2, SavedFrame
  <2>5. S!Finished(FrameAt(a, stale, j, a.ip_stack[j]))
    BY <2>2, <2>3, <2>4, FrameDone
  <2> QED BY <1>1, <2>1, <2>5, Zenon
<1> QED BY <1>2, <1>3

\* Returning: nothing is left of the activation.
LEMMA ReturnLeaves ==
    ASSUME NEW a \in KeptActivation, PendingIp(a).jump = "Return"
    PROVE  S!Normal(FramesOf(a)) = << >>
<1>1. PICK stale, n \in Nat : CountsAt(a, stale, n)
  BY KeptParts
<1>2. a \in ActivationRecord
  BY KeptParts
<1>3. AtEnd(a) /\ ~RepeatsAgain(TopRepeat(a)) /\ LiveSaved(a) = {}
  BY DEF PendingIp
<1>4. Len(a.ip_stack) = n /\ DOMAIN a.ip_stack = 1 .. n
  BY <1>1, <1>2, LenProperties DEF CountsAt, Aligned, ActivationRecord
<1>5. \A i \in 0 + 1 .. n : ~HasOp(a, a.ip_stack[i])
  BY <1>3, <1>4 DEF LiveSaved
<1>6. PICK m \in Nat : m = 0
  OBVIOUS
<1>7. \A j \in m + 1 .. n + 1 : S!Finished(FramesOf(a)[j])
  BY <1>1, <1>2, <1>3, <1>5, <1>6, DoneFrames
<1>8. FramesOf(a) \in Seq(FrameRecord) /\ Len(FramesOf(a)) = n + 1
  BY <1>1, <1>2, FramesAre DEF CountsAt, Aligned
<1>9. n + 1 \in Nat /\ \A j \in 1 .. n + 1 : S!Finished(FramesOf(a)[j])
  BY <1>6, <1>7
<1> QED BY <1>8, <1>9, NormalNone

-----------------------------------------------------------------------------
\* Going on at a saved pointer: the entries of the pointers that are left are the same.
SameEntries(a, stale, b, under, m) ==
    \A i \in 2 .. m + 1 : b.repeat_stack[under + i - 1] = a.repeat_stack[stale + i - 1]

\* A branch leaves the entries that are still needed under the pointers they belong to.
LEMMA BranchKeeps ==
    ASSUME NEW a \in KeptActivation, NEW stale \in Nat, NEW n \in Nat, CountsAt(a, stale, n),
           NEW m \in Nat, m + 1 <= n, \A i \in m + 2 .. n : ~HasOp(a, a.ip_stack[i]),
           NEW b, b = BranchTo(a, m + 1), b \in GoodActivation,
           NEW under \in Nat, under + m + 1 = stale + n
    PROVE  CountsAt(b, under, m) /\ SameEntries(a, stale, b, under, m)
<1>1. a \in ActivationRecord
  BY KeptParts
<1>2. PICK left \in Nat : left = under + m
  OBVIOUS
<1>3. Len(a.ip_stack) = n /\ Len(a.repeat_stack) = stale + n
  BY DEF CountsAt, Aligned
<1>4. m + 1 <= Len(a.ip_stack) /\ Len(a.repeat_stack) = left + 1
  BY <1>2, <1>3
<1>5. /\ b.function = a.function
      /\ b.ip = Advance(a.ip_stack[m + 1])
      /\ Len(b.ip_stack) = m /\ \A i \in 1 .. m : b.ip_stack[i] = a.ip_stack[i]
      /\ Len(b.repeat_stack) = left
      /\ \A j \in 1 .. left : b.repeat_stack[j] = a.repeat_stack[j]
  <2>1. Branched(a, b, m, left)
    BY <1>1, <1>4, BranchToIs
  <2> QED BY <2>1, Zenon DEF Branched
<1>6. Aligned(b, under, m)
  BY <1>2, <1>5 DEF Aligned
<1>7. InsideLive(b, m)
  <2>1. \A i \in 1 .. m : i \in 1 .. n
    OBVIOUS
  <2> QED BY <1>5, <2>1 DEF CountsAt, InsideLive, HasOp, Code
<1>8. b.ip.block = a.ip_stack[m + 1].block
  <2>1. m + 1 \in 1 .. Len(a.ip_stack)
    BY <1>3
  <2>2. a.ip_stack[m + 1] \in InstructionPointer
    BY <1>1, <2>1, ElementOfSeq DEF ActivationRecord
  <2> QED BY <1>5, <2>2 DEF Advance, InstructionPointer
<1>9. CASE m + 1 = n
  <2>1. under = stale
    BY <1>9
  <2>2. StaleNone(b, under)
    <3>1. \A j \in 1 .. stale : j \in 1 .. left
      BY <1>2, <2>1
    <3> QED BY <1>5, <2>1, <3>1 DEF CountsAt, StaleNone
  <2>3. SameEntries(a, stale, b, under, m)
    <3>1. \A i \in 2 .. m + 1 : stale + i - 1 \in 1 .. left
      BY <1>2, <2>1
    <3> QED BY <1>5, <2>1, <3>1 DEF SameEntries
  <2>4. CountersInside(b, under, m)
    <3> SUFFICES ASSUME NEW k \in 1 .. m, b.repeat_stack[under + k] # NoRepeat
                 PROVE  /\ b.ip.block \in Inside(b.function)
                        /\ \A i \in k + 1 .. m : b.ip_stack[i].block \in Inside(b.function)
      BY DEF CountersInside
    <3>1. k \in 1 .. n /\ under + k \in 1 .. left /\ under + k = stale + k
      BY <1>2, <1>9, <2>1
    <3>2. a.repeat_stack[stale + k] # NoRepeat
      BY <1>5, <3>1
    <3>3. \A i \in k + 1 .. n : a.ip_stack[i].block \in Inside(a.function)
      BY <3>1, <3>2 DEF CountsAt, CountersInside
    <3>4. m + 1 \in k + 1 .. n /\ \A i \in k + 1 .. m : i \in k + 1 .. n /\ i \in 1 .. m
      BY <1>9
    <3> QED BY <1>5, <1>8, <3>3, <3>4
  <2> QED BY <1>6, <1>7, <2>2, <2>3, <2>4 DEF CountsAt
<1>10. CASE m + 1 # n
  <2>1. n # 0 /\ n \in m + 2 .. n
    BY <1>10
  <2>2. \A j \in 1 .. left : j \in 1 .. stale + n /\ j # stale + n
    BY <1>2
  <2>3. \A j \in 1 .. left : a.repeat_stack[j] = NoRepeat
    BY <1>1, <2>1, <2>2, NoneUnder
  <2>4. \A j \in 1 .. left : b.repeat_stack[j] = NoRepeat
    BY <1>5, <2>3
  <2>5. StaleNone(b, under)
    <3>1. \A j \in 1 .. under : j \in 1 .. left
      BY <1>2
    <3> QED BY <2>4, <3>1 DEF StaleNone
  <2>6. CountersInside(b, under, m)
    <3>1. \A k \in 1 .. m : under + k \in 1 .. left
      BY <1>2
    <3> QED BY <2>4, <3>1, Zenon DEF CountersInside
  <2>7. SameEntries(a, stale, b, under, m)
    <3>1. \A i \in 2 .. m + 1 : under + i - 1 \in 1 .. left /\ stale + i - 1 \in 1 .. left
      BY <1>2
    <3> QED BY <2>3, <2>4, <3>1 DEF SameEntries
  <2> QED BY <1>6, <1>7, <2>5, <2>6, <2>7 DEF CountsAt
<1> QED BY <1>9, <1>10

\* Going on at a saved pointer.
LEMMA BranchContinues ==
    ASSUME NEW a \in KeptActivation, AtEnd(a), ~RepeatsAgain(TopRepeat(a)), LiveSaved(a) # {}
    PROVE  Continues(a, BranchTo(a, Max(LiveSaved(a))))
<1> DEFINE F == FramesOf(a)
<1>1. PICK stale, n \in Nat : CountsAt(a, stale, n)
  BY KeptParts
<1>2. a \in GoodActivation /\ a \in ActivationRecord /\ KeepsCount(a.function)
  BY KeptParts
<1>3. Len(a.ip_stack) = n /\ Len(a.repeat_stack) = stale + n /\ DOMAIN a.ip_stack = 1 .. n
  BY <1>1, <1>2, LenProperties DEF CountsAt, Aligned, ActivationRecord
<1>4. PICK m \in Nat : Max(LiveSaved(a)) = m + 1 /\ m + 1 \in 1 .. n /\ m + 1 <= n
                       /\ HasOp(a, a.ip_stack[m + 1])
  <2>1. Max(LiveSaved(a)) \in 1 .. n /\ HasOp(a, a.ip_stack[Max(LiveSaved(a))])
    BY <1>2, <1>3, LiveSavedMax
  <2>2. PICK i \in 1 .. n : i = Max(LiveSaved(a))
    BY <2>1
  <2>3. i - 1 \in Nat /\ i = (i - 1) + 1 /\ (i - 1) + 1 \in 1 .. n /\ (i - 1) + 1 <= n
    OBVIOUS
  <2> QED BY <2>1, <2>2, <2>3
<1>5. \A i \in m + 2 .. n : ~HasOp(a, a.ip_stack[i])
  <2>1. LiveSaved(a) \in SUBSET (1 .. n)
    BY <1>3 DEF LiveSaved
  <2>2. \A i \in LiveSaved(a) : i <= m + 1
    BY <1>4, <2>1, MaxOfPositions
  <2>3. \A i \in m + 2 .. n : i \in 1 .. n /\ ~(i <= m + 1)
    OBVIOUS
  <2> QED BY <1>3, <2>2, <2>3 DEF LiveSaved
<1>6. PICK b : b = BranchTo(a, m + 1)
  OBVIOUS
<1>7. PICK under \in Nat : under + m + 1 = stale + n
  <2>1. stale + (n - (m + 1)) \in Nat /\ (stale + (n - (m + 1))) + m + 1 = stale + n
    BY <1>4
  <2> QED BY <2>1
<1>8. PendingIp(a) = [ip |-> a.ip_stack[m + 1], jump |-> "Branch"]
  BY <1>4 DEF PendingIp
<1>9. FetchedWell(a, b)
  BY <1>2, <1>3, <1>4, <1>6, <1>8, FetchBranch
<1>10. b \in GoodActivation /\ b.function = a.function /\ b.ip = Advance(PendingIp(a).ip)
       /\ PendingIp(a).ip \in InstructionPointer
  BY <1>9 DEF FetchedWell
<1>11. CountsAt(b, under, m) /\ SameEntries(a, stale, b, under, m)
  BY <1>1, <1>4, <1>5, <1>6, <1>7, <1>10, BranchKeeps
<1>12. b \in KeptActivation
  BY <1>2, <1>10, <1>11 DEF KeptActivation
<1>13. /\ F \in Seq(FrameRecord) /\ Len(F) = n + 1
       /\ \A i \in 1 .. n : F[i] = FrameAt(a, stale, i, a.ip_stack[i])
  BY <1>2, <1>3, FramesAre DEF F
<1>14. \A i \in 1 .. m : b.ip_stack[i] = a.ip_stack[i]
  <2>1. PICK left \in Nat : stale + n = left + 1
    BY <1>7
  <2>2. m + 1 <= Len(a.ip_stack) /\ Len(a.repeat_stack) = left + 1
    BY <1>3, <1>4, <2>1
  <2>3. Branched(a, b, m, left)
    BY <1>2, <1>6, <2>2, BranchToIs
  <2> QED BY <2>3, Zenon DEF Branched
<1>15. \A i \in m + 2 .. n + 1 : S!Finished(F[i])
  <2>1. PICK k \in Nat : k = m + 1
    OBVIOUS
  <2>2. \A i \in k + 1 .. n : ~HasOp(a, a.ip_stack[i])
    BY <1>5, <2>1
  <2>3. \A i \in k + 1 .. n + 1 : S!Finished(F[i])
    BY <1>1, <1>2, <2>2, DoneFrames DEF F
  <2> QED BY <2>1, <2>3
<1> HIDE DEF F
<1>16. PICK frame : frame = F[m + 1]
  OBVIOUS
<1>17. frame = FrameAt(a, stale, m + 1, a.ip_stack[m + 1])
  BY <1>4, <1>13, <1>16
<1>18. frame \in FrameRecord
  <2>1. m + 1 \in 1 .. Len(F)
    BY <1>4, <1>13
  <2> QED BY <1>13, <1>16, <2>1, ElementOfSeq
<1>19. ~S!Finished(frame) /\ S!Rewound(frame) = frame
  <2>1. a.ip_stack[m + 1] \in InstructionPointer
    BY <1>8, <1>10
  <2> QED BY <1>2, <1>4, <1>17, <2>1, FrameDone
<1> DEFINE rest == SubSeq(F, 1, m)
<1>20. S!Normal(F) = Append(rest, frame)
  <2>1. m \in 0 .. n
    BY <1>4
  <2> HIDE DEF rest
  <2> QED BY <1>13, <1>15, <1>16, <1>19, <2>1, NormalAt DEF rest
<1>21. rest \in Seq(FrameRecord) /\ Len(rest) = m /\ \A i \in 1 .. m : rest[i] = F[i]
  <2>1. m <= Len(F)
    BY <1>4, <1>13
  <2> QED BY <1>13, <2>1, StackCut
<1> HIDE DEF rest
<1>22. \A i \in 1 .. m + 1 : \A ip : FrameAt(a, stale, i, ip) = FrameAt(b, under, i, ip)
  <2>1. \A i \in 1 .. m + 1 : i = 1 \/ i \in 2 .. m + 1
    OBVIOUS
  <2> QED BY <1>10, <1>11, <2>1 DEF FrameAt, SameEntries
<1>23. \A i \in 1 .. m : rest[i] = FrameAt(b, under, i, b.ip_stack[i])
  <2>1. \A i \in 1 .. m : i \in 1 .. n /\ i \in 1 .. m + 1
    BY <1>4
  <2> SUFFICES ASSUME NEW i \in 1 .. m
               PROVE  rest[i] = FrameAt(b, under, i, b.ip_stack[i])
    OBVIOUS
  <2>2. rest[i] = FrameAt(a, stale, i, a.ip_stack[i]) /\ b.ip_stack[i] = a.ip_stack[i]
    BY <1>13, <1>14, <1>21, <2>1
  <2>3. FrameAt(a, stale, i, a.ip_stack[i]) = FrameAt(b, under, i, a.ip_stack[i])
    BY <1>22, <2>1, Zenon
  <2> QED BY <2>2, <2>3
<1>24. FrameAt(b, under, m + 1, b.ip).again = frame.again
  <2>1. FrameAt(b, under, m + 1, b.ip).again = FrameAt(b, under, m + 1, a.ip_stack[m + 1]).again
    BY DEF FrameAt
  <2>2. m + 1 \in 1 .. m + 1
    OBVIOUS
  <2> QED BY <1>17, <1>22, <2>1, <2>2
<1>25. /\ frame.function = a.function
       /\ frame.block = PendingIp(a).ip.block /\ frame.index = PendingIp(a).ip.index
  BY <1>8, <1>17 DEF FrameAt
<1>26. Aligned(b, under, m)
  BY <1>11 DEF CountsAt
<1>27. S!Normal(FramesOf(a)) = Append(rest, frame)
  BY <1>20 DEF F
<1>28. Continues(a, b)
  <2>1. rest \in Seq(FrameRecord) /\ Len(rest) = m
    BY <1>21
  <2> QED BY <1>10, <1>12, <1>18, <1>23, <1>24, <1>25, <1>26, <1>27, <2>1, ContinuesIf
<1> QED BY <1>4, <1>6, <1>28

\* A fetch that does not return takes one operation off what is left.
LEMMA FetchContinues ==
    ASSUME NEW a \in KeptActivation, PendingIp(a).jump # "Return"
    PROVE  Continues(a, NextInstruction(a))
<1>1. CASE ~AtEnd(a)
  <2>1. PendingIp(a).jump = "None"
    BY <1>1 DEF PendingIp
  <2>2. NextInstruction(a) = [a EXCEPT !.ip = Advance(a.ip)]
    BY <2>1 DEF NextInstruction
  <2> QED BY <1>1, <2>2, NoneContinues
<1>2. CASE AtEnd(a) /\ RepeatsAgain(TopRepeat(a))
  <2>1. PendingIp(a).jump = "Repeat"
    BY <1>2 DEF PendingIp
  <2>2. NextInstruction(a) = RepeatBody(a)
    BY <2>1 DEF NextInstruction
  <2> QED BY <1>2, <2>2, RepeatContinues
<1>3. CASE AtEnd(a) /\ ~RepeatsAgain(TopRepeat(a))
  <2>1. LiveSaved(a) # {}
    BY <1>3 DEF PendingIp
  <2>2. PendingIp(a).jump = "Branch"
    BY <1>3, <2>1 DEF PendingIp
  <2>3. NextInstruction(a) = BranchTo(a, Max(LiveSaved(a)))
    BY <2>2 DEF NextInstruction
  <2> QED BY <1>3, <2>1, <2>3, BranchContinues
<1> QED BY <1>1, <1>2, <1>3

\* Frames whose last has an operation under it are all that is left.
LEMMA NormalLive ==
    ASSUME NEW frames \in Seq(FrameRecord), frames # << >>,
           ~S!Finished(Last(frames)), S!Rewound(Last(frames)) = Last(frames)
    PROVE  S!Normal(frames) = frames
<1>1. PICK n \in Nat : Len(frames) = n + 1
  <2>1. \A k \in Nat \ {0} : k - 1 \in Nat /\ k = (k - 1) + 1
    OBVIOUS
  <2> QED BY <2>1, StackEnds, Zenon
<1>2. Last(frames) = frames[n + 1]
  BY <1>1, StackEnds, Zenon DEF Last
<1>3. Front(frames) = SubSeq(frames, 1, n)
  <2>1. Len(frames) - 1 = n
    BY <1>1
  <2> QED BY <2>1, Zenon DEF Front
<1>4. n \in 0 .. n /\ \A j \in n + 2 .. n + 1 : S!Finished(frames[j])
  OBVIOUS
<1>5. S!Normal(frames) = Append(SubSeq(frames, 1, n), S!Rewound(frames[n + 1]))
  <2>1. ~S!Finished(frames[n + 1])
    BY <1>2
  <2> QED BY <1>1, <1>4, <2>1, NormalAt
<1>6. S!Normal(frames) = Append(Front(frames), Last(frames))
  BY <1>2, <1>3, <1>5
<1> QED BY <1>6, StackSplits

\* What is left of an activation with an operation to fetch, taken apart.
LEMMA LeftParts ==
    ASSUME NEW a, NEW b, Continues(a, b), FetchedWell(a, b), a \in KeptActivation,
           NEW nf, nf = S!Normal(FramesOf(a))
    PROVE  /\ nf \in Seq(FrameRecord) /\ nf # << >>
           /\ Front(nf) \in Seq(FrameRecord)
           /\ Last(nf) \in FrameRecord
           /\ Last(nf).function = b.function
           /\ S!Normal(nf) = nf
           /\ S!NextOp(nf) = OpAt(a, PendingIp(a).ip)
           /\ FramesOf(b) = S!Past(nf)
<1>1. nf \in Seq(FrameRecord) /\ nf # << >> /\ FrameTop(a, nf) /\ FramesOf(b) = S!Past(nf)
  BY DEF Continues
<1>2. Front(nf) \in Seq(FrameRecord) /\ Last(nf) \in FrameRecord
  BY <1>1, StackEnds
<1>3. PendingIp(a).ip \in InstructionPointer /\ HasOp(a, PendingIp(a).ip)
      /\ b.function = a.function
  BY DEF FetchedWell
<1>4. a \in ActivationRecord
  BY KeptParts
<1> DEFINE last == Last(nf)
           ip == PendingIp(a).ip
<1>5. last.function = a.function /\ last.block = ip.block /\ last.index = ip.index
  BY <1>1 DEF FrameTop
<1>6. Len(Code(a, ip)) \in Nat /\ ip.index \in Nat
  BY <1>3, <1>4, CodeType DEF InstructionPointer
<1> HIDE DEF last, ip
<1>7. S!BlockOf(last) = Code(a, ip)
  BY <1>5 DEF S!BlockOf, Code
<1>8. ~(last.index >= Len(S!BlockOf(last)))
  <2>1. ip.index < Len(Code(a, ip))
    BY <1>3 DEF HasOp, ip
  <2>2. ~(ip.index >= Len(Code(a, ip)))
    BY <1>6, <2>1
  <2> QED BY <1>5, <1>7, <2>2
<1>9. ~S!Finished(last) /\ S!Rewound(last) = last
  BY <1>8, Zenon DEF S!Finished, S!Rewound
<1>10. S!Normal(nf) = nf
  BY <1>1, <1>9, NormalLive DEF last
<1>11. S!NextOp(nf) = OpAt(a, ip)
  <2>1. S!NextOp(nf) = S!BlockOf(last)[last.index + 1]
    BY DEF S!NextOp, S!Last, Last, last
  <2> QED BY <1>5, <1>7, <2>1 DEF OpAt
<1> QED BY <1>1, <1>2, <1>3, <1>5, <1>10, <1>11 DEF last, ip

\* Putting an activation back on the operation it was about to execute undoes the fetch.
LEMMA StepBackRestores ==
    ASSUME NEW a, NEW b, Continues(a, b), FetchedWell(a, b), a \in KeptActivation
    PROVE  /\ StepBack(b) \in KeptActivation
           /\ FramesOf(StepBack(b)) = S!Normal(FramesOf(a))
<1> DEFINE c == StepBack(b)
           nf == S!Normal(FramesOf(a))
<1>1. b \in KeptActivation /\ c \in GoodActivation
  BY StepBackGood DEF Continues
<1>2. PICK stale, n \in Nat : CountsAt(b, stale, n)
  BY <1>1, KeptParts
<1>3. b \in ActivationRecord /\ c \in ActivationRecord /\ KeepsCount(b.function)
  BY <1>1, KeptParts DEF GoodActivation
<1>4. /\ c.function = b.function /\ c.repeat_stack = b.repeat_stack
      /\ c.ip_stack = b.ip_stack
  BY <1>3 DEF StepBack, ActivationRecord
<1>5. /\ b.ip.index \in Nat \ {0} /\ c.ip.block = b.ip.block /\ c.ip.index = b.ip.index - 1
  BY FetchedPointer
<1> HIDE DEF c
<1>6. CountsAt(c, stale, n)
  BY <1>2, <1>4, <1>5 DEF CountsAt, Aligned, StaleNone, CountersInside, InsideLive, HasOp, Code
<1>7. c \in KeptActivation
  BY <1>1, <1>3, <1>4, <1>6 DEF KeptActivation
<1> HIDE DEF nf
<1>8. /\ nf \in Seq(FrameRecord) /\ nf # << >>
      /\ Front(nf) \in Seq(FrameRecord) /\ Last(nf) \in FrameRecord
      /\ FramesOf(b) = S!Past(nf)
  BY LeftParts DEF nf
<1> DEFINE rest == Front(nf)
           last == Last(nf)
           next == [last EXCEPT !.index = @ + 1]
<1>9. FramesOf(b) = Append(rest, next)
  BY <1>8 DEF S!Past, S!Front, S!Last, Front, Last
<1>10. /\ FramesOf(b) \in Seq(FrameRecord) /\ Len(FramesOf(b)) = n + 1
       /\ \A i \in 1 .. n : FramesOf(b)[i] = FrameAt(b, stale, i, b.ip_stack[i])
       /\ FramesOf(b)[n + 1] = FrameAt(b, stale, n + 1, b.ip)
  BY <1>2, <1>3, FramesAre DEF CountsAt, Aligned
<1>11. next \in FrameRecord /\ next.index = last.index + 1 /\ last.index \in Nat
       /\ next.function = last.function /\ next.block = last.block /\ next.again = last.again
  <2>1. last = [function |-> last.function, block |-> last.block, index |-> last.index,
                again |-> last.again]
        /\ last.function \in Function /\ last.block \in BlockId
        /\ last.index \in Nat /\ last.again \in Nat
    BY <1>8, FrameType
  <2> HIDE DEF last
  <2>2. next = [function |-> last.function, block |-> last.block, index |-> last.index + 1,
                again |-> last.again]
    BY <2>1
  <2> HIDE DEF next
  <2> QED BY <2>1, <2>2 DEF FrameRecord
<1> HIDE DEF rest, last, next
<1>12. rest \in Seq(FrameRecord) /\ last \in FrameRecord
  BY <1>8 DEF rest, last
<1>13. Len(rest) = n
  <2>1. Len(Append(rest, next)) = Len(rest) + 1 /\ Len(rest) \in Nat
    BY <1>11, <1>12, StackPush, LenProperties
  <2> QED BY <1>9, <1>10, <2>1
<1>14. /\ \A i \in 1 .. n : FramesOf(b)[i] = rest[i]
       /\ FramesOf(b)[n + 1] = next
  BY <1>9, <1>11, <1>12, <1>13, StackPush
<1>15. \A i \in 1 .. n : rest[i] = FrameAt(c, stale, i, c.ip_stack[i])
  BY <1>4, <1>10, <1>14 DEF FrameAt
<1>16. last = FrameAt(c, stale, n + 1, c.ip)
  <2> DEFINE again == FrameAt(b, stale, n + 1, b.ip).again
  <2>1. FrameAt(b, stale, n + 1, b.ip) =
          [function |-> b.function, block |-> b.ip.block, index |-> b.ip.index, again |-> again]
        /\ FrameAt(c, stale, n + 1, c.ip) =
          [function |-> c.function, block |-> c.ip.block, index |-> c.ip.index, again |-> again]
    BY <1>4 DEF FrameAt
  <2> HIDE DEF again
  <2>2. /\ next.function = b.function /\ next.block = b.ip.block
        /\ next.index = b.ip.index /\ next.again = again
    BY <1>10, <1>14, <2>1
  <2>3. last.index = c.ip.index
    BY <1>5, <1>11, <2>2
  <2>4. last.function = c.function /\ last.block = c.ip.block /\ last.again = again
    BY <1>4, <1>5, <1>11, <2>2
  <2>5. last = [function |-> last.function, block |-> last.block, index |-> last.index,
                again |-> last.again]
    BY <1>12, FrameType
  <2> QED BY <2>1, <2>3, <2>4, <2>5
<1>17. Aligned(c, stale, n)
  BY <1>6 DEF CountsAt
<1>18. FramesOf(c) = Append(rest, last)
  BY <1>3, <1>12, <1>13, <1>15, <1>16, <1>17, FramesMatch
<1>19. nf = Append(rest, last)
  BY <1>8, StackSplits DEF rest, last
<1> QED BY <1>7, <1>18, <1>19 DEF c, nf

-----------------------------------------------------------------------------
\* A block entered: one more frame, in it; the pointer saved is the frame under it.
LEMMA EnterKeeps ==
    ASSUME NEW b \in KeptActivation, NEW block \in BlockId,
           NEW saved \in InstructionPointer, NEW entry \in RepeatEntry,
           saved.block = b.ip.block,
           entry # NoRepeat => block \in Inside(b.function),
           saved.block \in Inside(b.function) => block \in Inside(b.function) /\ HasOp(b, saved),
           NEW c \in GoodActivation, c = Enter(b, block, saved, entry)
    PROVE  /\ c \in KeptActivation
           /\ FramesOf(c) = Append(FramesOf([b EXCEPT !.ip = saved]),
                                   S!Frame(b.function, block, 0, PassesLeft(entry)))
<1> DEFINE rs == Append(b.repeat_stack, entry)
           ips == Append(b.ip_stack, saved)
           d == [b EXCEPT !.ip = saved]
<1>1. b \in ActivationRecord /\ KeepsCount(b.function)
  BY KeptParts
<1>2. PICK stale, n \in Nat : CountsAt(b, stale, n)
  BY KeptParts
<1>3. /\ Len(b.ip_stack) = n /\ Len(b.repeat_stack) = stale + n
      /\ StaleNone(b, stale) /\ CountersInside(b, stale, n) /\ InsideLive(b, n)
  BY <1>2 DEF CountsAt, Aligned
<1>4. b.repeat_stack \in Seq(RepeatEntry) /\ b.ip_stack \in Seq(InstructionPointer)
  BY <1>1 DEF ActivationRecord
<1>5. PICK m \in Nat, top \in Nat : m = n + 1 /\ top = stale + n + 1
  OBVIOUS
<1>6. /\ rs \in Seq(RepeatEntry) /\ Len(rs) = top /\ rs[top] = entry
      /\ \A j \in 1 .. stale + n : rs[j] = b.repeat_stack[j]
  <2>1. PICK r \in Nat : r = stale + n
    OBVIOUS
  <2> QED BY <1>3, <1>4, <1>5, <2>1, StackPush
<1>7. /\ ips \in Seq(InstructionPointer) /\ Len(ips) = m /\ ips[m] = saved
      /\ \A i \in 1 .. n : ips[i] = b.ip_stack[i]
  BY <1>3, <1>4, <1>5, StackPush
<1>8. c = [b EXCEPT !.ip_stack = ips, !.repeat_stack = rs, !.ip = StartOf(block)]
  BY DEF Enter
<1> HIDE DEF rs, ips
<1>9. /\ c.function = b.function /\ c.ip = StartOf(block)
      /\ c.repeat_stack = rs /\ c.ip_stack = ips
  BY <1>1, <1>8 DEF ActivationRecord
<1>10. /\ d.function = b.function /\ d.ip = saved /\ d.repeat_stack = b.repeat_stack
       /\ d.ip_stack = b.ip_stack /\ d \in ActivationRecord
  BY <1>1 DEF ActivationRecord
<1> HIDE DEF d
<1>11. c.ip.block = block
  BY <1>9 DEF StartOf
<1>12. \A ip : HasOp(c, ip) <=> HasOp(b, ip)
  BY <1>9 DEF HasOp, Code
<1>13. Aligned(c, stale, m)
  BY <1>5, <1>6, <1>7, <1>9 DEF Aligned
<1>14. StaleNone(c, stale)
  <2>1. \A j \in 1 .. stale : j \in 1 .. stale + n
    OBVIOUS
  <2> QED BY <1>3, <1>6, <1>9, <2>1 DEF StaleNone
<1>15. InsideLive(c, m)
  <2> SUFFICES ASSUME NEW i \in 1 .. m, ips[i].block \in Inside(b.function)
               PROVE  HasOp(b, ips[i])
    BY <1>9, <1>12 DEF InsideLive
  <2>1. CASE i = m
    BY <1>7, <2>1
  <2>2. CASE i # m
    <3>1. i \in 1 .. n
      BY <1>5, <2>2
    <3> QED BY <1>3, <1>7, <3>1 DEF InsideLive
  <2> QED BY <2>1, <2>2
<1>16. CountersInside(c, stale, m)
  <2> SUFFICES ASSUME NEW k \in 1 .. m, rs[stale + k] # NoRepeat
               PROVE  /\ block \in Inside(b.function)
                      /\ \A i \in k + 1 .. m : ips[i].block \in Inside(b.function)
    BY <1>9, <1>11 DEF CountersInside
  <2>1. CASE k = m
    <3>1. stale + k = top
      BY <1>5, <2>1
    <3>2. \A i \in k + 1 .. m : FALSE
      BY <2>1
    <3> QED BY <1>6, <3>1, <3>2
  <2>2. CASE k # m
    <3>1. k \in 1 .. n /\ stale + k \in 1 .. stale + n
      BY <1>5, <2>2
    <3>2. /\ b.ip.block \in Inside(b.function)
          /\ \A i \in k + 1 .. n : b.ip_stack[i].block \in Inside(b.function)
      BY <1>3, <1>6, <3>1 DEF CountersInside
    <3>3. block \in Inside(b.function) /\ saved.block \in Inside(b.function)
      BY <3>2
    <3>4. \A i \in k + 1 .. m : i = m \/ (i \in k + 1 .. n /\ i \in 1 .. n)
      BY <1>5, <3>1
    <3>5. \A i \in k + 1 .. m : ips[i].block \in Inside(b.function)
      BY <1>7, <3>2, <3>3, <3>4
    <3> QED BY <3>3, <3>5
  <2> QED BY <2>1, <2>2
<1>17. CountsAt(c, stale, m)
  BY <1>13, <1>14, <1>15, <1>16 DEF CountsAt
<1>18. c \in KeptActivation
  BY <1>1, <1>9, <1>17 DEF KeptActivation
<1> DEFINE rest == FramesOf(d)
           frame == S!Frame(b.function, block, 0, PassesLeft(entry))
<1>19. /\ rest \in Seq(FrameRecord) /\ Len(rest) = m
       /\ \A i \in 1 .. n : rest[i] = FrameAt(d, stale, i, d.ip_stack[i])
       /\ rest[m] = FrameAt(d, stale, m, d.ip)
  <2>1. Len(d.ip_stack) = n /\ Len(d.repeat_stack) = stale + n
    BY <1>3, <1>10
  <2>2. /\ rest \in Seq(FrameRecord) /\ Len(rest) = n + 1
        /\ \A i \in 1 .. n : rest[i] = FrameAt(d, stale, i, d.ip_stack[i])
        /\ rest[n + 1] = FrameAt(d, stale, n + 1, d.ip)
    BY <1>10, <2>1, FramesAre
  <2> HIDE DEF rest
  <2> QED BY <1>5, <2>2
<1> HIDE DEF rest
<1>20. \A i \in 1 .. m : \A ip : FrameAt(d, stale, i, ip) = FrameAt(c, stale, i, ip)
  <2> SUFFICES ASSUME NEW i \in 1 .. m, NEW ip
               PROVE  FrameAt(d, stale, i, ip) = FrameAt(c, stale, i, ip)
    OBVIOUS
  <2>1. i = 1 \/ stale + i - 1 \in 1 .. stale + n
    BY <1>5
  <2>2. i = 1 \/ rs[stale + i - 1] = b.repeat_stack[stale + i - 1]
    BY <1>6, <2>1
  <2> QED BY <1>9, <1>10, <2>2 DEF FrameAt
<1>21. \A i \in 1 .. m : rest[i] = FrameAt(c, stale, i, c.ip_stack[i])
  <2> SUFFICES ASSUME NEW i \in 1 .. m PROVE rest[i] = FrameAt(d, stale, i, ips[i])
    BY <1>9, <1>20
  <2>1. i = m \/ i \in 1 .. n
    BY <1>5
  <2>2. CASE i = m
    BY <1>7, <1>10, <1>19, <2>2
  <2>3. CASE i \in 1 .. n
    BY <1>7, <1>10, <1>19, <2>3
  <2> QED BY <2>1, <2>2, <2>3
<1>22. frame = FrameAt(c, stale, m + 1, c.ip)
  <2>1. m + 1 # 1 /\ stale + (m + 1) - 1 = top
    BY <1>5
  <2>2. FrameAt(c, stale, m + 1, c.ip) =
          [function |-> b.function, block |-> block, index |-> 0,
           again |-> PassesLeft(rs[stale + (m + 1) - 1])]
    BY <1>9, <2>1 DEF FrameAt, StartOf
  <2> QED BY <1>6, <2>1, <2>2 DEF S!Frame
<1>23. frame \in FrameRecord
  <2>1. PassesLeft(entry) \in Nat /\ b.function \in Function
    BY <1>1, PassesLeftType DEF ActivationRecord
  <2> QED BY <2>1 DEF FrameRecord, S!Frame
<1> HIDE DEF frame
<1>24. FramesOf(c) = Append(rest, frame)
  <2>1. c \in ActivationRecord
    BY DEF GoodActivation
  <2> QED BY <1>13, <1>19, <1>21, <1>22, <1>23, <2>1, FramesMatch
<1> QED BY <1>18, <1>24 DEF rest, frame, d

\* An activation that has just been made.
LEMMA NewKept ==
    ASSUME NEW f \in GoodFunction, KeepsCount(f)
    PROVE  /\ NewActivation(f) \in KeptActivation
           /\ FramesOf(NewActivation(f)) = S!Call(f)
<1> DEFINE a == NewActivation(f)
<1>1. a \in GoodActivation
  BY NewActivationGood
<1>2. /\ a.function = f /\ a.ip = StartOf(f.body)
      /\ a.repeat_stack = << >> /\ a.ip_stack = << >>
  BY DEF NewActivation
<1> HIDE DEF a
<1>3. PICK n \in Nat : n = 0
  OBVIOUS
<1>4. Len(a.ip_stack) = n /\ Len(a.repeat_stack) = n + n
  BY <1>2, <1>3, EmptySeq
<1>5. CountsAt(a, n, n)
  BY <1>3, <1>4 DEF CountsAt, Aligned, StaleNone, CountersInside, InsideLive
<1>6. a \in KeptActivation
  BY <1>1, <1>2, <1>5 DEF KeptActivation
<1>7. a \in ActivationRecord
  BY <1>1 DEF GoodActivation
<1>8. /\ FramesOf(a) \in Seq(FrameRecord) /\ Len(FramesOf(a)) = 1
      /\ FramesOf(a)[1] = FrameAt(a, n, 1, a.ip)
  <2>1. n + 1 = 1
    BY <1>3
  <2> QED BY <1>4, <1>7, <2>1, FramesAre
<1>9. FrameAt(a, n, 1, a.ip) = S!Frame(f, f.body, 0, 0)
  BY <1>2 DEF FrameAt, S!Frame, StartOf
<1>10. FramesOf(a) = << S!Frame(f, f.body, 0, 0) >>
  BY <1>8, <1>9
<1> QED BY <1>6, <1>10 DEF a, S!Call

\* What RepeatNest says of the operation fetched.
LEMMA NestAt ==
    ASSUME NEW a \in KeptActivation, NEW b, FetchedWell(a, b),
           NEW op, op = OpAt(a, PendingIp(a).ip)
    PROVE  /\ op.op = "Repeat" => op.body \in Inside(b.function)
           /\ b.ip.block \in Inside(b.function) =>
                /\ Entered(op) \subseteq Inside(b.function)
                /\ op.op \in {"If", "Repeat"} => HasOp(b, b.ip)
           /\ HasOp(b, StepBack(b).ip)
<1> DEFINE ip == PendingIp(a).ip
           f == a.function
<1>1. b \in GoodActivation /\ b.function = f /\ HasOp(a, ip) /\ b.ip = Advance(ip)
      /\ ip \in InstructionPointer
  BY DEF FetchedWell
<1>2. a \in ActivationRecord /\ KeepsCount(f)
  BY KeptParts
<1>3. RepeatNest(f, Inside(f))
  BY <1>2, InsideNest
<1>4. PICK n \in Nat : n = Len(Code(a, ip)) /\ DOMAIN Code(a, ip) = 1 .. n
  BY <1>1, <1>2, CodeType, LenProperties
<1>5. PICK i \in 1 .. n : i = ip.index + 1 /\ ip.index = i - 1 /\ ip.index < n
  <2>1. ip.index \in Nat /\ ip.index < n
    BY <1>1, <1>4 DEF HasOp, InstructionPointer
  <2>2. ip.index + 1 \in 1 .. n /\ ip.index = (ip.index + 1) - 1
    BY <2>1
  <2> QED BY <2>1, <2>2
<1>6. ip.block \in BlockId /\ Code(a, ip) = f.blocks[ip.block]
  BY <1>1 DEF InstructionPointer, Code
<1>7. b.ip.block = ip.block /\ b.ip.index = i
  BY <1>1, <1>5 DEF Advance, InstructionPointer
<1>8. Code(b, b.ip) = Code(a, ip)
  BY <1>1, <1>7 DEF Code
<1> HIDE DEF ip, f
<1>9. op = f.blocks[ip.block][i]
  BY <1>5, <1>6 DEF OpAt, ip
<1>10. i \in DOMAIN f.blocks[ip.block]
  BY <1>4, <1>6
<1>11. /\ op.op = "Repeat" => op.body \in Inside(f)
       /\ ip.block \in Inside(f) => /\ Entered(op) \subseteq Inside(f)
                                    /\ i = n => op.op \notin {"If", "Repeat"}
  <2>1. n = Len(f.blocks[ip.block])
    BY <1>4, <1>6
  <2> QED BY <1>3, <1>6, <1>9, <1>10, <2>1, Zenon DEF RepeatNest
<1>12. i # n => HasOp(b, b.ip)
  <2>1. i # n => i < n
    OBVIOUS
  <2> QED BY <1>4, <1>7, <1>8, <2>1 DEF HasOp
<1>13. HasOp(b, StepBack(b).ip)
  <2>1. StepBack(b).ip.block = b.ip.block /\ StepBack(b).ip.index = b.ip.index - 1
    BY FetchedPointer
  <2>2. Code(b, StepBack(b).ip) = Code(b, b.ip)
    BY <2>1 DEF Code
  <2> QED BY <1>4, <1>5, <1>7, <1>8, <2>1, <2>2 DEF HasOp
<1> QED BY <1>1, <1>7, <1>11, <1>12, <1>13 DEF f

\* The three ways into a block, of an activation with an operation fetched.
LEMMA IfEnters ==
    ASSUME NEW a \in KeptActivation, NEW b \in KeptActivation, FetchedWell(a, b),
           NEW op, op = OpAt(a, PendingIp(a).ip), op.op = "If",
           NEW block \in BlockId, block \in {op.then, op.else}
    PROVE  /\ EnterBlock(b, block) \in KeptActivation
           /\ FramesOf(EnterBlock(b, block)) =
                Append(FramesOf(b), S!Frame(b.function, block, 0, 0))
<1> DEFINE c == EnterBlock(b, block)
<1>1. c \in GoodActivation
  BY EnterBlocksGood
<1>2. b.ip \in InstructionPointer /\ b \in ActivationRecord
  BY KeptParts DEF ActivationRecord
<1>3. NoRepeat \in RepeatEntry /\ PassesLeft(NoRepeat) = 0
  BY DEF NoRepeat, RepeatEntry, PassesLeft, RepeatsAgain
<1>4. b.ip.block \in Inside(b.function) => block \in Inside(b.function) /\ HasOp(b, b.ip)
  <2>1. block \in Entered(op)
    BY DEF Entered
  <2> QED BY <2>1, NestAt
<1>5. c = Enter(b, block, b.ip, NoRepeat)
  BY DEF EnterBlock
<1> HIDE DEF c
<1>6. /\ c \in KeptActivation
      /\ FramesOf(c) = Append(FramesOf([b EXCEPT !.ip = b.ip]),
                              S!Frame(b.function, block, 0, PassesLeft(NoRepeat)))
  BY <1>1, <1>2, <1>3, <1>4, <1>5, EnterKeeps
<1>7. [b EXCEPT !.ip = b.ip] = b
  BY <1>2 DEF ActivationRecord
<1> QED BY <1>3, <1>6, <1>7 DEF c

\* The body of a while.true, which is to be tested again.
LEMMA WhileEnters ==
    ASSUME NEW a \in KeptActivation, NEW b \in KeptActivation, FetchedWell(a, b),
           NEW op, op = OpAt(a, PendingIp(a).ip), op.op = "While", op.body \in BlockId
    PROVE  /\ EnterWhileLoop(b, op.body) \in KeptActivation
           /\ FramesOf(EnterWhileLoop(b, op.body)) =
                Append(FramesOf(StepBack(b)), S!Frame(b.function, op.body, 0, 0))
<1> DEFINE c == EnterWhileLoop(b, op.body)
           saved == StepBack(b).ip
<1>1. c \in GoodActivation
  BY EnterBlocksGood
<1>2. saved \in InstructionPointer /\ b \in ActivationRecord /\ saved.block = b.ip.block
  BY KeptParts, FetchedPointer
<1>3. NoRepeat \in RepeatEntry /\ PassesLeft(NoRepeat) = 0
  BY DEF NoRepeat, RepeatEntry, PassesLeft, RepeatsAgain
<1>4. saved.block \in Inside(b.function) => op.body \in Inside(b.function) /\ HasOp(b, saved)
  <2>1. op.body \in Entered(op)
    BY DEF Entered
  <2> QED BY <1>2, <2>1, NestAt
<1>5. c = Enter(b, op.body, saved, NoRepeat)
  BY DEF EnterWhileLoop
<1>6. [b EXCEPT !.ip = saved] = StepBack(b)
  BY <1>2 DEF ActivationRecord, StepBack
<1> HIDE DEF c, saved
<1>7. /\ c \in KeptActivation
      /\ FramesOf(c) = Append(FramesOf([b EXCEPT !.ip = saved]),
                              S!Frame(b.function, op.body, 0, PassesLeft(NoRepeat)))
  BY <1>1, <1>2, <1>3, <1>4, <1>5, EnterKeeps
<1> QED BY <1>3, <1>6, <1>7 DEF c

\* The body of a repeat, with its passes counted.
LEMMA RepeatEnters ==
    ASSUME NEW a \in KeptActivation, NEW b \in KeptActivation, FetchedWell(a, b),
           NEW op, op = OpAt(a, PendingIp(a).ip), op.op = "Repeat",
           op.body \in BlockId, op.n \in Nat
    PROVE  /\ EnterRepeat(b, op.body, op.n) \in KeptActivation
           /\ FramesOf(EnterRepeat(b, op.body, op.n)) =
                Append(FramesOf(b), S!Frame(b.function, op.body, 0, op.n))
<1> DEFINE c == EnterRepeat(b, op.body, op.n)
<1>1. c \in GoodActivation
  BY EnterRepeatGood, KeptParts
<1>2. b.ip \in InstructionPointer /\ b \in ActivationRecord
  BY KeptParts DEF ActivationRecord
<1>3. PICK entry \in RepeatEntry : entry = [count |-> 1, n |-> op.n] /\ PassesLeft(entry) = op.n
  <2>1. PICK n \in Nat : n = op.n
    OBVIOUS
  <2>2. PICK entry : entry = [count |-> 1, n |-> n]
    OBVIOUS
  <2>3. entry \in RepeatEntry /\ entry.count = 1 /\ entry.n = n /\ entry # NoRepeat
    BY <2>2 DEF RepeatEntry, NoRepeat
  <2>4. PassesLeft(entry) = n
    BY <2>3 DEF PassesLeft, RepeatsAgain
  <2> QED BY <2>1, <2>2, <2>3, <2>4
<1>4. op.body \in Inside(b.function)
  BY NestAt
<1>5. b.ip.block \in Inside(b.function) => HasOp(b, b.ip)
  BY NestAt
<1>6. c = Enter(b, op.body, b.ip, entry)
  BY <1>3 DEF EnterRepeat
<1> HIDE DEF c
<1>7. /\ c \in KeptActivation
      /\ FramesOf(c) = Append(FramesOf([b EXCEPT !.ip = b.ip]),
                              S!Frame(b.function, op.body, 0, PassesLeft(entry)))
  BY <1>1, <1>2, <1>4, <1>5, <1>6, EnterKeeps
<1>8. [b EXCEPT !.ip = b.ip] = b
  BY <1>2 DEF ActivationRecord
<1> QED BY <1>3, <1>7, <1>8 DEF c

-----------------------------------------------------------------------------
(* What is left of a callstack.                                            *)

C == INSTANCE FoldLemmas WITH Step <- LAMBDA p, q, rest, a : WithCall(rest, a)

\* The two instances of StructuredExec agree on what is left.
LEMMA WithCallIs ==
    ASSUME NEW rest, NEW a
    PROVE  WithCall(rest, a) = S!Under(rest, FramesOf(a))
<1> DEFINE fr == FramesOf(a)
           under == Shape!Under(rest, fr)
<1>1. {Shape!Under(rest, frames) : frames \in {fr}} = {under}
  OBVIOUS
<1>2. WithCall(rest, a) = CHOOSE calls \in {under} : TRUE
  BY <1>1 DEF WithCall
<1> HIDE DEF fr
<1>3. \A x : Shape!Finished(x) = S!Finished(x) /\ Shape!Rewound(x) = S!Rewound(x)
  BY DEF Shape!Finished, S!Finished, Shape!Rewound, S!Rewound, Shape!BlockOf, S!BlockOf
<1>4. \A s : Shape!Max(s) = S!Max(s)
  BY DEF Shape!Max, S!Max
<1>5. Shape!Normal(fr) = S!Normal(fr)
  BY <1>3, <1>4 DEF Shape!Normal, S!Normal
<1>6. under = S!Under(rest, fr)
  BY <1>5 DEF Shape!Under, S!Under
<1> HIDE DEF under
<1>7. (CHOOSE calls \in {under} : TRUE) = under
  OBVIOUS
<1> QED BY <1>2, <1>6, <1>7 DEF fr

\* What is left of a callstack is a fold over its activations.
LEMMA CallsFold ==
    ASSUME NEW cs
    PROVE  CallsOf(cs) = C!Fold(0, 0, << >>, cs)
BY DEF CallsOf, C!Fold, FoldLeft, MapThenFoldSet, C!FoldLeft, C!MapThenFoldSet, Max, C!Max

\* Nothing is left of no activations.
LEMMA CallsEmpty == CallsOf(<< >>) = << >>
<1>1. CallsOf(<< >>) = C!Fold(0, 0, << >>, << >>)
  BY CallsFold
<1> QED BY <1>1, C!FoldEmpty

\* Pushing an activation puts what is left of it on top.
LEMMA CallsPush ==
    ASSUME NEW cs \in Seq(KeptActivation), NEW a \in KeptActivation
    PROVE  CallsOf(Append(cs, a)) = S!Under(CallsOf(cs), FramesOf(a))
<1>1. CallsOf(Append(cs, a)) = C!Fold(0, 0, << >>, Append(cs, a))
  BY CallsFold
<1>2. CallsOf(cs) = C!Fold(0, 0, << >>, cs)
  BY CallsFold
<1>3. C!Fold(0, 0, << >>, Append(cs, a)) = WithCall(C!Fold(0, 0, << >>, cs), a)
  BY C!FoldAppend
<1> QED BY <1>1, <1>2, <1>3, WithCallIs

Calls == Seq(Seq(FrameRecord))

\* What is left is a sequence of calls, each a sequence of frames.
LEMMA UnderType ==
    ASSUME NEW rest \in Calls, NEW a \in KeptActivation
    PROVE  S!Under(rest, FramesOf(a)) \in Calls
<1> DEFINE left == S!Normal(FramesOf(a))
<1>1. left \in Seq(FrameRecord)
  <2>1. CASE PendingIp(a).jump = "Return"
    BY <2>1, ReturnLeaves, EmptySeq
  <2>2. CASE PendingIp(a).jump # "Return"
    BY <2>2, FetchContinues DEF Continues
  <2> QED BY <2>1, <2>2
<1>2. S!Under(rest, FramesOf(a)) = IF left = << >> THEN rest ELSE Append(rest, left)
  BY DEF S!Under
<1> HIDE DEF left
<1>3. Append(rest, left) \in Calls
  BY <1>1, StackPush DEF Calls
<1> QED BY <1>2, <1>3

\* The same of a whole callstack.
LEMMA CallsType ==
    ASSUME NEW cs \in Seq(KeptActivation)
    PROVE  CallsOf(cs) \in Calls
<1>1. PICK n \in Nat : n = Len(cs) /\ DOMAIN cs = 1 .. n
  BY LenProperties
<1>2. << >> \in Calls
  BY EmptySeq DEF Calls
<1>3. \A i \in 1 .. n : \A rest \in Calls : WithCall(rest, cs[i]) \in Calls
  <2> SUFFICES ASSUME NEW i \in 1 .. n, NEW rest \in Calls PROVE WithCall(rest, cs[i]) \in Calls
    OBVIOUS
  <2>1. cs[i] \in KeptActivation
    BY <1>1, ElementOfSeq
  <2> QED BY <2>1, UnderType, WithCallIs
<1>4. C!Fold(0, 0, << >>, cs) \in Calls
  BY <1>1, <1>2, <1>3, C!FoldKeeps
<1> QED BY <1>4, CallsFold

\* What is left of a callstack whose innermost activation returns, and of one where it goes on.
LEMMA CallsTop ==
    ASSUME NEW cs \in Seq(KeptActivation), cs # << >>
    PROVE  LET a == Last(cs)
               rest == CallsOf(Front(cs))
               left == S!Normal(FramesOf(a))
           IN  /\ Front(cs) \in Seq(KeptActivation) /\ a \in KeptActivation /\ rest \in Calls
               /\ PendingIp(a).jump = "Return" => CallsOf(cs) = rest
               /\ PendingIp(a).jump # "Return" =>
                    /\ left \in Seq(FrameRecord) /\ left # << >>
                    /\ CallsOf(cs) = Append(rest, left)
                    /\ CallsOf(cs) # << >>
                    /\ S!Front(CallsOf(cs)) = rest /\ S!Last(CallsOf(cs)) = left
<1> DEFINE a == Last(cs)
           rest == CallsOf(Front(cs))
           left == S!Normal(FramesOf(a))
<1>1. Front(cs) \in Seq(KeptActivation) /\ a \in KeptActivation
  BY StackEnds
<1>2. rest \in Calls
  BY <1>1, CallsType
<1>3. CallsOf(cs) = S!Under(rest, FramesOf(a))
  <2>1. cs = Append(Front(cs), a)
    BY StackSplits
  <2>2. CallsOf(Append(Front(cs), a)) = S!Under(rest, FramesOf(a))
    BY <1>1, CallsPush
  <2> QED BY <2>1, <2>2
<1>4. CallsOf(cs) = IF left = << >> THEN rest ELSE Append(rest, left)
  BY <1>3 DEF S!Under
<1>5. PendingIp(a).jump = "Return" => CallsOf(cs) = rest
  BY <1>1, <1>4, ReturnLeaves
<1>6. PendingIp(a).jump # "Return" => left \in Seq(FrameRecord) /\ left # << >>
  BY <1>1, FetchContinues DEF Continues
<1> HIDE DEF a, rest, left
<1>7. PendingIp(a).jump # "Return" => CallsOf(cs) = Append(rest, left)
  BY <1>4, <1>6
<1>8. left \in Seq(FrameRecord) =>
        /\ Append(rest, left) # << >>
        /\ S!Front(Append(rest, left)) = rest /\ S!Last(Append(rest, left)) = left
  BY <1>2, StackPush, StackPops DEF Calls, S!Front, S!Last, Front, Last
<1> QED BY <1>1, <1>2, <1>5, <1>6, <1>7, <1>8 DEF a, rest, left

-----------------------------------------------------------------------------
(***************************************************************************)
(* The inductive invariant of the refinement: every activation keeps the   *)
(* counters of its repeats.                                                *)
(***************************************************************************)
KInv == IInv /\ callstack \in Seq(KeptActivation)

\* A step of the emulator is a step of the structured program.
Simulates == callstack' \in Seq(KeptActivation) /\ S!Next

\* A step that leaves the callstack alone leaves all there is to do.
LEMMA IdleSimulates ==
    ASSUME KInv, callstack' = callstack
    PROVE  Simulates
<1>1. RemainingCalls' = RemainingCalls
  BY DEF RemainingCalls
<1>2. S!Idle
  BY <1>1 DEF S!Idle
<1> QED BY <1>2 DEF S!Next, Simulates, KInv

\* The calls under the innermost one, and what is left of that.
Below == CallsOf(Front(callstack))
Left == S!Normal(FramesOf(Current))

\* A fetch, and what is left before it.
LEMMA WorkParts ==
    ASSUME KInv, NEW op, Fetches(op)
    PROVE  /\ Current \in KeptActivation /\ Fetched \in KeptActivation
           /\ FetchedWell(Current, Fetched) /\ Continues(Current, Fetched)
           /\ Ix \in Op /\ Ix.op = op /\ Ix = OpAt(Current, PendingIp(Current).ip)
           /\ Below \in Calls /\ Left \in Seq(FrameRecord) /\ Left # << >>
           /\ RemainingCalls = Append(Below, Left) /\ RemainingCalls # << >>
           /\ S!Front(RemainingCalls) = Below /\ S!Last(RemainingCalls) = Left
           /\ S!Normal(Left) = Left /\ S!NextOp(Left) = Ix
           /\ FramesOf(Fetched) = S!Past(Left)
           /\ Last(Left).function = Fetched.function
           /\ Front(callstack) \in Seq(KeptActivation)
<1>1. callstack \in Seq(GoodActivation) /\ callstack \in Seq(KeptActivation)
  BY DEF KInv, IInv
<1>2. /\ FetchedWell(Current, Fetched) /\ Ix \in Op /\ Ix.op = op /\ callstack # << >>
      /\ Ix = OpAt(Current, PendingIp(Current).ip)
  BY <1>1, FetchesGood
<1>3. PendingIp(Current).jump # "Return"
  BY DEF Fetches, Jumped
<1>4. Front(callstack) \in Seq(KeptActivation) /\ Current \in KeptActivation /\ Below \in Calls
  BY <1>1, <1>2, CallsTop DEF Current, Below
<1>5. /\ Left \in Seq(FrameRecord) /\ Left # << >>
      /\ RemainingCalls = Append(Below, Left) /\ RemainingCalls # << >>
      /\ S!Front(RemainingCalls) = Below /\ S!Last(RemainingCalls) = Left
  BY <1>1, <1>2, <1>3, CallsTop DEF Current, Below, Left, RemainingCalls
<1>6. Continues(Current, Fetched)
  BY <1>3, <1>4, FetchContinues DEF Fetched
<1>7. Fetched \in KeptActivation
  BY <1>6 DEF Continues
<1>8. /\ S!Normal(Left) = Left /\ S!NextOp(Left) = Ix /\ FramesOf(Fetched) = S!Past(Left)
      /\ Last(Left).function = Fetched.function
  <2>1. PICK nf : nf = Left
    OBVIOUS
  <2>2. nf = S!Normal(FramesOf(Current))
    BY <2>1 DEF Left
  <2>3. /\ S!Normal(nf) = nf /\ S!NextOp(nf) = OpAt(Current, PendingIp(Current).ip)
        /\ FramesOf(Fetched) = S!Past(nf) /\ Last(nf).function = Fetched.function
    BY <1>2, <1>4, <1>6, <2>2, LeftParts
  <2> QED BY <1>2, <2>1, <2>3
<1> QED BY <1>2, <1>4, <1>5, <1>6, <1>7, <1>8

\* What is left when the innermost activation is put back as `a`.
LEMMA ReschedLeaves ==
    ASSUME KInv, callstack # << >>, NEW a \in KeptActivation
    PROVE  Resched(a) \in Seq(KeptActivation) /\ CallsOf(Resched(a)) = S!Under(Below, FramesOf(a))
<1>1. Front(callstack) \in Seq(KeptActivation)
  BY StackEnds DEF KInv
<1>2. Resched(a) \in Seq(KeptActivation)
  BY <1>1, StackPush DEF Resched
<1>3. CallsOf(Append(Front(callstack), a)) = S!Under(CallsOf(Front(callstack)), FramesOf(a))
  BY <1>1, CallsPush
<1> QED BY <1>2, <1>3 DEF Resched, Below

\* Executing an operation.
LEMMA WorkSimulates ==
    ASSUME KInv, NEW op, Fetches(op), NEW cs \in Seq(KeptActivation), callstack' = cs,
           CallsOf(cs) \in S!Outcomes(Below, Left)
    PROVE  Simulates
<1>1. RemainingCalls' = CallsOf(cs)
  BY DEF RemainingCalls
<1>2. RemainingCalls # << >> /\ S!Front(RemainingCalls) = Below /\ S!Last(RemainingCalls) = Left
  BY WorkParts
<1>3. S!Execute
  BY <1>1, <1>2 DEF S!Execute
<1> QED BY <1>3 DEF S!Next, Simulates

\* The early breakpoints that put the activation back leave everything to be done.
LEMMA BreakBeforeSimulates ==
    ASSUME KInv, NEW op, Fetches(op), BreakBefore
    PROVE  Simulates
<1>1. /\ Current \in KeptActivation /\ FetchedWell(Current, Fetched) /\ Continues(Current, Fetched)
      /\ RemainingCalls = Append(Below, Left) /\ S!Normal(Left) = Left /\ Left # << >>
  BY WorkParts
<1>2. StepBack(Fetched) \in KeptActivation /\ FramesOf(StepBack(Fetched)) = Left
  BY <1>1, StepBackRestores DEF Left
<1>3. callstack # << >>
  BY DEF Fetches
<1>4. /\ Resched(StepBack(Fetched)) \in Seq(KeptActivation)
      /\ CallsOf(Resched(StepBack(Fetched))) = S!Under(Below, Left)
  BY <1>2, <1>3, ReschedLeaves
<1>5. S!Under(Below, Left) = RemainingCalls
  BY <1>1 DEF S!Under
<1>6. callstack' = Resched(StepBack(Fetched))
  BY DEF BreakBefore
<1>7. RemainingCalls' = CallsOf(Resched(StepBack(Fetched)))
  BY <1>6 DEF RemainingCalls
<1>8. S!Idle
  BY <1>4, <1>5, <1>7 DEF S!Idle
<1> QED BY <1>4, <1>6, <1>8 DEF S!Next, Simulates

\* What the structured program makes of each operation.
LEMMA OutcomesAre ==
    ASSUME NEW rest, NEW frames, NEW op, op = S!NextOp(frames), op \in Op
    PROVE  /\ op.op \in {"Plain", "Store"} =>
                S!Outcomes(rest, frames) = {S!Under(rest, S!Past(frames))}
           /\ op.op = "If" =>
                S!Outcomes(rest, frames) =
                  {S!Under(rest, S!Within(S!Past(frames), block, 0)) : block \in {op.then, op.else}}
           /\ op.op = "While" =>
                S!Outcomes(rest, frames) =
                  {S!Under(rest, S!Within(frames, op.body, 0)), S!Under(rest, S!Past(frames))}
           /\ op.op = "Repeat" =>
                S!Outcomes(rest, frames) =
                  {S!Under(rest, S!Within(S!Past(frames), op.body, op.n))}
           /\ op.op = "Exec" =>
                S!Outcomes(rest, frames) =
                  IF op.callee \in DOMAIN functions
                    THEN {S!Under(S!Under(rest, S!Past(frames)), S!Call(functions[op.callee]))}
                    ELSE {rest}
<1>1. op.op \in {"Plain", "Store"} =>
        S!Outcomes(rest, frames) = {S!Under(rest, S!Past(frames))}
  BY DEF S!Outcomes
<1>2. op.op = "If" =>
        S!Outcomes(rest, frames) =
          {S!Under(rest, S!Within(S!Past(frames), block, 0)) : block \in {op.then, op.else}}
  BY DEF S!Outcomes
<1>3. op.op = "While" =>
        S!Outcomes(rest, frames) =
          {S!Under(rest, S!Within(frames, op.body, 0)), S!Under(rest, S!Past(frames))}
  BY DEF S!Outcomes
<1>4. op.op = "Repeat" =>
        S!Outcomes(rest, frames) =
          {S!Under(rest, S!Within(S!Past(frames), op.body, op.n))}
  <2> SUFFICES ASSUME op.op = "Repeat"
               PROVE  S!Outcomes(rest, frames) =
                        {S!Under(rest, S!Within(S!Past(frames), op.body, op.n))}
    OBVIOUS
  <2>1. PICK n \in Nat : n = S!NextOp(frames).n
    BY OpFields
  <2>2. S!NextOp(frames).n + 1 - 1 = n
    BY <2>1
  <2>3. PICK k : k = S!NextOp(frames).n + 1 - 1
    OBVIOUS
  <2>4. S!Outcomes(rest, frames) = {S!Under(rest, S!Within(S!Past(frames), op.body, k))}
    BY <2>1, <2>2, <2>3 DEF S!Outcomes
  <2> QED BY <2>1, <2>2, <2>3, <2>4
<1>5. op.op = "Exec" =>
        S!Outcomes(rest, frames) =
          IF op.callee \in DOMAIN functions
            THEN {S!Under(S!Under(rest, S!Past(frames)), S!Call(functions[op.callee]))}
            ELSE {rest}
  BY DEF S!Outcomes
<1> QED BY <1>1, <1>2, <1>3, <1>4, <1>5, Zenon

\* handle_action leaves the callstack as step left it.
LEMMA SuspendLeaves ==
    ASSUME NEW cs, NEW b, Suspend(cs, b)
    PROVE  callstack' = cs
BY DEF Suspend

\* An operation that only counts.
LEMMA PastSimulates ==
    ASSUME KInv, NEW op, Fetches(op), op \in {"Plain", "Store", "While"},
           callstack' = Resched(Fetched)
    PROVE  Simulates
<1>1. /\ Fetched \in KeptActivation /\ Ix \in Op /\ Ix.op = op
      /\ S!NextOp(Left) = Ix /\ FramesOf(Fetched) = S!Past(Left)
  BY WorkParts
<1>2. callstack # << >>
  BY DEF Fetches
<1>3. /\ Resched(Fetched) \in Seq(KeptActivation)
      /\ CallsOf(Resched(Fetched)) = S!Under(Below, S!Past(Left))
  BY <1>1, <1>2, ReschedLeaves
<1>4. S!Under(Below, S!Past(Left)) \in S!Outcomes(Below, Left)
  <2>1. CASE Ix.op \in {"Plain", "Store"}
    BY <1>1, <2>1, OutcomesAre
  <2>2. CASE Ix.op = "While"
    BY <1>1, <2>2, OutcomesAre
  <2> QED BY <1>1, <2>1, <2>2
<1> QED BY <1>3, <1>4, WorkSimulates

\* The operations without code nested in them.
LEMMA SimpleOpsSimulate ==
    ASSUME KInv, Plain \/ Store
    PROVE  Simulates
<1>1. CASE Plain
  <2>1. Fetches("Plain") /\ callstack' = Resched(Fetched)
    BY <1>1, SuspendLeaves DEF Plain
  <2> QED BY <2>1, PastSimulates
<1>2. CASE Store
  <2>1. Fetches("Store") /\ (BreakBefore \/ callstack' = Resched(Fetched))
    BY <1>2, SuspendLeaves DEF Store
  <2> QED BY <2>1, PastSimulates, BreakBeforeSimulates
<1> QED BY <1>1, <1>2

\* The frames that a block entered on top of `frames` leaves.
LEMMA WithinIs ==
    ASSUME NEW frames \in Seq(FrameRecord), frames # << >>, NEW f, NEW block, NEW again,
           Last(frames).function = f
    PROVE  /\ S!Within(frames, block, again) = Append(frames, S!Frame(f, block, 0, again))
           /\ S!Within(S!Past(frames), block, again) =
                Append(S!Past(frames), S!Frame(f, block, 0, again))
<1> DEFINE past == S!Past(frames)
           next == [Last(frames) EXCEPT !.index = @ + 1]
<1>1. S!Within(frames, block, again) = Append(frames, S!Frame(f, block, 0, again))
  BY DEF S!Within, S!Last, Last
<1>2. past = Append(Front(frames), next)
  BY DEF S!Past, S!Front, S!Last, Front, Last
<1>3. Front(frames) \in Seq(FrameRecord) /\ Last(frames) \in FrameRecord
  BY StackEnds
<1>4. next \in FrameRecord /\ next.function = f
  <2>1. PICK last : last = Last(frames)
    OBVIOUS
  <2>2. /\ last = [function |-> last.function, block |-> last.block, index |-> last.index,
                   again |-> last.again]
        /\ last.function \in Function /\ last.block \in BlockId
        /\ last.index \in Nat /\ last.again \in Nat
    BY <1>3, <2>1, FrameType
  <2>3. next = [function |-> last.function, block |-> last.block, index |-> last.index + 1,
                again |-> last.again]
    BY <2>1, <2>2
  <2> HIDE DEF next
  <2> QED BY <2>1, <2>2, <2>3 DEF FrameRecord
<1> HIDE DEF next, past
<1>5. Last(past) = next
  BY <1>2, <1>3, <1>4, StackPops
<1>6. S!Last(past).function = f
  BY <1>4, <1>5 DEF S!Last, Last
<1>7. S!Within(past, block, again) = Append(past, S!Frame(f, block, 0, again))
  BY <1>6, Zenon DEF S!Within
<1> QED BY <1>1, <1>7 DEF past

\* An if, either way.
LEMMA IfSimulates ==
    ASSUME KInv, If
    PROVE  Simulates
<1>1. Fetches("If")
  BY DEF If
<1>2. PICK block \in {Ix.then, Ix.else} :
        Suspend(Resched(EnterBlock(Fetched, block)), OverBp(Fetched))
  BY DEF If
<1>3. callstack' = Resched(EnterBlock(Fetched, block))
  BY <1>2, SuspendLeaves
<1>4. /\ Current \in KeptActivation /\ Fetched \in KeptActivation
      /\ FetchedWell(Current, Fetched)
      /\ Ix \in Op /\ Ix.op = "If" /\ Ix = OpAt(Current, PendingIp(Current).ip)
      /\ Left \in Seq(FrameRecord) /\ Left # << >>
      /\ S!NextOp(Left) = Ix /\ FramesOf(Fetched) = S!Past(Left)
      /\ Last(Left).function = Fetched.function
  BY <1>1, WorkParts
<1>5. block \in BlockId
  BY <1>2, <1>4, OpFields
<1>6. /\ EnterBlock(Fetched, block) \in KeptActivation
      /\ FramesOf(EnterBlock(Fetched, block)) =
           Append(FramesOf(Fetched), S!Frame(Fetched.function, block, 0, 0))
  BY <1>2, <1>4, <1>5, IfEnters
<1>7. FramesOf(EnterBlock(Fetched, block)) = S!Within(S!Past(Left), block, 0)
  BY <1>4, <1>6, WithinIs
<1>8. callstack # << >>
  BY <1>1 DEF Fetches
<1>9. /\ Resched(EnterBlock(Fetched, block)) \in Seq(KeptActivation)
      /\ CallsOf(Resched(EnterBlock(Fetched, block))) =
           S!Under(Below, S!Within(S!Past(Left), block, 0))
  BY <1>6, <1>7, <1>8, ReschedLeaves
<1>10. S!Outcomes(Below, Left) =
         {S!Under(Below, S!Within(S!Past(Left), to, 0)) : to \in {Ix.then, Ix.else}}
  BY <1>4, OutcomesAre
<1>11. S!Under(Below, S!Within(S!Past(Left), block, 0)) \in S!Outcomes(Below, Left)
  BY <1>2, <1>10
<1> QED BY <1>1, <1>3, <1>9, <1>11, WorkSimulates

\* A while.true, tested either way or stopped before.
LEMMA WhileSimulates ==
    ASSUME KInv, While
    PROVE  Simulates
<1>1. Fetches("While")
  BY DEF While
<1>2. /\ Current \in KeptActivation /\ Fetched \in KeptActivation
      /\ FetchedWell(Current, Fetched) /\ Continues(Current, Fetched)
      /\ Ix \in Op /\ Ix.op = "While" /\ Ix = OpAt(Current, PendingIp(Current).ip)
      /\ Left \in Seq(FrameRecord) /\ Left # << >>
      /\ S!NextOp(Left) = Ix
      /\ Last(Left).function = Fetched.function
  BY <1>1, WorkParts
<1>3. Ix.body \in BlockId
  BY <1>2, OpFields
<1>4. PICK entered : entered = EnterWhileLoop(Fetched, Ix.body)
  OBVIOUS
<1>5. BreakBefore \/ callstack' = Resched(Fetched) \/ callstack' = Resched(entered)
  BY <1>4, SuspendLeaves DEF While
<1>6. CASE BreakBefore
  BY <1>1, <1>6, BreakBeforeSimulates
<1>7. CASE callstack' = Resched(Fetched)
  BY <1>1, <1>7, PastSimulates
<1>8. CASE callstack' = Resched(entered)
  <2>1. /\ entered \in KeptActivation
        /\ FramesOf(entered) =
             Append(FramesOf(StepBack(Fetched)), S!Frame(Fetched.function, Ix.body, 0, 0))
    BY <1>2, <1>3, <1>4, WhileEnters
  <2>2. FramesOf(StepBack(Fetched)) = Left
    BY <1>2, StepBackRestores DEF Left
  <2>3. FramesOf(entered) = S!Within(Left, Ix.body, 0)
    BY <1>2, <2>1, <2>2, WithinIs
  <2>4. callstack # << >>
    BY <1>1 DEF Fetches
  <2>5. /\ Resched(entered) \in Seq(KeptActivation)
        /\ CallsOf(Resched(entered)) = S!Under(Below, S!Within(Left, Ix.body, 0))
    BY <2>1, <2>3, <2>4, ReschedLeaves
  <2>6. S!Under(Below, S!Within(Left, Ix.body, 0)) \in S!Outcomes(Below, Left)
    BY <1>2, OutcomesAre
  <2> QED BY <1>1, <1>8, <2>5, <2>6, WorkSimulates
<1> QED BY <1>5, <1>6, <1>7, <1>8

\* A repeat entered, or stopped before.
LEMMA RepeatSimulates ==
    ASSUME KInv, Repeat
    PROVE  Simulates
<1>1. Fetches("Repeat")
  BY DEF Repeat
<1>2. /\ Current \in KeptActivation /\ Fetched \in KeptActivation
      /\ FetchedWell(Current, Fetched)
      /\ Ix \in Op /\ Ix.op = "Repeat" /\ Ix = OpAt(Current, PendingIp(Current).ip)
      /\ Left \in Seq(FrameRecord) /\ Left # << >>
      /\ S!NextOp(Left) = Ix /\ FramesOf(Fetched) = S!Past(Left)
      /\ Last(Left).function = Fetched.function
  BY <1>1, WorkParts
<1>3. Ix.body \in BlockId /\ Ix.n \in Nat
  BY <1>2, OpFields
<1>4. PICK entered : entered = EnterRepeat(Fetched, Ix.body, Ix.n)
  OBVIOUS
<1>5. BreakBefore \/ callstack' = Resched(entered)
  BY <1>4, SuspendLeaves DEF Repeat
<1>6. CASE BreakBefore
  BY <1>1, <1>6, BreakBeforeSimulates
<1>7. CASE callstack' = Resched(entered)
  <2>1. /\ entered \in KeptActivation
        /\ FramesOf(entered) =
             Append(FramesOf(Fetched), S!Frame(Fetched.function, Ix.body, 0, Ix.n))
    BY <1>2, <1>3, <1>4, RepeatEnters
  <2>2. FramesOf(entered) = S!Within(S!Past(Left), Ix.body, Ix.n)
    BY <1>2, <2>1, WithinIs
  <2>3. callstack # << >>
    BY <1>1 DEF Fetches
  <2>4. /\ Resched(entered) \in Seq(KeptActivation)
        /\ CallsOf(Resched(entered)) = S!Under(Below, S!Within(S!Past(Left), Ix.body, Ix.n))
    BY <2>1, <2>2, <2>3, ReschedLeaves
  <2>5. S!Under(Below, S!Within(S!Past(Left), Ix.body, Ix.n)) \in S!Outcomes(Below, Left)
    BY <1>2, OutcomesAre
  <2> QED BY <1>1, <1>7, <2>4, <2>5, WorkSimulates
<1> QED BY <1>5, <1>6, <1>7

\* A function that is called.
LEMMA CalledKept ==
    ASSUME RepeatsKeepCount, functions \in Programs, NEW id \in DOMAIN functions
    PROVE  /\ NewActivation(functions[id]) \in KeptActivation
           /\ FramesOf(NewActivation(functions[id])) = S!Call(functions[id])
BY LoadedFunctions, NewKept DEF RepeatsKeepCount

\* An activation made on top of the others.
LEMMA CallLeaves ==
    ASSUME RepeatsKeepCount, functions \in Programs, NEW id \in DOMAIN functions,
           NEW cs \in Seq(KeptActivation)
    PROVE  LET callee == NewActivation(functions[id])
           IN  /\ Append(cs, callee) \in Seq(KeptActivation)
               /\ CallsOf(Append(cs, callee)) = S!Under(CallsOf(cs), S!Call(functions[id]))
<1> DEFINE callee == NewActivation(functions[id])
<1>1. callee \in KeptActivation /\ FramesOf(callee) = S!Call(functions[id])
  BY CalledKept
<1> HIDE DEF callee
<1>2. Append(cs, callee) \in Seq(KeptActivation)
  BY <1>1, StackPush
<1>3. CallsOf(Append(cs, callee)) = S!Under(CallsOf(cs), FramesOf(callee))
  BY <1>1, CallsPush
<1> QED BY <1>1, <1>2, <1>3 DEF callee

\* A call, whether or not a breakpoint stops in the callee.
LEMMA ExecSimulates ==
    ASSUME RepeatsKeepCount, KInv, Exec
    PROVE  Simulates
<1>1. Fetches("Exec") /\ Ix.callee \in DOMAIN functions
  BY DEF Exec
<1>2. PICK cs : cs = Append(Resched(Fetched), NewActivation(functions[Ix.callee]))
  OBVIOUS
<1>3. callstack' = cs
  BY <1>2, SuspendLeaves DEF Exec
<1>4. /\ Fetched \in KeptActivation /\ Ix \in Op /\ Ix.op = "Exec"
      /\ S!NextOp(Left) = Ix /\ FramesOf(Fetched) = S!Past(Left)
  BY <1>1, WorkParts
<1>5. callstack # << >>
  BY <1>1 DEF Fetches
<1>6. /\ Resched(Fetched) \in Seq(KeptActivation)
      /\ CallsOf(Resched(Fetched)) = S!Under(Below, S!Past(Left))
  BY <1>4, <1>5, ReschedLeaves
<1>7. functions \in Programs
  BY DEF KInv, IInv, TypeOK
<1>8. /\ cs \in Seq(KeptActivation)
      /\ CallsOf(cs) = S!Under(CallsOf(Resched(Fetched)), S!Call(functions[Ix.callee]))
  BY <1>1, <1>2, <1>6, <1>7, CallLeaves
<1>9. CallsOf(cs) \in S!Outcomes(Below, Left)
  BY <1>1, <1>4, <1>6, <1>8, OutcomesAre
<1> QED BY <1>1, <1>3, <1>8, <1>9, WorkSimulates

\* A call of a function that is not loaded drops the caller.
LEMMA ExecUndefinedSimulates ==
    ASSUME KInv, ExecUndefined
    PROVE  Simulates
<1>1. Fetches("Exec") /\ Ix.callee \notin DOMAIN functions /\ callstack' = Front(callstack)
  BY DEF ExecUndefined
<1>2. /\ Front(callstack) \in Seq(KeptActivation) /\ Ix \in Op /\ Ix.op = "Exec"
      /\ S!NextOp(Left) = Ix
  BY <1>1, WorkParts
<1>3. S!Outcomes(Below, Left) = {Below}
  BY <1>1, <1>2, OutcomesAre
<1>4. CallsOf(Front(callstack)) \in S!Outcomes(Below, Left)
  BY <1>3 DEF Below
<1> QED BY <1>1, <1>2, <1>4, WorkSimulates

\* A breakpoint on a jump: the innermost call is lost.
LEMMA BreakOnJumpSimulates ==
    ASSUME KInv, BreakOnJump
    PROVE  Simulates
<1>1. callstack # << >> /\ Jumped # "Return" /\ BreaksOnJump /\ callstack' = Front(callstack)
  BY DEF BreakOnJump
<1>2. callstack \in Seq(KeptActivation)
  BY DEF KInv
<1>3. /\ Front(callstack) \in Seq(KeptActivation)
      /\ RemainingCalls # << >> /\ S!Front(RemainingCalls) = Below
  BY <1>1, <1>2, CallsTop DEF Jumped, Current, Below, RemainingCalls
<1>4. bp.kind \in {"StepOut", "Loop"}
  BY <1>1 DEF BreaksOnJump, StepBp, NoBreakpoint
<1>5. RemainingCalls' = Below
  BY <1>1 DEF RemainingCalls, Below
<1>6. S!LoseCall
  BY <1>3, <1>4, <1>5 DEF S!LoseCall
<1> QED BY <1>1, <1>3, <1>6 DEF S!Next, Simulates

\* Dropping an activation that returns.
LEMMA ReturnSimulates ==
    ASSUME KInv, callstack # << >>, Jumped = "Return", ReturnFrom(Front(callstack))
    PROVE  Simulates
<1>1. callstack \in Seq(KeptActivation) /\ callstack' = Front(callstack)
  BY DEF KInv, ReturnFrom
<1>2. Front(callstack) \in Seq(KeptActivation) /\ RemainingCalls = Below
  BY <1>1, CallsTop DEF Jumped, Current, Below, RemainingCalls
<1>3. RemainingCalls' = Below
  BY <1>1 DEF RemainingCalls, Below
<1>4. S!Idle
  BY <1>2, <1>3 DEF S!Idle
<1> QED BY <1>1, <1>2, <1>4 DEF S!Next, Simulates

\* The passes that execute no operation.
LEMMA OtherPassesSimulate ==
    ASSUME KInv, BudgetExceeded \/ Halt \/ Return \/ BreakOnJump \/ Unwind
    PROVE  Simulates
<1>1. CASE BudgetExceeded \/ Halt
  BY <1>1, IdleSimulates DEF BudgetExceeded, Halt
<1>2. CASE Return
  BY <1>2, ReturnSimulates DEF Return
<1>3. CASE BreakOnJump
  BY <1>3, BreakOnJumpSimulates
<1>4. CASE Unwind
  <2>1. callstack # << >>
    BY <1>4 DEF Unwind, KInv, IInv
  <2>2. CASE Jumped = "Return"
    BY <1>4, <2>1, <2>2, ReturnSimulates DEF Unwind
  <2>3. CASE Jumped # "Return"
    BY <1>4, <2>3, SuspendLeaves, IdleSimulates DEF Unwind
  <2> QED BY <2>2, <2>3
<1> QED BY <1>1, <1>2, <1>3, <1>4

\* The host can add a call and nothing else.
LEMMA HostSimulates ==
    ASSUME RepeatsKeepCount, KInv, Host
    PROVE  Simulates
<1>1. ASSUME NEW id \in DOMAIN functions, Invoke(id) PROVE Simulates
  <2>1. functions \in Programs /\ callstack \in Seq(KeptActivation)
    BY DEF KInv, IInv, TypeOK
  <2>2. callstack' = Append(callstack, NewActivation(functions[id]))
    BY <1>1 DEF Invoke
  <2>3. PICK cs : cs = Append(callstack, NewActivation(functions[id]))
    OBVIOUS
  <2>4. /\ cs \in Seq(KeptActivation)
        /\ CallsOf(cs) = S!Under(CallsOf(callstack), S!Call(functions[id]))
    BY <2>1, <2>3, CallLeaves
  <2>5. RemainingCalls' = CallsOf(cs)
    BY <2>2, <2>3 DEF RemainingCalls
  <2>6. S!Invoke
    BY <2>4, <2>5 DEF S!Invoke, RemainingCalls
  <2> QED BY <2>2, <2>3, <2>4, <2>6 DEF S!Next, Simulates
<1>2. CASE callstack' = callstack
  BY <1>2, IdleSimulates
<1>3. callstack' = callstack \/ \E id \in DOMAIN functions : Invoke(id)
  BY DEF Host, SetBreakpoint, ClearBreakpoint, SetMaxCycles, Resume
<1> QED BY <1>1, <1>2, <1>3

\* Every step keeps the invariant and is one of the structured program.
LEMMA NextSimulates ==
    ASSUME RepeatsKeepCount, KInv, [Next]_vars
    PROVE  KInv' /\ S!Next
<1>1. IInv'
  <2>1. IInv
    BY DEF KInv
  <2>2. CASE Next
    BY <2>1, <2>2, HostGood, RunGood DEF Next
  <2>3. CASE UNCHANGED vars
    BY <2>1, <2>3 DEF vars, IInv, TypeOK
  <2> QED BY <2>2, <2>3
<1>2. Simulates
  <2>1. CASE Host
    BY <2>1, HostSimulates
  <2>2. CASE Run
    BY <2>2, SimpleOpsSimulate, IfSimulates, WhileSimulates, RepeatSimulates, ExecSimulates,
       ExecUndefinedSimulates, OtherPassesSimulate DEF Run
  <2>3. CASE UNCHANGED vars
    BY <2>3, IdleSimulates DEF vars
  <2> QED BY <2>1, <2>2, <2>3 DEF Next
<1> QED BY <1>1, <1>2 DEF KInv, Simulates

(***************************************************************************)
(* The interpreter loop executes the structured program: whatever the      *)
(* breakpoints, the budgets and the calls of the host, each step of the    *)
(* emulator is one operation of the program or none, in the program's      *)
(* order.  The hypothesis is about the programs: a repeat's body, and the  *)
(* blocks nested in it, do not end in an if or a repeat, after which the   *)
(* counters of next_instruction no longer belong to the pointers.          *)
(***************************************************************************)
THEOREM Implementation ==
    ASSUME RepeatsKeepCount
    PROVE  Spec => ImplementsStructured
<1>1. Init => KInv
  <2>1. << >> \in Seq(KeptActivation)
    BY EmptySeq
  <2> QED BY <2>1, InitGood DEF Init, KInv
<1>2. Init => S!Init
  BY CallsEmpty DEF Init, S!Init, RemainingCalls
<1>3. KInv /\ [Next]_vars => KInv' /\ [S!Next]_RemainingCalls
  BY NextSimulates
<1> QED BY <1>1, <1>2, <1>3, PTL DEF Spec, ImplementsStructured, S!Spec

=============================================================================

---------------------------- MODULE ClosureProofs ----------------------------
(***************************************************************************)
(* Proofs about the up values of Closure, for functions of any size, any   *)
(* number of calls and of up values.                                       *)
(***************************************************************************)
EXTENDS Closure, SequenceTheorems, TLAPS

(* The frames on the stack, that of the function that executes the last.  A
   call makes the old ones its records, a return has the records left. *)
Levels == Append(records, Level(1))

End(l) == l.fp + Locals + l.offset

(* Frames lie behind one another and fill the stack, and an up value that is
   open points into it. *)
Bounded ==
  /\ \A d, e \in 1 .. Len(Levels) :
       /\ d < e => End(Levels[d]) <= Levels[e].fp
       /\ d + 1 = e => End(Levels[d]) = Levels[e].fp
  /\ Len(stack) = fp + Locals + offset
  /\ \A j \in DOMAIN upValues : ~ upValues[j].closed => upValues[j].slot < Len(stack)

Place == Variable \cup {Extra}
UpValue == [closed : BOOLEAN, slot : Nat, copy : Place, of : Place, for : SUBSET Variable]

-----------------------------------------------------------------------------
LEMMA ConstantTypes ==
  /\ Formals \in Nat /\ Locals \in Nat /\ Formals <= Locals
  /\ MaxArgs \in Nat /\ MaxCalls \in Nat /\ MaxUpValues \in Nat
BY ClosureConstantsOK

LEMMA FunctionIsSeq ==
  ASSUME NEW n \in Nat, NEW S, NEW f \in [1 .. n -> S]
  PROVE  f \in Seq(S) /\ Len(f) = n /\ DOMAIN f = 1 .. n
OBVIOUS

(* What setLocalFrame puts on the stack. *)
LEMMA LayoutType ==
  ASSUME NEW call \in Nat, NEW off \in Nat
  PROVE  /\ Layout(call, off) \in Seq(Place)
         /\ Len(Layout(call, off)) = Locals + off
<1> USE ConstantTypes
<1>1. ASSUME NEW j \in 1 .. Locals + off
      PROVE  Layout(call, off)[j] \in Place
  <2>1. CASE j <= Formals
    <3>1. Layout(call, off)[j] = Var(call, j - 1)
      BY <1>1, <2>1 DEF Layout
    <3>2. j - 1 \in 0 .. Locals - 1
      BY <1>1, <2>1
    <3>3. QED
      BY <3>1, <3>2 DEF Var, Place, Variable
  <2>2. CASE ~ j <= Formals /\ j <= Formals + off
    BY <1>1, <2>2 DEF Layout, Place
  <2>3. CASE ~ j <= Formals /\ ~ j <= Formals + off
    <3>1. Layout(call, off)[j] = Var(call, j - 1 - off)
      BY <1>1, <2>3 DEF Layout
    <3>2. j - 1 - off \in 0 .. Locals - 1
      BY <1>1, <2>3
    <3>3. QED
      BY <3>1, <3>2 DEF Var, Place, Variable
  <2>4. QED
    BY <2>1, <2>2, <2>3
<1>2. Locals + off \in Nat
  OBVIOUS
<1>3. Layout(call, off) \in [1 .. Locals + off -> Place]
  BY <1>1 DEF Layout
<1>4. QED
  BY <1>2, <1>3, FunctionIsSeq

LEMMA LevelsAre ==
  ASSUME ClosureTypeOK
  PROVE  /\ Levels \in Seq(Frame) /\ Len(Levels) = Len(records) + 1
         /\ Len(records) \in Nat
         /\ Levels[Len(records) + 1] = Level(1)
         /\ \A d \in 1 .. Len(records) : Levels[d] = records[d]
BY DEF ClosureTypeOK, Levels

LEMMA LevelOf ==
  ASSUME ClosureTypeOK, NEW k \in 1 .. Len(records) + 1
  PROVE  /\ Level(k) = Levels[Len(records) + 2 - k]
         /\ Level(k) \in Frame
         /\ \A i : UpValueStackIndex(i, k) = i + Level(k).fp
<1>1. Level(k) = Levels[Len(records) + 2 - k]
  <2>1. CASE k = 1
    BY <2>1, LevelsAre
  <2>2. CASE k # 1
    <3>1. Len(records) + 2 - k \in 1 .. Len(records) /\ Len(records) - k + 2 = Len(records) + 2 - k
      BY <2>2, LevelsAre
    <3>2. QED
      BY <2>2, <3>1, LevelsAre DEF Level
  <2>3. QED
    BY <2>1, <2>2
<1>2. Len(records) + 2 - k \in 1 .. Len(Levels)
  BY LevelsAre
<1>3. QED
  BY <1>1, <1>2, LevelsAre, ElementOfSeq DEF Level, UpValueStackIndex

(* Every frame is on the stack. *)
LEMMA LevelInStack ==
  ASSUME ClosureTypeOK, Bounded, NEW d \in 1 .. Len(Levels)
  PROVE  /\ Levels[d] \in Frame /\ End(Levels[d]) \in Nat
         /\ End(Levels[d]) <= Len(stack)
         /\ d = Len(Levels) => End(Levels[d]) = Len(stack)
<1> USE ConstantTypes
<1>1. /\ Levels \in Seq(Frame) /\ Len(Levels) \in Nat
      /\ Len(Levels) \in 1 .. Len(Levels) /\ Levels[Len(Levels)] = Level(1)
  BY LevelsAre
<1>2. Levels[d] \in Frame
  BY <1>1, ElementOfSeq
<1>3. End(Levels[d]) \in Nat
  BY <1>2 DEF End, Frame
<1>4. /\ Level(1).fp = fp /\ Level(1).offset = offset
      /\ fp \in Nat /\ offset \in Nat
  BY DEF ClosureTypeOK, Level, Frame
<1>5. CASE d = Len(Levels)
  BY <1>1, <1>2, <1>3, <1>4, <1>5 DEF Bounded, End
<1>6. CASE d # Len(Levels)
  <2>1. End(Levels[d]) <= fp
    BY <1>1, <1>4, <1>6 DEF Bounded
  <2>2. QED
    BY <1>2, <1>3, <1>4, <1>6, <2>1 DEF Bounded
<1>7. QED
  BY <1>5, <1>6

(* The step of a call, as one of the sequences. *)
LEMMA CallIs ==
  ASSUME ClosureTypeOK, Bounded, NEW around \in made, NEW n \in 0 .. MaxArgs,
         Call(around, n)
  PROVE  LET new == Layout(calls + 1, Offset(n))
             l == [fp |-> Len(stack), offset |-> Offset(n),
                   self |-> Append(around, calls + 1)]
         IN /\ records' = Levels /\ Levels' = Append(Levels, l) /\ l \in Frame
            /\ Level(1)' = l
            /\ stack' = stack \o new /\ stack' \in Seq(Place)
            /\ Len(stack) \in Nat /\ Offset(n) \in Nat
            /\ Len(stack') = Len(stack) + Locals + Offset(n)
            /\ \A a \in 1 .. Len(stack) : stack'[a] = stack[a]
            /\ \A a \in 1 .. Locals + Offset(n) : stack'[Len(stack) + a] = new[a]
            /\ calls' = calls + 1 /\ calls' \in 0 .. MaxCalls
            /\ made' = made /\ upValues' = upValues
<1> DEFINE new == Layout(calls + 1, Offset(n))
           l == [fp |-> Len(stack), offset |-> Offset(n),
                 self |-> Append(around, calls + 1)]
<1> USE ConstantTypes
<1>1. Offset(n) \in Nat
  BY DEF Offset
<1>2. calls \in Nat /\ calls + 1 \in 0 .. MaxCalls
  BY DEF ClosureTypeOK, Call
<1>3. new \in Seq(Place) /\ Len(new) = Locals + Offset(n)
  <2>1. calls + 1 \in Nat
    BY <1>2
  <2>2. QED
    BY ONLY <1>1, <2>1, LayoutType DEF new
<1>4. stack \in Seq(Place) /\ Len(stack) \in Nat
  BY DEF ClosureTypeOK, Place
<1>5. stack' = stack \o new
  BY DEF Call
<1> HIDE DEF new
<1>6. /\ stack' \in Seq(Place) /\ Len(stack') = Len(stack) + Locals + Offset(n)
      /\ \A a \in 1 .. Len(stack) : stack'[a] = stack[a]
      /\ \A a \in 1 .. Locals + Offset(n) : stack'[Len(stack) + a] = new[a]
  <2>1. /\ stack \o new \in Seq(Place)
        /\ Len(stack \o new) = Len(stack) + Len(new)
        /\ \A a \in 1 .. Len(stack) + Len(new) :
             (stack \o new)[a] = IF a <= Len(stack) THEN stack[a] ELSE new[a - Len(stack)]
    BY ONLY <1>3, <1>4, ConcatProperties
  <2> DEFINE m == Locals + Offset(n)
  <2>2. m \in Nat /\ Len(new) = m
    BY <1>1, <1>3
  <2>3. \A a \in 1 .. Len(stack) : stack'[a] = stack[a]
    BY <1>4, <1>5, <2>1, <2>2
  <2>4. \A a \in 1 .. m : stack'[Len(stack) + a] = new[a]
    <3> HIDE DEF m
    <3> QED BY <1>4, <1>5, <2>1, <2>2
  <2>5. QED
    BY <1>1, <1>4, <1>5, <2>1, <2>2, <2>3, <2>4
<1>7. around \in Seq(Nat)
  BY DEF ClosureTypeOK
<1>8. l \in Frame
  BY <1>1, <1>2, <1>4, <1>7 DEF Frame
<1>9. records' = Levels /\ Level(1)' = l
  BY DEF Call, Levels, Level
<1>10. Levels' = Append(Levels, l)
  BY <1>9 DEF Levels
<1>11. calls' = calls + 1 /\ made' = made /\ upValues' = upValues
  BY DEF Call
<1>12. QED
  BY <1>1, <1>2, <1>4, <1>5, <1>6, <1>8, <1>9, <1>10, <1>11 DEF new

(* The step of a return. *)
LEMMA ReturnIs ==
  ASSUME ClosureTypeOK, Bounded, Return
  PROVE  LET caller == records[Len(records)] IN
         /\ Len(records) \in Nat /\ Len(records) > 0
         /\ caller \in Frame /\ Level(1)' = caller
         /\ records' \in Seq(Frame) /\ Len(records') = Len(records) - 1
         /\ Len(Levels') = Len(records)
         /\ \A d \in 1 .. Len(records) : Levels'[d] = Levels[d]
         /\ End(caller) = fp /\ fp \in Nat /\ Locals + offset \in Nat
         /\ stack' \in Seq(Place) /\ Len(stack') = fp
         /\ Len(stack) = fp + Locals + offset
         /\ \A a \in 1 .. fp : stack'[a] = stack[a]
         /\ made' = made /\ calls' = calls
<1> DEFINE caller == records[Len(records)]
           n == Len(records)
<1> USE ConstantTypes
<1>1. /\ records \in Seq(Frame) /\ stack \in Seq(Place) /\ Level(1) \in Frame
      /\ Len(stack) \in Nat /\ n \in Nat
  BY DEF ClosureTypeOK, Place
<1>2. n > 0
  BY <1>1, EmptySeq DEF Return
<1>3. caller \in Frame
  BY <1>1, <1>2
<1>4. fp \in Nat /\ offset \in Nat /\ Level(1).fp = fp
  BY <1>1 DEF Level, Frame
<1>5. Level(1)' = caller
  <2>1. fp' = caller.fp /\ offset' = caller.offset /\ self' = caller.self
    BY DEF Return
  <2>2. QED
    BY <1>3, <2>1 DEF Level, Frame
<1>6. records' = SubSeq(records, 1, n - 1)
  BY DEF Return
<1>7. /\ records' \in Seq(Frame) /\ Len(records') = n - 1
      /\ \A d \in 1 .. n - 1 : records'[d] = records[d]
  <2>1. \A i \in 1 .. n - 1 : records[i] \in Frame
    BY <1>1
  <2>2. QED
    <3> DEFINE m == n - 1
    <3>1. m \in Int /\ 1 \in Int /\ m >= 0
      BY <1>1, <1>2
    <3>2. /\ SubSeq(records, 1, m) \in Seq(Frame)
          /\ Len(SubSeq(records, 1, m)) = IF 1 <= m THEN m - 1 + 1 ELSE 0
          /\ \A i \in 1 .. m - 1 + 1 : SubSeq(records, 1, m)[i] = records[1 + i - 1]
      <4> HIDE DEF m
      <4> QED BY ONLY <2>1, <3>1, SubSeqProperties DEF m
    <3>3. Len(SubSeq(records, 1, m)) = m /\ \A i \in 1 .. m : SubSeq(records, 1, m)[i] = records[i]
      <4> HIDE DEF m
      <4> QED BY ONLY <3>1, <3>2
    <3>4. QED
      BY <1>6, <3>2, <3>3
<1>8. Len(Levels') = n /\ \A d \in 1 .. n : Levels'[d] = records[d]
  <2>1. Levels' = Append(records', caller)
    BY <1>5 DEF Levels
  <2>2. Len(Levels') = n /\ Levels'[n] = caller /\ \A d \in 1 .. n - 1 : Levels'[d] = records'[d]
    BY <1>2, <1>3, <1>7, <2>1
  <2>3. QED
    BY <1>2, <1>7, <2>2
<1>9. \A d \in 1 .. n : Levels'[d] = Levels[d]
  BY <1>8, LevelsAre
<1>10. End(caller) = fp /\ Len(stack) = fp + Locals + offset
  <2>1. n \in 1 .. Len(Levels) /\ n + 1 \in 1 .. Len(Levels) /\ Levels[n] = caller
        /\ Levels[n + 1] = Level(1)
    BY <1>2, LevelsAre
  <2>2. QED
    BY <1>1, <1>4, <2>1 DEF Bounded
<1>11. stack' = SubSeq(stack, 1, fp)
  <2>1. stack' = SubSeq(stack, 1, Len(stack) - (Locals + offset))
    BY DEF Return
  <2>2. Len(stack) - (Locals + offset) = fp
    BY <1>4, <1>10
  <2>3. QED
    BY <2>1, <2>2
<1>12. stack' \in Seq(Place) /\ Len(stack') = fp /\ \A a \in 1 .. fp : stack'[a] = stack[a]
  <2>1. \A i \in 1 .. fp : stack[i] \in Place
    BY <1>1, <1>4, <1>10
  <2>2. QED
    BY <1>4, <1>11, <2>1, SubSeqProperties
<1>13. made' = made /\ calls' = calls
  BY DEF Return
<1>14. Locals + offset \in Nat
  BY <1>4
<1>15. QED
  BY <1>1, <1>2, <1>3, <1>4, <1>5, <1>7, <1>8, <1>9, <1>10, <1>12, <1>13, <1>14

(* The other steps leave the frames alone. *)
LEMMA FramesUntouched ==
  ASSUME UNCHANGED <<stack, fp, offset, self, records>>
  PROVE  Levels' = Levels /\ Level(1)' = Level(1)
BY DEF Levels, Level

(* A variable that is captured has a place on the stack. *)
LEMMA CaptureInRange ==
  ASSUME ClosureTypeOK, Bounded, NEW i \in 0 .. Locals - 1,
         NEW k \in 1 .. Len(records) + 1
  PROVE  /\ UpValueStackIndex(i, k) = Level(k).fp + i
         /\ UpValueStackIndex(i, k) \in Nat
         /\ UpValueStackIndex(i, k) < Len(stack)
         /\ stack[UpValueStackIndex(i, k) + 1] \in Place
<1> DEFINE d == Len(records) + 2 - k
           l == Levels[d]
<1> USE ConstantTypes
<1>1. d \in 1 .. Len(records) + 1 /\ Len(Levels) = Len(records) + 1 /\ Len(records) \in Nat
  BY LevelsAre
<1>2. Level(k) = l /\ l \in Frame /\ UpValueStackIndex(i, k) = i + l.fp
  BY LevelOf
<1>3. End(l) \in Nat /\ End(l) <= Len(stack) /\ l.fp \in Nat /\ l.offset \in Nat
  BY <1>1, <1>2, LevelInStack DEF Frame
<1> DEFINE p == UpValueStackIndex(i, k)
<1>4. p = l.fp + i /\ p \in Nat /\ p < Len(stack)
  <2>1. Len(stack) \in Nat
    BY DEF ClosureTypeOK
  <2>2. l.fp + Locals + l.offset <= Len(stack)
    BY <1>3 DEF End
  <2>3. p = l.fp + i
    BY <1>2, <1>3
  <2> HIDE DEF l, p
  <2>4. QED
    BY <1>3, <2>1, <2>2, <2>3, SMTT(30)
<1>5. stack \in Seq(Place) /\ Len(stack) \in Nat
  BY DEF ClosureTypeOK, Place
<1>6. stack[p + 1] \in Place
  <2> HIDE DEF p
  <2>1. p + 1 \in 1 .. Len(stack)
    BY <1>4, <1>5
  <2>2. QED
    BY <1>5, <2>1, ElementOfSeq
<1>7. QED
  BY <1>2, <1>4, <1>6

(* The up values after a variable is captured. *)
LEMMA NewUpValueType ==
  ASSUME ClosureTypeOK, NEW slot \in Nat, NEW v \in Variable,
         stack[slot + 1] \in Place, upValues' = NewUpValue(slot, v)
  PROVE  /\ upValues' \in Seq(UpValue)
         /\ slot < Len(stack) /\ (\A j \in DOMAIN upValues :
                  ~ upValues[j].closed => upValues[j].slot < Len(stack))
              => \A j \in DOMAIN upValues' :
                  ~ upValues'[j].closed => upValues'[j].slot < Len(stack)
<1>1. upValues \in Seq(UpValue)
  BY DEF ClosureTypeOK, UpValue, Place
<1>2. Len(upValues) \in Nat /\ DOMAIN upValues = 1 .. Len(upValues)
      /\ \A j \in DOMAIN upValues : upValues[j] \in UpValue
  BY <1>1
<1>3. CASE \E j \in DOMAIN upValues : IsAt(upValues[j], slot)
  <2> DEFINE f(j) == IF IsAt(upValues[j], slot)
                     THEN [upValues[j] EXCEPT !.for = @ \cup {v}] ELSE upValues[j]
  <2>1. upValues' = [j \in 1 .. Len(upValues) |-> f(j)]
    BY <1>2, <1>3 DEF NewUpValue
  <2>2. \A j \in 1 .. Len(upValues) : f(j) \in UpValue /\ f(j).closed = upValues[j].closed
                                  /\ f(j).slot = upValues[j].slot
    BY <1>2 DEF UpValue
  <2> HIDE DEF f
  <2>3. upValues' \in [1 .. Len(upValues) -> UpValue]
    BY <2>1, <2>2
  <2>4. upValues' \in Seq(UpValue) /\ DOMAIN upValues' = 1 .. Len(upValues)
    BY <1>2, <2>3, FunctionIsSeq
  <2>5. QED
    BY <1>2, <2>1, <2>2, <2>4
<1>4. CASE ~ \E j \in DOMAIN upValues : IsAt(upValues[j], slot)
  <2>1. upValues' = Append(upValues, OpenAt(slot, v))
    BY <1>4 DEF NewUpValue
  <2>2. OpenAt(slot, v) \in UpValue /\ OpenAt(slot, v).slot = slot
    BY DEF OpenAt, UpValue, Place
  <2>3. QED
    BY <1>1, <1>2, <2>1, <2>2
<1>5. QED
  BY <1>3, <1>4

(* Who captures what: the variable the program's text says. *)
LEMMA CaptureIs ==
  ASSUME ClosureTypeOK, NEW i \in 0 .. Locals - 1, NEW k \in 1 .. MaxCalls + 1,
         Capture(i, k)
  PROVE  /\ k \in 1 .. Len(records) + 1
         /\ Len(self) - k + 1 \in 1 .. Len(self)
         /\ self \in Seq(Nat) /\ self[Len(self) - k + 1] \in Nat
         /\ Var(self[Len(self) - k + 1], i) \in Variable
         /\ upValues' = NewUpValue(UpValueStackIndex(i, k), Var(self[Len(self) - k + 1], i))
<1>1. self \in Seq(Nat) /\ Len(self) \in Nat
  BY DEF ClosureTypeOK, Level, Frame
<1>2. k <= Len(self) /\ k <= Len(records) + 1 /\ Len(records) \in Nat
  BY DEF Capture, ClosureTypeOK
<1>3. k \in 1 .. Len(records) + 1 /\ Len(self) - k + 1 \in 1 .. Len(self)
  BY <1>1, <1>2
<1>4. self[Len(self) - k + 1] \in Nat
  BY <1>1, <1>3, ElementOfSeq
<1>5. QED
  BY <1>1, <1>3, <1>4 DEF Capture, Var, Variable

(* The up values after some have been closed. *)
LEMMA CloseType ==
  ASSUME ClosureTypeOK, Bounded, NEW f \in Nat, CloseUpValues(f)
  PROVE  /\ upValues' \in Seq(UpValue)
         /\ DOMAIN upValues' = DOMAIN upValues
         /\ \A j \in DOMAIN upValues :
              LET u == upValues[j] IN
              /\ u \in UpValue
              /\ Closes(u, f) =>
                   /\ upValues'[j].closed /\ upValues'[j].of = u.of
                   /\ upValues'[j].copy = stack[u.slot + 1]
              /\ ~ Closes(u, f) => upValues'[j] = u
<1> DEFINE g(j) ==
      LET u == upValues[j] IN
      IF Closes(u, f) THEN ClosedNow(u) ELSE u
<1>1. /\ upValues \in Seq(UpValue) /\ Len(upValues) \in Nat
      /\ DOMAIN upValues = 1 .. Len(upValues)
      /\ \A j \in DOMAIN upValues : upValues[j] \in UpValue
  <2>1. upValues \in Seq(UpValue)
    BY DEF ClosureTypeOK, UpValue, Place
  <2>2. QED
    BY <2>1
<1>2. stack \in Seq(Place) /\ Len(stack) \in Nat
  BY DEF ClosureTypeOK, Place
<1>3. upValues' = [j \in 1 .. Len(upValues) |-> g(j)]
  BY <1>1 DEF CloseUpValues
<1>4. ASSUME NEW j \in 1 .. Len(upValues) PROVE g(j) \in UpValue
  <2>1. CASE Closes(upValues[j], f)
    <3>1. upValues[j] \in UpValue /\ ~ upValues[j].closed
      BY <1>1, <2>1 DEF Closes
    <3>2. upValues[j].slot < Len(stack) /\ upValues[j].slot \in Nat
      BY <1>1, <3>1 DEF Bounded, UpValue
    <3>3. stack[upValues[j].slot + 1] \in Place
      <4>1. upValues[j].slot + 1 \in 1 .. Len(stack)
        BY <1>2, <3>2
      <4>2. QED
        BY <1>2, <4>1, ElementOfSeq
    <3>4. QED
      BY <1>1, <2>1, <3>3 DEF UpValue, ClosedNow
  <2>2. CASE ~ Closes(upValues[j], f)
    BY <1>1, <2>2
  <2>3. QED
    BY <2>1, <2>2
<1>5. upValues' \in [1 .. Len(upValues) -> UpValue]
  <2> HIDE DEF g
  <2> QED BY <1>3, <1>4
<1>6. upValues' \in Seq(UpValue) /\ DOMAIN upValues' = DOMAIN upValues
  BY <1>1, <1>5, FunctionIsSeq
<1>7. ASSUME NEW j \in DOMAIN upValues, Closes(upValues[j], f)
      PROVE  /\ upValues'[j].closed /\ upValues'[j].of = upValues[j].of
             /\ upValues'[j].copy = stack[upValues[j].slot + 1]
  <2>1. upValues'[j] = ClosedNow(upValues[j]) /\ upValues[j] \in UpValue
    BY <1>1, <1>3, <1>7
  <2>2. QED
    BY <2>1 DEF ClosedNow, UpValue
<1>8. QED
  BY <1>1, <1>3, <1>6, <1>7

LEMMA InitTypes == Init => ClosureTypeOK /\ Bounded
<1> SUFFICES ASSUME Init PROVE ClosureTypeOK /\ Bounded
  OBVIOUS
<1> USE ConstantTypes
<1>1. stack \in Seq(Place) /\ Len(stack) = Locals
  BY LayoutType DEF Init
<1>2. Level(1) \in Frame
  BY DEF Init, Level, Frame
<1>3. ClosureTypeOK
  BY <1>1, <1>2 DEF Init, ClosureTypeOK, Place
<1>4. Len(Levels) = 1
  BY <1>3, LevelsAre DEF Init
<1>5. \A d, e \in 1 .. Len(Levels) : ~ d < e /\ d + 1 # e
  BY <1>4
<1>6. QED
  BY <1>1, <1>3, <1>5 DEF Init, Bounded

(* Every action leaves the variables well typed and the frames in order,
   whatever programs do. *)
LEMMA TypeStep ==
  ClosureTypeOK /\ Bounded /\ [Next]_vars => ClosureTypeOK' /\ Bounded'
<1> SUFFICES ASSUME ClosureTypeOK, Bounded, [Next]_vars
             PROVE  ClosureTypeOK' /\ Bounded'
  OBVIOUS
<1> USE ConstantTypes
<1>1. /\ stack \in Seq(Place) /\ Level(1) \in Frame /\ records \in Seq(Frame)
      /\ made \subseteq Seq(Nat) /\ upValues \in Seq(UpValue) /\ calls \in 0 .. MaxCalls
      /\ Len(stack) \in Nat /\ self \in Seq(Nat)
  BY DEF ClosureTypeOK, Place, UpValue, Level, Frame
<1> DEFINE Typed ==
             /\ stack \in Seq(Place) /\ Level(1) \in Frame /\ records \in Seq(Frame)
             /\ made \subseteq Seq(Nat) /\ upValues \in Seq(UpValue)
             /\ calls \in 0 .. MaxCalls
<1>t. Typed' => ClosureTypeOK'
  BY DEF ClosureTypeOK, Place, UpValue
<1>2. ASSUME NEW around \in made, NEW n \in 0 .. MaxArgs, Call(around, n)
      PROVE  ClosureTypeOK' /\ Bounded'
  <2> DEFINE l == [fp |-> Len(stack), offset |-> Offset(n),
                   self |-> Append(around, calls + 1)]
  <2>1. /\ records' = Levels /\ Levels' = Append(Levels, l) /\ l \in Frame
        /\ Level(1)' = l /\ stack' \in Seq(Place)
        /\ Len(stack') = Len(stack) + Locals + Offset(n)
        /\ calls' \in 0 .. MaxCalls /\ made' = made /\ upValues' = upValues
        /\ Offset(n) \in Nat
    BY <1>2, CallIs
  <2>2. Typed'
    BY <1>1, <2>1, LevelsAre
  <2>3. fp' = Len(stack) /\ offset' = Offset(n)
    BY <1>2 DEF Call
  <2>4. ASSUME NEW d \in 1 .. Len(Levels'), NEW e \in 1 .. Len(Levels'), d < e
        PROVE  /\ End(Levels'[d]) <= Levels'[e].fp
               /\ d + 1 = e => End(Levels'[d]) = Levels'[e].fp
    <3>1. Levels \in Seq(Frame) /\ Len(Levels') = Len(Levels) + 1 /\ Len(Levels) \in Nat
      BY <2>1, LevelsAre
    <3>2. Levels'[d] = Levels[d] /\ d \in 1 .. Len(Levels)
      BY <2>1, <2>4, <3>1
    <3>3. CASE e \in 1 .. Len(Levels)
      BY <2>1, <2>4, <3>1, <3>2, <3>3 DEF Bounded
    <3>4. CASE e = Len(Levels) + 1
      <4>1. Levels'[e].fp = Len(stack)
        BY <2>1, <3>1, <3>4
      <4>2. /\ End(Levels[d]) <= Len(stack)
            /\ d + 1 = e => End(Levels[d]) = Len(stack)
        BY <3>1, <3>2, <3>4, LevelInStack
      <4>3. QED
        BY <3>2, <4>1, <4>2
    <3>5. QED
      BY <3>1, <3>3, <3>4
  <2>5. \A j \in DOMAIN upValues' : ~ upValues'[j].closed => upValues'[j].slot < Len(stack')
    <3>1. Len(stack) <= Len(stack') /\ Len(stack') \in Nat
      <4>1. /\ Len(stack) \in Nat /\ Offset(n) \in Nat /\ Locals \in Nat
            /\ Len(stack') = Len(stack) + Locals + Offset(n)
        BY <1>1, <2>1
      <4>2. QED
        BY ONLY <4>1
    <3>2. ASSUME NEW j \in DOMAIN upValues, ~ upValues[j].closed
          PROVE  upValues[j].slot < Len(stack')
      <4>1. upValues[j].slot \in Nat
        <5>1. upValues[j] \in UpValue
          BY <1>1
        <5>2. QED
          BY <5>1 DEF UpValue
      <4>2. upValues[j].slot < Len(stack)
        BY <3>2 DEF Bounded
      <4>3. QED
        BY <1>1, <2>1, <3>1, <4>1, <4>2
    <3>3. QED
      BY <2>1, <3>2
  <2>6. QED
    BY <1>t, <2>1, <2>2, <2>3, <2>4, <2>5, SMTT(30) DEF Bounded
<1>3. CASE MakeClosure
  <2>1. UNCHANGED <<stack, fp, offset, self, records, upValues, calls>>
    BY <1>3 DEF MakeClosure
  <2>2. Typed'
    BY <1>1, <1>3, <2>1, FramesUntouched DEF MakeClosure
  <2>3. QED
    BY <1>t, <2>1, <2>2, FramesUntouched DEF Bounded
<1>4. ASSUME NEW i \in 0 .. Locals - 1, NEW k \in 1 .. MaxCalls + 1, Capture(i, k)
      PROVE  ClosureTypeOK' /\ Bounded'
  <2>1. UNCHANGED <<stack, fp, offset, self, records, calls>> /\ made' = made \cup {self}
    BY <1>4 DEF Capture
  <2>2. /\ UpValueStackIndex(i, k) \in Nat /\ UpValueStackIndex(i, k) < Len(stack)
        /\ stack[UpValueStackIndex(i, k) + 1] \in Place
    BY <1>4, CaptureIs, CaptureInRange
  <2>3. /\ upValues' \in Seq(UpValue)
        /\ \A j \in DOMAIN upValues' : ~ upValues'[j].closed => upValues'[j].slot < Len(stack)
    BY <1>4, <2>2, CaptureIs, NewUpValueType DEF Bounded
  <2>4. Typed'
    BY <1>1, <2>1, <2>3, FramesUntouched
  <2>5. QED
    BY <1>t, <2>1, <2>3, <2>4, FramesUntouched DEF Bounded
<1>5. CASE Return
  <2> DEFINE caller == records[Len(records)]
  <2>1. /\ caller \in Frame /\ Level(1)' = caller
        /\ records' \in Seq(Frame) /\ Len(records) \in Nat
        /\ Len(Levels') = Len(records)
        /\ \A d \in 1 .. Len(records) : Levels'[d] = Levels[d]
        /\ End(caller) = fp /\ fp \in Nat
        /\ stack' \in Seq(Place) /\ Len(stack') = fp
        /\ made' = made /\ calls' = calls
    BY <1>5, ReturnIs
  <2>2. CloseUpValues(caller.fp) /\ caller.fp \in Nat
    BY <1>5, <2>1 DEF Return, Frame
  <2>3. /\ upValues' \in Seq(UpValue) /\ DOMAIN upValues' = DOMAIN upValues
        /\ \A j \in DOMAIN upValues :
             ~ upValues'[j].closed =>
               upValues'[j] = upValues[j] /\ ~ Closes(upValues[j], caller.fp)
               /\ upValues[j] \in UpValue
    BY <2>2, CloseType
  <2>4. Typed'
    BY <1>1, <2>1, <2>3
  <2>5. \A d, e \in 1 .. Len(Levels') :
          /\ d < e => End(Levels'[d]) <= Levels'[e].fp
          /\ d + 1 = e => End(Levels'[d]) = Levels'[e].fp
    <3>1. \A d \in 1 .. Len(records) : d \in 1 .. Len(Levels)
      BY <2>1, LevelsAre
    <3>2. QED
      BY <2>1, <3>1 DEF Bounded
  <2>6. Len(stack') = fp' + Locals + offset'
    <3>1. fp' = caller.fp /\ offset' = caller.offset
      BY <1>5 DEF Return
    <3>2. QED
      BY <2>1, <3>1 DEF End
  <2>7. \A j \in DOMAIN upValues' :
          ~ upValues'[j].closed => upValues'[j].slot < Len(stack')
    <3>1. ASSUME NEW j \in DOMAIN upValues, ~ upValues'[j].closed
          PROVE  upValues[j].slot < fp /\ upValues'[j] = upValues[j]
      <4>1. upValues'[j] = upValues[j] /\ ~ upValues[j].closed
            /\ ~ Closes(upValues[j], caller.fp) /\ upValues[j].slot \in Nat
        BY <2>3, <3>1 DEF UpValue
      <4>2. upValues[j].slot < caller.fp
        BY <2>2, <4>1 DEF Closes
      <4>3. caller.fp <= fp
        BY <2>1 DEF End, Frame
      <4>4. QED
        BY <2>1, <2>2, <4>1, <4>2, <4>3
    <3>2. QED
      BY <2>1, <2>3, <3>1
  <2>8. QED
    BY <1>t, <2>4, <2>5, <2>6, <2>7 DEF Bounded
<1>6. CASE UNCHANGED vars
  <2>1. UNCHANGED <<stack, fp, offset, self, records, upValues, calls, made>>
    BY <1>6 DEF vars
  <2>2. Typed'
    BY <1>1, <2>1, FramesUntouched
  <2>3. QED
    BY <1>t, <2>1, <2>2, FramesUntouched DEF Bounded
<1>7. QED
  BY <1>2, <1>3, <1>4, <1>5, <1>6 DEF Next

(* The variables keep their types, and no return or capture leaves the stack,
   whatever programs do. *)
THEOREM ClosureTypeCorrect == Spec => []ClosureTypeOK
<1>1. Spec => [](ClosureTypeOK /\ Bounded)
  BY InitTypes, TypeStep, PTL DEF Spec
<1>2. QED
  BY <1>1, PTL

-----------------------------------------------------------------------------
(* No variable has two places. *)
PlacesDiffer ==
  /\ \A a \in 1 .. Len(stack) : stack[a].call <= calls
  /\ \A a, b \in 1 .. Len(stack) :
       stack[a] = stack[b] /\ stack[a] \in Variable => a = b

(* What an up value stands for is what it was made of. *)
Keeps(u) ==
  IF u.closed THEN u.copy = u.of
  ELSE u.slot < Len(stack) /\ stack[u.slot + 1] = u.of

(* No place has two up values. *)
SlotsDiffer ==
  \A j, l \in DOMAIN upValues :
    ~ upValues[j].closed /\ IsAt(upValues[l], upValues[j].slot) => j = l

IInv ==
  /\ ClosureTypeOK /\ Bounded
  /\ PlacesDiffer
  /\ \A j \in DOMAIN upValues : Keeps(upValues[j])
  /\ SlotsDiffer

-----------------------------------------------------------------------------
(* What the frame of a call holds. *)
LEMMA LayoutHolds ==
  ASSUME NEW call \in Nat, NEW off \in Nat
  PROVE  /\ \A j \in 1 .. Locals + off :
              /\ Layout(call, off)[j] \in Variable => Layout(call, off)[j].call = call
              /\ Layout(call, off)[j].call <= call
         /\ \A j, k \in 1 .. Locals + off :
              Layout(call, off)[j] = Layout(call, off)[k]
              /\ Layout(call, off)[j] \in Variable => j = k
<1> DEFINE L == Layout(call, off)
           n == Locals + off
<1> USE ConstantTypes
<1>1. \A j \in 1 .. n : j <= Formals => L[j] = Var(call, j - 1)
  BY DEF Layout
<1>2. \A j \in 1 .. n : ~ j <= Formals /\ j <= Formals + off => L[j] = Extra
  BY DEF Layout
<1>3. \A j \in 1 .. n : ~ j <= Formals + off => L[j] = Var(call, j - 1 - off)
  BY DEF Layout
<1>0. \A i : Var(call, i).call = call /\ Var(call, i).i = i
  BY DEF Var
<1>4. Extra \notin Variable /\ Extra.call <= call /\ call <= call
  BY DEF Extra, Var, Variable
<1>5. n \in Nat
  OBVIOUS
<1> HIDE DEF L, n
<1>6. ASSUME NEW j \in 1 .. n
      PROVE  /\ L[j] \in Variable => L[j].call = call
             /\ L[j].call <= call
  <2>1. CASE j <= Formals
    BY <1>0, <1>1, <1>4, <2>1
  <2>2. CASE ~ j <= Formals /\ j <= Formals + off
    BY <1>2, <1>4, <2>2
  <2>3. CASE ~ j <= Formals /\ ~ j <= Formals + off
    BY <1>0, <1>3, <1>4, <1>5, <2>3
  <2>4. QED
    BY <2>1, <2>2, <2>3
<1>7. ASSUME NEW j \in 1 .. n, NEW k \in 1 .. n, L[j] = L[k], L[j] \in Variable
      PROVE  j = k
  <2>1. ~ (~ j <= Formals /\ j <= Formals + off) /\ ~ (~ k <= Formals /\ k <= Formals + off)
    BY <1>2, <1>4, <1>7
  <2>2. L[j].i = IF j <= Formals THEN j - 1 ELSE j - 1 - off
    <3>1. CASE j <= Formals
      BY <1>0, <1>1, <3>1
    <3>2. CASE ~ j <= Formals
      BY <1>0, <1>3, <2>1, <3>2
    <3>3. QED
      BY <3>1, <3>2
  <2>3. L[k].i = IF k <= Formals THEN k - 1 ELSE k - 1 - off
    <3>1. CASE k <= Formals
      BY <1>0, <1>1, <3>1
    <3>2. CASE ~ k <= Formals
      BY <1>0, <1>3, <2>1, <3>2
    <3>3. QED
      BY <3>1, <3>2
  <2>4. QED
    BY <1>5, <1>7, <2>1, <2>2, <2>3
<1>8. QED
  BY <1>6, <1>7 DEF L, n

LEMMA InitInv == Init => IInv
<1> SUFFICES ASSUME Init PROVE IInv
  OBVIOUS
<1> USE ConstantTypes
<1>1. ClosureTypeOK /\ Bounded
  BY InitTypes
<1>2. stack = Layout(0, 0) /\ Len(stack) = Locals /\ calls = 0 /\ DOMAIN upValues = {}
  BY LayoutType DEF Init
<1>3. PlacesDiffer
  <2>1. 0 \in Nat /\ Locals + 0 = Locals
    OBVIOUS
  <2>2. QED
    BY <1>2, <2>1, LayoutHolds DEF PlacesDiffer
<1>4. QED
  BY <1>1, <1>2, <1>3 DEF IInv, SlotsDiffer

LEMMA InvFacts ==
  ASSUME ClosureTypeOK
  PROVE  /\ stack \in Seq(Place) /\ Len(stack) \in Nat /\ DOMAIN stack = 1 .. Len(stack)
         /\ upValues \in Seq(UpValue) /\ Len(upValues) \in Nat
         /\ DOMAIN upValues = 1 .. Len(upValues)
         /\ \A j \in DOMAIN upValues : upValues[j] \in UpValue
         /\ calls \in Nat
         /\ \A a \in 1 .. Len(stack) : stack[a] \in Place /\ stack[a].call \in Int
<1>1. stack \in Seq(Place) /\ upValues \in Seq(UpValue)
  BY DEF ClosureTypeOK, Place, UpValue
<1>2. calls \in Nat
  BY ConstantTypes DEF ClosureTypeOK
<1>3. \A v \in Place : v.call \in Int
  BY DEF Place, Variable, Extra, Var
<1>4. QED
  BY <1>1, <1>2, <1>3

(* A call. *)
LEMMA CallInv ==
  ASSUME IInv, NEW around \in made, NEW n \in 0 .. MaxArgs, Call(around, n),
         ClosureTypeOK', Bounded'
  PROVE  IInv'
<1> DEFINE off == Offset(n)
           new == Layout(calls + 1, off)
           l == [fp |-> Len(stack), offset |-> off, self |-> Append(around, calls + 1)]
           top == Len(stack)
           m == Locals + off
<1> USE ConstantTypes
<1>0. ClosureTypeOK /\ Bounded
  BY DEF IInv
<1>1. /\ records' = Levels /\ Levels' = Append(Levels, l) /\ l \in Frame
      /\ off \in Nat /\ calls' = calls + 1 /\ upValues' = upValues
      /\ \A a \in 1 .. top : stack'[a] = stack[a]
      /\ \A a \in 1 .. m : stack'[top + a] = new[a]
      /\ Len(stack') = Len(stack) + Locals + off
  BY <1>0, CallIs
<1>2. /\ top \in Nat /\ calls \in Nat
      /\ \A a \in 1 .. top : stack[a] \in Place /\ stack[a].call \in Int
      /\ \A j \in DOMAIN upValues : upValues[j] \in UpValue
  BY <1>0, InvFacts
<1>3. m \in Nat /\ Len(stack') = top + m
  BY <1>1, <1>2
<1>4. /\ \A j \in 1 .. m : /\ new[j] \in Variable => new[j].call = calls + 1
                           /\ new[j].call <= calls + 1
      /\ \A j, k \in 1 .. m : new[j] = new[k] /\ new[j] \in Variable => j = k
  <2>1. calls + 1 \in Nat
    BY <1>2
  <2>2. QED
    BY ONLY <1>1, <2>1, LayoutHolds DEF new, m
<1>7. \A a \in 1 .. top + m : a \in 1 .. top \/ (a - top \in 1 .. m /\ stack'[a] = new[a - top])
  <2>1. \A a \in 1 .. top + m : ~ a \in 1 .. top => a - top \in 1 .. m /\ top + (a - top) = a
    <3> HIDE DEF top, m
    <3> QED BY <1>2, <1>3
  <2>2. QED
    BY <1>1, <2>1
<1>8. /\ \A a \in 1 .. top : stack[a].call <= calls
      /\ \A a, b \in 1 .. top : stack[a] = stack[b] /\ stack[a] \in Variable => a = b
  BY DEF IInv, PlacesDiffer
<1>9. PlacesDiffer'
  <2> HIDE DEF top, m, new
  <2>1. ASSUME NEW a \in 1 .. top + m PROVE stack'[a].call <= calls + 1
    <3>1. CASE a \in 1 .. top
      BY <1>1, <1>2, <1>8, <3>1
    <3>2. CASE a - top \in 1 .. m /\ stack'[a] = new[a - top]
      BY <1>4, <3>2
    <3>3. QED
      BY <1>7, <3>1, <3>2
  <2>2. ASSUME NEW a \in 1 .. top + m, NEW b \in 1 .. top + m,
               stack'[a] = stack'[b], stack'[a] \in Variable
        PROVE  a = b
    <3>1. CASE a \in 1 .. top /\ b \in 1 .. top
      BY <1>1, <1>8, <2>2, <3>1
    <3>2. CASE a \in 1 .. top /\ b - top \in 1 .. m /\ stack'[b] = new[b - top]
      <4>1. stack'[a].call <= calls /\ stack'[a].call \in Int
        BY <1>1, <1>2, <1>8, <3>2
      <4>2. stack'[b].call = calls + 1
        BY <1>4, <2>2, <3>2
      <4>3. QED
        BY <1>2, <2>2, <4>1, <4>2
    <3>3. CASE b \in 1 .. top /\ a - top \in 1 .. m /\ stack'[a] = new[a - top]
      <4>1. stack'[b].call <= calls /\ stack'[b].call \in Int
        BY <1>1, <1>2, <1>8, <3>3
      <4>2. stack'[a].call = calls + 1
        BY <1>4, <2>2, <3>3
      <4>3. QED
        BY <1>2, <2>2, <4>1, <4>2
    <3>4. CASE /\ a - top \in 1 .. m /\ stack'[a] = new[a - top]
               /\ b - top \in 1 .. m /\ stack'[b] = new[b - top]
      <4>1. a - top = b - top
        BY <1>4, <2>2, <3>4
      <4>2. QED
        BY <1>2, <1>3, <4>1
    <3>5. QED
      BY <1>7, <3>1, <3>2, <3>3, <3>4
  <2>3. QED
    BY <1>1, <1>3, <2>1, <2>2 DEF PlacesDiffer
<1>10. ASSUME NEW j \in DOMAIN upValues PROVE Keeps(upValues[j])'
  <2> DEFINE u == upValues[j]
  <2> HIDE DEF top, m, new
  <2>1. Keeps(u) /\ u \in UpValue /\ u' = u
    BY <1>1, <1>2 DEF IInv
  <2>2. CASE u.closed
    BY <2>1, <2>2 DEF Keeps
  <2>3. CASE ~ u.closed
    <3>1. u.slot \in Nat /\ u.slot < top /\ stack[u.slot + 1] = u.of
      BY <2>1, <2>3 DEF UpValue, Keeps, top
    <3>2. u.slot + 1 \in 1 .. top /\ u.slot < Len(stack')
      <4>1. top \in Nat /\ m \in Nat /\ Len(stack') = top + m /\ u.slot \in Nat /\ u.slot < top
        BY <1>2, <1>3, <3>1
      <4> HIDE DEF u
      <4>2. QED
        BY ONLY <4>1
    <3>3. stack'[u.slot + 1] = u.of
      BY <1>1, <3>1, <3>2
    <3>4. QED
      BY <2>1, <2>3, <3>2, <3>3 DEF Keeps
  <2>4. QED
    BY <2>2, <2>3
<1>11. SlotsDiffer'
  BY <1>1 DEF IInv, SlotsDiffer
<1>12. QED
  BY <1>1, <1>9, <1>10, <1>11 DEF IInv

(* A return, whichever up values it closes: those it does not, point below the
   frame that goes. *)
LEMMA ReturnInv ==
  ASSUME IInv, Return, ClosureTypeOK', Bounded'
  PROVE  IInv'
<1> DEFINE caller == records[Len(records)]
<1> USE ConstantTypes
<1>0. ClosureTypeOK /\ Bounded
  BY DEF IInv
<1>1. /\ caller \in Frame /\ End(caller) = fp /\ fp \in Nat
      /\ Len(stack') = fp /\ Len(stack) = fp + Locals + offset
      /\ \A a \in 1 .. fp : stack'[a] = stack[a]
      /\ calls' = calls
  BY <1>0, ReturnIs
<1>2. \A a \in 1 .. fp : a \in 1 .. Len(stack)
  <2>1. offset \in Nat
    BY <1>0 DEF ClosureTypeOK, Level, Frame
  <2>2. QED
    BY <1>1, <2>1
<1>3. CloseUpValues(caller.fp)
  BY DEF Return
<1>4. caller.fp \in Nat /\ caller.fp <= fp
  BY <1>1 DEF End, Frame
<1>5. /\ DOMAIN upValues' = DOMAIN upValues
      /\ \A j \in DOMAIN upValues :
           LET u == upValues[j] IN
           /\ u \in UpValue
           /\ Closes(u, caller.fp) => /\ upValues'[j].closed /\ upValues'[j].of = u.of
                                      /\ upValues'[j].copy = stack[u.slot + 1]
           /\ ~ Closes(u, caller.fp) => upValues'[j] = u
  BY <1>0, <1>3, <1>4, CloseType
<1>6. PlacesDiffer'
  BY <1>1, <1>2 DEF IInv, PlacesDiffer
<1>7. ASSUME NEW j \in DOMAIN upValues PROVE Keeps(upValues[j])'
  <2> DEFINE u == upValues[j]
  <2>1. Keeps(u) /\ u \in UpValue
    BY <1>5 DEF IInv
  <2>2. CASE u.closed
    <3>1. upValues'[j] = u
      BY <1>5, <2>2 DEF Closes
    <3>2. QED
      BY <2>1, <2>2, <3>1 DEF Keeps
  <2>3. CASE Closes(u, caller.fp)
    <3>1. upValues'[j].closed /\ upValues'[j].of = u.of
          /\ upValues'[j].copy = stack[u.slot + 1]
      BY <1>5, <2>3
    <3>2. QED
      BY <2>1, <2>3, <3>1 DEF Keeps, Closes
  <2>4. CASE ~ u.closed /\ ~ Closes(u, caller.fp)
    <3>1. upValues'[j] = u
      BY <1>5, <2>4
    <3>2. u.slot \in Nat /\ u.slot < caller.fp
      BY <1>4, <2>1, <2>4 DEF Closes, UpValue
    <3>3. u.slot + 1 \in 1 .. fp /\ u.slot < fp
      BY <1>1, <1>4, <3>2
    <3>4. stack[u.slot + 1] = u.of
      BY <2>1, <2>4 DEF Keeps
    <3>5. QED
      BY <1>1, <2>4, <3>1, <3>3, <3>4 DEF Keeps
  <2>5. QED
    BY <2>2, <2>3, <2>4
<1>8. SlotsDiffer'
  <2>1. \A j \in DOMAIN upValues : ~ upValues'[j].closed => upValues'[j] = upValues[j]
    BY <1>5
  <2>2. QED
    BY <1>5, <2>1 DEF IInv, SlotsDiffer, IsAt
<1>9. QED
  BY <1>5, <1>6, <1>7, <1>8 DEF IInv

(* A capture, of whatever is at the place upValueStackIndex says. *)
LEMMA CaptureInv ==
  ASSUME IInv, NEW i \in 0 .. Locals - 1, NEW k \in 1 .. MaxCalls + 1,
         Capture(i, k), ClosureTypeOK', Bounded'
  PROVE  IInv'
<1> DEFINE slot == UpValueStackIndex(i, k)
           v == Var(self[Len(self) - k + 1], i)
<1>0. ClosureTypeOK /\ Bounded
  BY DEF IInv
<1>1. k \in 1 .. Len(records) + 1 /\ upValues' = NewUpValue(slot, v)
  BY <1>0, CaptureIs
<1>2. UNCHANGED <<stack, fp, offset, self, records, calls>>
  BY DEF Capture
<1>3. slot \in Nat /\ slot < Len(stack)
  BY <1>0, <1>1, CaptureInRange
<1>4. \A j \in DOMAIN upValues : Keeps(upValues[j]) /\ upValues[j] \in UpValue
  BY <1>0, InvFacts DEF IInv
<1>5. upValues \in Seq(UpValue) /\ Len(upValues) \in Nat /\ DOMAIN upValues = 1 .. Len(upValues)
  BY <1>0, InvFacts
<1> HIDE DEF slot, v
<1>6. (\A j \in DOMAIN upValues' : Keeps(upValues'[j])) /\ SlotsDiffer'
  <2>1. CASE \E j \in DOMAIN upValues : IsAt(upValues[j], slot)
    <3>1. /\ DOMAIN upValues' = DOMAIN upValues
          /\ \A j \in DOMAIN upValues :
               upValues'[j] = IF IsAt(upValues[j], slot)
                              THEN [upValues[j] EXCEPT !.for = @ \cup {v}] ELSE upValues[j]
      BY <1>1, <2>1 DEF NewUpValue
    <3>2. ASSUME NEW j \in DOMAIN upValues
          PROVE  /\ upValues'[j].closed = upValues[j].closed
                 /\ upValues'[j].slot = upValues[j].slot
                 /\ upValues'[j].copy = upValues[j].copy
                 /\ upValues'[j].of = upValues[j].of
      BY <1>4, <3>1 DEF UpValue
    <3>3. QED
      BY <1>4, <3>1, <3>2 DEF IInv, Keeps, SlotsDiffer, IsAt
  <2>2. CASE ~ \E j \in DOMAIN upValues : IsAt(upValues[j], slot)
    <3> DEFINE new == OpenAt(slot, v)
               n == Len(upValues)
    <3>1. upValues' = Append(upValues, new)
      BY <1>1, <2>2 DEF NewUpValue
    <3>2. ~ new.closed /\ new.slot = slot /\ Keeps(new)
      BY <1>3 DEF OpenAt, Keeps
    <3> HIDE DEF new
    <3>3. /\ DOMAIN upValues' = 1 .. n + 1 /\ upValues'[n + 1] = new
          /\ \A j \in 1 .. n : upValues'[j] = upValues[j]
          /\ \A j \in 1 .. n + 1 : j \in 1 .. n \/ j = n + 1
      BY <1>5, <3>1
    <3>4. \A j \in DOMAIN upValues' : Keeps(upValues'[j])
      BY <1>4, <1>5, <3>2, <3>3
    <3>5. SlotsDiffer'
      BY <1>5, <2>2, <3>2, <3>3 DEF IInv, SlotsDiffer, IsAt
    <3>6. QED
      BY <3>4, <3>5
  <2>3. QED
    BY <2>1, <2>2
<1>7. PlacesDiffer'
  BY <1>2 DEF IInv, PlacesDiffer
<1>8. \A j \in DOMAIN upValues' : Keeps(upValues[j])'
  BY <1>2, <1>6 DEF Keeps
<1>9. QED
  BY <1>6, <1>7, <1>8 DEF IInv

LEMMA StepInv == IInv /\ [Next]_vars => IInv'
<1> SUFFICES ASSUME IInv, [Next]_vars PROVE IInv'
  OBVIOUS
<1>1. ClosureTypeOK' /\ Bounded'
  BY TypeStep DEF IInv
<1>2. CASE UNCHANGED <<stack, fp, offset, self, records, upValues, calls>>
  <2>1. PlacesDiffer' /\ SlotsDiffer'
    BY <1>2 DEF IInv, PlacesDiffer, SlotsDiffer
  <2>2. \A j \in DOMAIN upValues' : Keeps(upValues[j])'
    BY <1>2 DEF IInv, Keeps
  <2>3. QED
    BY <1>1, <2>1, <2>2 DEF IInv
<1>3. QED
  BY <1>1, <1>2, CallInv, CaptureInv, ReturnInv DEF Next, MakeClosure, vars

-----------------------------------------------------------------------------
(* Up values keep the variables they were made of, whatever is called, captured
   and returned from, and share those that are still on the stack.
   (newUpValue, closeUpValues, restoreFrame) *)
THEOREM UpValuesKeepTheirs == Spec => []UpValuesKeepVariables
<1>1. IInv => UpValuesKeepVariables
  <2> SUFFICES ASSUME IInv PROVE UpValuesKeepVariables
    OBVIOUS
  <2>1. \A j \in DOMAIN upValues : Keeps(upValues[j]) /\ upValues[j] \in UpValue
    BY InvFacts DEF IInv
  <2>2. ASSUME NEW j \in DOMAIN upValues, NEW l \in DOMAIN upValues,
               ~ upValues[j].closed, ~ upValues[l].closed,
               upValues[j].of = upValues[l].of, upValues[j].of # Extra
        PROVE  j = l
    <3> DEFINE s == upValues[j].slot
               r == upValues[l].slot
    <3>1. /\ s \in Nat /\ s < Len(stack) /\ stack[s + 1] = upValues[j].of
          /\ r \in Nat /\ r < Len(stack) /\ stack[r + 1] = upValues[l].of
          /\ upValues[j].of \in Variable
      BY <2>1, <2>2 DEF Keeps, UpValue, Place
    <3>2. Len(stack) \in Nat
      BY InvFacts DEF IInv
    <3> HIDE DEF s, r
    <3>3. s + 1 \in 1 .. Len(stack) /\ r + 1 \in 1 .. Len(stack)
      BY <3>1, <3>2
    <3>4. s + 1 = r + 1
      BY <2>2, <3>1, <3>3 DEF IInv, PlacesDiffer
    <3>5. s = r
      BY <3>1, <3>4
    <3>6. QED
      BY <2>2, <3>5 DEF IInv, SlotsDiffer, IsAt, s, r
  <2>3. QED
    BY <2>1, <2>2 DEF UpValuesKeepVariables, Keeps
<1>2. QED
  BY <1>1, InitInv, StepInv, PTL DEF Spec

=============================================================================

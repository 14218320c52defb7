----------------------------- MODULE ParseStack -----------------------------
(***************************************************************************)
(* How the compiler gives out registers while it parses the expressions of *)
(* a function: the parse stack and the emit functions that work on it.     *)
(* (src/m8rscript/Parser.h and .cpp, the calls of ParseEngine.cpp)         *)
(*                                                                         *)
(* An expression is parsed in postfix order: what it is made of goes on the*)
(* stack, and an operation replaces its operands by its result.  Of the    *)
(* code emitted only the registers it reads and writes are kept; of an     *)
(* entry only its type, the registers and locals its value depends on, and *)
(* whether these still hold what they held when the entry was made.        *)
(* Values of the .value kind, nested functions and the statements of a     *)
(* switch, which leave the stack as they find it, are left out.            *)
(***************************************************************************)
EXTENDS Integers, SequencesExt

CONSTANTS
  Local,        \* local variables of the function
  MaxRegister,  \* MaxRegister: 255 in the code
  Wrap,         \* 2^32 in the code: _nextReg is unsigned
  MaxStack,     \* bound: entries of the stack
  Programs      \* what programs may do beyond what the registers can bear:
                \* work out an index, work out a case of a switch whose value
                \* has to be loaded, assign a local within an expression that
                \* has named it before, and need more registers than there are

ASSUME ParseStackConstantsOK ==
  /\ MaxRegister \in Nat /\ Wrap \in Nat /\ MaxRegister < Wrap
  /\ Local \cap (0 .. Wrap - 1) = {}
  /\ MaxStack \in Nat
  /\ Programs \subseteq {"indices", "cases", "assignments", "long"}

VARIABLES
  stack,     \* _stack: [type, reads, ok]
  nextReg,   \* _nextReg of the function
  minReg,    \* _minReg of the function
  kept,      \* history: registers that emitDeref never gives back
  intact     \* history: every operand read held what it should

vars == <<stack, nextReg, minReg, kept, intact>>

(* EltRef stands for PropRef, too, and Function for a Constant that is one. *)
Types == {"Local", "Constant", "Function", "Register", "RefK", "EltRef",
          "This", "UpValue"}

-----------------------------------------------------------------------------
(* What the functions of ParseStack do to the stack s with n as the next
   register, the least one l, k kept and i for intact. *)
Current == [s |-> stack, n |-> nextReg, l |-> minReg, k |-> kept, i |-> intact]

Top(c) == Last(c.s)
Entry(type, reads) == [type |-> type, reads |-> reads, ok |-> TRUE]
Push(c, e) == [c EXCEPT !.s = Append(@, e)]

(* r is written: what other entries depend on is gone. *)
Overwritten(s, r) ==
  [j \in DOMAIN s |-> [s[j] EXCEPT !.ok = @ /\ r \notin s[j].reads]]

(* Faulty variant of PushRegister: the next one will be the same. *)
PushRegisterAgain(c) ==
  [c EXCEPT !.l = IF c.n < @ THEN c.n ELSE @,
            !.s = Append(Overwritten(@, c.n), Entry("Register", {c.n}))]

PushRegister(c) ==
  [c EXCEPT !.n = (@ - 1) % Wrap,
            !.l = IF c.n < @ THEN c.n ELSE @,
            !.s = Append(Overwritten(@, c.n), Entry("Register", {c.n}))]

(* Faulty variants of Pop: the register is not given back; something is given
   back whatever the entry is. *)
PopKeeping(c) == [c EXCEPT !.s = Front(@)]
PopAnything(c) == [c EXCEPT !.n = (@ + 1) % Wrap, !.s = Front(@)]

Pop(c) ==
  [c EXCEPT !.n = IF Top(c).type = "Register" THEN (@ + 1) % Wrap ELSE @,
            !.s = Front(@)]

Swap(c) ==
  [c EXCEPT !.s = SubSeq(@, 1, Len(@) - 2) \o <<@[Len(@)], @[Len(@) - 1]>>]

(* The last m entries are operands of an instruction. *)
Read(c, m) ==
  [c EXCEPT !.i = @ /\ \A j \in Len(c.s) - m + 1 .. Len(c.s) : c.s[j].ok]

InRegister == {"Local", "Constant", "Register"}

Bake(c) ==
  IF Top(c).type \in InRegister THEN c ELSE PushRegister(Pop(Read(c, 1)))

(* Both operands in registers, in their places. *)
BakeBoth(c) == Read(Swap(Bake(Swap(Bake(c)))), 2)

-----------------------------------------------------------------------------
(* The emit functions *)

Assignable == {"Local", "Register", "RefK", "EltRef", "UpValue"}

(* The value on top is stored in what lies below; of the two the source stays
   if the target is a name, and otherwise the target. *)
EmitMove(c) ==
  LET b == Swap(Bake(c))
      target == Top(b)
      read == IF target.type = "EltRef" THEN Read(b, 2)
              ELSE [b EXCEPT !.i = @ /\ b.s[Len(b.s) - 1].ok]
      written == [read EXCEPT !.s =
        IF target.type \in {"Local", "Register"}
          THEN [Overwritten(@, CHOOSE r \in target.reads : TRUE)
                  EXCEPT ![Len(@)].ok = TRUE]
          ELSE @]
  IN IF target.type = "RefK" THEN Pop(read) ELSE Pop(Swap(written))

(* The object stays in its register behind the reference, which is not given
   back; the index's register is. *)
EmitDeref(c) ==
  LET b == Swap(Bake(Swap(Bake(c))))
      object == b.s[Len(b.s) - 1]
      p == Pop(b)
  IN [p EXCEPT
        !.k = IF object.type = "Register" THEN @ + 1 ELSE @,
        !.s = Append(Front(@), [type |-> "EltRef",
                                reads |-> object.reads \cup Top(b).reads,
                                ok |-> object.ok /\ Top(b).ok])]

EmitDup(c) ==
  IF Top(c).type \in {"Local", "UpValue"} THEN Push(c, Top(c))
  ELSE Bake(Push(c, Top(c)))

EmitBinOp(c) == PushRegister(Pop(Pop(BakeBoth(c))))
EmitUnOp(c) == PushRegister(Pop(Read(Bake(c), 1)))

(* PREINC and its kin *)
EmitIncrement(c) == Pop(EmitMove(Read(Bake(EmitDup(Swap(PushRegister(c)))), 1)))

EmitPush(c) == Pop(Read(Bake(c), 1))

(* CALLPROP reads the object and the name, CALL and NEW the callee; emitPop
   takes the result off the stack. *)
EmitCall(c) ==
  IF Top(c).type = "EltRef" THEN PushRegister(Pop(Read(c, 1)))
  ELSE PushRegister(EmitPush(c))

(* JT, JF *)
AddMatchedJump(c) == EmitPush(c)

(* emitCaseTest and the jump behind it *)
EmitCaseTest(c) ==
  AddMatchedJump(PushRegister(Pop(BakeBoth(c))))

EmitAppendElt(c) == Pop(BakeBoth(c))
EmitAppendProp(c) == Read(Pop(Pop(Read(Bake(Swap(Bake(c))), 2))), 1)

-----------------------------------------------------------------------------
Init ==
  /\ stack = <<>>
  /\ nextReg = MaxRegister /\ minReg = MaxRegister + 1
  /\ kept = 0
  /\ intact = TRUE

Becomes(c) ==
  /\ Len(c.s) <= MaxStack
  /\ "long" \in Programs \/ c.l > 0
  /\ stack' = c.s /\ nextReg' = c.n /\ minReg' = c.l
  /\ kept' = c.k /\ intact' = c.i

(* The type of the m-th entry from the top. *)
Type(m) == stack[Len(stack) - m + 1].type
Has(m) == Len(stack) >= m

(* No entry below the last m depends on the local on which the m-th from the
   top stands. *)
Alone(m) ==
  \/ "assignments" \in Programs
  \/ Type(m) # "Local"
  \/ \A j \in 1 .. Len(stack) - m :
       stack[j].reads \cap stack[Len(stack) - m + 1].reads = {}

(* pushK, pushThis, emitId *)
Operand ==
  \/ \E type \in {"Constant", "Function", "RefK", "This", "UpValue"} :
       Becomes(Push(Current, Entry(type, {})))
  \/ \E x \in Local : Becomes(Push(Current, Entry("Local", {x})))

Literal == Becomes(PushRegister(Current))

(* An index that was worked out has a register of its own. *)
Deref ==
  /\ Has(2)
  /\ "indices" \in Programs \/ Type(1) \in {"Local", "Constant"}
  /\ Becomes(EmitDeref(Current))

BinOp == Has(2) /\ Becomes(EmitBinOp(Current))
UnOp == Has(1) /\ Becomes(EmitUnOp(Current))

Increment ==
  /\ Has(1) /\ Type(1) \in {"EltRef", "RefK", "Local", "UpValue"}
  /\ Alone(1)
  /\ Becomes(EmitIncrement(Current))

(* An assignment, whose operator may take the old value as its left operand *)
Dup ==
  /\ Has(1) /\ Type(1) \in {"EltRef", "RefK", "Local", "UpValue"}
  /\ Becomes(EmitDup(Current))

Move ==
  /\ Has(2) /\ Type(2) \in Assignable
  /\ Alone(2)
  /\ Becomes(EmitMove(Current))

(* An argument, a returned value or the condition of a loop *)
Consume == Has(1) /\ Becomes(EmitPush(Current))

Call ==
  /\ Has(1)
  /\ \/ Becomes(EmitCall(Current))
     \/ Becomes(PushRegister(EmitPush(Current)))   \* NEW

(* The condition of ? and the register for either value *)
Question == Has(1) /\ Becomes(PushRegister(AddMatchedJump(Current)))

(* The value of the case is compared with that of the switch below it. *)
Case ==
  /\ Has(2)
  /\ \/ "cases" \in Programs
     \/ Type(1) \in {"Local", "Constant"}
     \/ Type(2) \in InRegister
  /\ Becomes(EmitCaseTest(Current))

AppendElt == Has(2) /\ Type(2) = "Register" /\ Becomes(EmitAppendElt(Current))

AppendProp ==
  /\ Has(3) /\ Type(2) = "Constant" /\ Type(3) = "Register"
  /\ Becomes(EmitAppendProp(Current))

DiscardResult == Has(1) /\ Becomes(Pop(Current))

Next ==
  \/ Operand \/ Literal \/ Deref \/ BinOp \/ UnOp \/ Increment \/ Dup \/ Move
  \/ Consume \/ Call \/ Question \/ Case \/ AppendElt \/ AppendProp
  \/ DiscardResult

Spec == Init /\ [][Next]_vars

-----------------------------------------------------------------------------
(* The types of the variables; no more registers are given back than were
   taken, and none is taken when there is none left. *)
TypeOK ==
  /\ stack \in Seq([type : Types, reads : SUBSET (Local \cup 0 .. Wrap - 1),
                    ok : BOOLEAN])
  /\ nextReg \in 0 .. (IF "long" \in Programs THEN Wrap - 1 ELSE MaxRegister)
  /\ minReg \in 0 .. MaxRegister + 1
  /\ kept \in Nat
  /\ intact \in BOOLEAN

(* Whatever is parsed between an operand and the operation on it, the
   instruction emitted finds in its registers what the operand stands for. *)
OperandsIntact == intact

(* At the end of a statement all registers have been given back but those of
   objects that had to be loaded for a reference. *)
RegistersReturned == stack = <<>> => nextReg + kept = MaxRegister

(* The comment on emitCaseTest: it does not pop the left operand, which is the
   value of the switch and has to last until the last case. *)
SwitchValueStays ==
  [][Case /\ stack[Len(stack) - 1].ok => Last(stack').ok]_vars
=============================================================================

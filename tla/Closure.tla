------------------------------- MODULE Closure -------------------------------
(***************************************************************************)
(* How closures hold on to the variables of the functions around them: up  *)
(* values, which point into the stack while they are open, and are closed, *)
(* with a copy of the value, when a function returns.                      *)
(* (src/m8rscript/Closure.h and .cpp, Function.cpp, the frames and up      *)
(* values of ExecutionUnit.cpp)                                            *)
(*                                                                         *)
(* What a variable holds is left out.  Each place on the stack has instead *)
(* the variable it belongs to, and each up value, as a history, the one it *)
(* was made of and those that the program's text says it stands for, so    *)
(* that the three can be compared.  Calls are numbered to tell the         *)
(* variables of one from those of another; that of the program itself is 0. *)
(***************************************************************************)
EXTENDS Integers, Sequences

CONSTANTS
  Locals,      \* localSize of every function
  Formals,     \* formalParamCount of every function
  MaxArgs,     \* bound: arguments of a call
  MaxCalls,    \* bound: calls
  MaxUpValues  \* bound: up values

ASSUME ClosureConstantsOK ==
  /\ Formals \in Nat /\ Locals \in Nat /\ Formals <= Locals
  /\ MaxArgs \in Nat /\ MaxCalls \in Nat /\ MaxUpValues \in Nat

VARIABLES
  stack,    \* _stack: the variable each value is that of
  fp,       \* _frame of the stack
  offset,   \* _localOffset
  self,     \* history: the call that executes, and those around it in the
            \* program's text, the outermost first
  records,  \* _callRecords: [fp, offset, self] of the callers
  made,     \* functions and closures, known by the calls around them
  upValues, \* all there are: [closed, slot, copy, of, for], where of and for
            \* are the history; the open ones are those of _openUpValues
  calls     \* history: the number of calls

vars == <<stack, fp, offset, self, records, made, upValues, calls>>

Var(call, i) == [call |-> call, i |-> i]
Variable == [call : Nat, i : 0 .. Locals - 1]
Extra == Var(-1, 0)  \* an argument without a parameter

-----------------------------------------------------------------------------
(* setLocalFrame: parameters, arguments that are too many, and the rest; the
   arguments that are missing make room at the end. *)
Layout(call, off) ==
  [j \in 1 .. Locals + off |->
     IF j <= Formals THEN Var(call, j - 1)
     ELSE IF j <= Formals + off THEN Extra
     ELSE Var(call, j - 1 - off)]

(* Faulty variant of Offset: arguments that are missing count too. *)
OffsetOfMissing(n) == n - Formals

(* _localOffset *)
Offset(n) == IF n > Formals THEN n - Formals ELSE 0

(* startFunction, for a call of a closure with n arguments. *)
Call(around, n) ==
  /\ calls < MaxCalls
  /\ records' = Append(records, [fp |-> fp, offset |-> offset, self |-> self])
  /\ fp' = Len(stack)
  /\ offset' = Offset(n)
  /\ stack' = stack \o Layout(calls + 1, Offset(n))
  /\ self' = Append(around, calls + 1)
  /\ calls' = calls + 1
  /\ UNCHANGED <<made, upValues>>

(* Faulty variant of upValueStackIndex: a frame too far. *)
UpValueStackIndexOfCaller(i, k) ==
  i + IF k = 1 \/ Len(records) = 1 THEN fp ELSE records[Len(records) - k + 1].fp

(* upValueStackIndex: of a variable of the k-th function from the inside, its
   place in the frame of the (k - 1)-th caller. *)
UpValueStackIndex(i, k) ==
  i + IF k = 1 THEN fp ELSE records[Len(records) - k + 2].fp

OpenAt(slot, v) ==
  [closed |-> FALSE, slot |-> slot, copy |-> Extra, of |-> stack[slot + 1], for |-> {v}]

(* Faulty variant of NewUpValue: never the one there is. *)
NewUpValueAlways(slot, v) == Append(upValues, OpenAt(slot, v))

IsAt(u, slot) == ~ u.closed /\ u.slot = slot

(* newUpValue: the open one for that place, or else a new one. *)
NewUpValue(slot, v) ==
  IF \E j \in DOMAIN upValues : IsAt(upValues[j], slot)
  THEN [j \in DOMAIN upValues |->
          IF IsAt(upValues[j], slot) THEN [upValues[j] EXCEPT !.for = @ \cup {v}]
          ELSE upValues[j]]
  ELSE Append(upValues, OpenAt(slot, v))

(* The k-th caller, 1 being the function that executes. *)
Level(k) ==
  IF k = 1 THEN [fp |-> fp, offset |-> offset, self |-> self]
  ELSE records[Len(records) - k + 2]

(* CLOSURE, for a function that uses none of the variables around it. *)
MakeClosure ==
  /\ made' = made \cup {self}
  /\ UNCHANGED <<stack, fp, offset, self, records, upValues, calls>>

(* CLOSURE, for a function that uses variable i of the k-th function around it;
   of several variables, one after the other.  (With too few callers to count
   upValueStackIndex fails its assertion.) *)
Capture(i, k) ==
  LET owner == self[Len(self) - k + 1] IN
  /\ k <= Len(self) /\ k <= Len(records) + 1
  /\ Len(upValues) < MaxUpValues
  /\ made' = made \cup {self}
  /\ upValues' = NewUpValue(UpValueStackIndex(i, k), Var(owner, i))
  /\ UNCHANGED <<stack, fp, offset, self, records, calls>>

(* closeUpValues and closeIfNeeded, given a frame *)
Closes(u, f) == ~ u.closed /\ u.slot >= f

ClosedNow(u) ==
  [u EXCEPT !.closed = TRUE, !.slot = 0, !.copy = stack[u.slot + 1]]

(* Faulty variant of CloseUpValues: the one that was opened last is enough. *)
CloseUpValuesOnce(f) ==
  upValues' = [j \in DOMAIN upValues |->
    IF /\ Closes(upValues[j], f)
       /\ \A l \in DOMAIN upValues : Closes(upValues[l], f) => l <= j
    THEN ClosedNow(upValues[j]) ELSE upValues[j]]

CloseUpValues(f) ==
  upValues' = [j \in DOMAIN upValues |->
    IF Closes(upValues[j], f) THEN ClosedNow(upValues[j]) ELSE upValues[j]]

(* RET and END of a function: it is the caller's frame that is passed to
   closeUpValues. *)
Return ==
  /\ records # <<>>
  /\ LET caller == records[Len(records)] IN
       /\ CloseUpValues(caller.fp)
       /\ stack' = SubSeq(stack, 1, Len(stack) - (Locals + offset))
       /\ fp' = caller.fp /\ offset' = caller.offset /\ self' = caller.self
       /\ records' = SubSeq(records, 1, Len(records) - 1)
  /\ UNCHANGED <<made, calls>>

-----------------------------------------------------------------------------
(* The program, which has parameters of its own only in name. *)
Init ==
  /\ stack = Layout(0, 0) /\ fp = 0 /\ offset = 0 /\ self = <<0>>
  /\ records = <<>>
  /\ made = {} /\ upValues = <<>>
  /\ calls = 0

Next ==
  \/ \E around \in made, n \in 0 .. MaxArgs : Call(around, n)
  \/ MakeClosure
  \/ \E i \in 0 .. Locals - 1, k \in 1 .. MaxCalls + 1 : Capture(i, k)
  \/ Return

Spec == Init /\ [][Next]_vars

-----------------------------------------------------------------------------
Frame == [fp : Nat, offset : Nat, self : Seq(Nat)]

(* Frames are places on the stack, and every place is a variable's or an
   argument's.  (setLocalFrame and restoreFrame) *)
ClosureTypeOK ==
  /\ stack \in Seq(Variable \cup {Extra})
  /\ Level(1) \in Frame /\ records \in Seq(Frame)
  /\ made \subseteq Seq(Nat)
  /\ upValues \in Seq([closed : BOOLEAN, slot : Nat, copy : Variable \cup {Extra},
                        of : Variable \cup {Extra}, for : SUBSET Variable])
  /\ calls \in 0 .. MaxCalls

(* An up value never comes to stand for anything but what it was made of: the
   place it points into is that variable's until it is closed, whatever is
   called and returns in between, and the copy it is closed with is that
   variable, too; and never do two that are open stand for the same one.
   (newUpValue, closeUpValues, restoreFrame) *)
UpValuesKeepVariables ==
  /\ \A j \in DOMAIN upValues :
       LET u == upValues[j] IN
       IF u.closed THEN u.copy = u.of
       ELSE u.slot < Len(stack) /\ stack[u.slot + 1] = u.of
  /\ \A j, l \in DOMAIN upValues :
       /\ ~ upValues[j].closed /\ ~ upValues[l].closed
       /\ upValues[j].of = upValues[l].of /\ upValues[j].of # Extra
       => j = l

(* "All the inner functions have access to the outer function's variables": what
   a capture finds on the stack is the variable the program's text says. *)
CapturesFindVariables ==
  \A j \in DOMAIN upValues : \A v \in upValues[j].for : upValues[j].of = v

OnStack(v) == \E j \in DOMAIN stack : stack[j] = v

(* "This inner function will return the UPDATED celebrityID variable": a variable
   that is captured is one and the same for the closure and for the function
   it belongs to, as long as that has not returned. *)
ClosuresSeeVariables ==
  \A j \in DOMAIN upValues : \A v \in upValues[j].for :
    OnStack(v) => ~ upValues[j].closed /\ stack[upValues[j].slot + 1] = v

=============================================================================

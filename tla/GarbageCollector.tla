-------------------------- MODULE GarbageCollector --------------------------
(***************************************************************************)
(* The collector of objects and strings, and the program that runs between *)
(* its steps.  (src/m8rscript/Object.h and .cpp, gcMark of ExecutionUnit.h,*)
(* Value.cpp, Function.h and Closure.h, the lookups of IPAddr.cpp)         *)
(*                                                                         *)
(* A cycle of the collector has eight steps.  A call of gc that is not     *)
(* forced takes one of them, every 256 instructions and at the beginning of*)
(* a slice, and the program goes on in between.  Nothing tells the         *)
(* collector of a reference stored meanwhile.                              *)
(*                                                                         *)
(* Of an object only what it refers to is kept: properties and elements, a *)
(* function's constants, a closure's function, this and variables.         *)
(***************************************************************************)
EXTENDS Integers, FiniteSets

CONSTANTS
  Object,          \* what _objectStore holds
  String,          \* what _stringStore holds
  Array,           \* the objects that refer to others by their elements only
  MaxObjectDiff,   \* MaxGCObjectDiff
  MaxStringDiff,   \* MaxGCStringDiff
  MaxCount,        \* MaxCountSinceLastGC
  CountModulus,    \* 2^8: countSinceLastGC is a byte
  Careless         \* what programs do that the collector cannot cope with

Cell == Object \cup String

ASSUME CollectorConstantsOK ==
  /\ IsFiniteSet(Object) /\ IsFiniteSet(String)
  /\ Object \cap String = {} /\ Array \subseteq Object
  /\ MaxObjectDiff \in Nat /\ MaxStringDiff \in Nat
  /\ MaxCount \in Nat \ {0} /\ CountModulus \in Nat /\ MaxCount < CountModulus
  /\ Careless \subseteq {"hidden", "appends", "answers"}

VARIABLES
  store,     \* the cells that have been allocated and not freed
  refs,      \* what each object refers to
  needsGC,   \* _arrayNeedsGC
  marked,    \* _marked of objects and strings
  active,    \* what the stack, the program and the event queue refer to
  hidden,    \* what _this, _function, the call records, Application's
             \* _program, or the _proto or _iterator of an object refer to
  pending,   \* _staticObjects: the functions that await a host name's lookup
  gcState,   \* gcState
  prev,      \* prevGCObjects and prevGCStrings
  count,     \* countSinceLastGC
  force      \* no forced call is under way, or what is left of it

heapVars == <<store, refs, needsGC, marked>>
rootVars == <<active, hidden, pending>>
gcVars == <<gcState, prev, count, force>>
vars == <<heapVars, rootVars, gcVars>>

(* The cells reached from those of R along the references of E. *)
Reach(R, E) ==
  {c \in Cell : \A S \in SUBSET Cell :
                   R \subseteq S /\ (\A x \in S : E[x] \subseteq S) => c \in S}

(* What marking follows: the elements of an array only if it needs it. *)
Walked ==
  [c \in Cell |-> IF c \in Array /\ ~ needsGC[c] THEN {} ELSE refs[c]]

(* What the program can still get hold of. *)
InUse == Reach(active \cup hidden \cup pending, refs)

-----------------------------------------------------------------------------
Init ==
  /\ store = {} /\ refs = [c \in Cell |-> {}]
  /\ needsGC = [a \in Array |-> FALSE]
  /\ marked = {}
  /\ active = {} /\ hidden = {} /\ pending = {}
  /\ gcState = "ClearMarkedObj"
  /\ prev = [objects |-> 0, strings |-> 0]
  /\ count = 0
  /\ force = "no"

(* What the collector counts on: that nothing is held alone by variables that
   no mark follows (of a _proto only the object itself is marked, not what it
   refers to, and an _iterator with its object's elements only), and that no
   object refers to itself by way of others, for then gcMark, which does not
   ask whether it has been there, descends for ever. *)
Careful ==
  /\ "hidden" \in Careless \/ hidden \subseteq Reach(active, refs)
  /\ \A o \in Object \cap store : o \notin Reach(refs[o], refs)

(* The program runs when no call of gc does. *)
Running == force = "no" /\ UNCHANGED gcVars

(* Faulty variant of New: a cell is born unmarked. *)
NewUnmarked(c) ==
  /\ c \notin store
  /\ store' = store \cup {c}
  /\ active' = active \cup {c}
  /\ \E b \in BOOLEAN :
       needsGC' = IF c \in Array THEN [needsGC EXCEPT ![c] = b] ELSE needsGC
  /\ UNCHANGED <<refs, marked, hidden, pending>>

(* A cell is born marked.  _arrayNeedsGC is not initialised. *)
New(c) ==
  /\ c \notin store
  /\ store' = store \cup {c}
  /\ marked' = marked \cup {c}
  /\ active' = active \cup {c}
  /\ \E b \in BOOLEAN :
       needsGC' = IF c \in Array THEN [needsGC EXCEPT ![c] = b] ELSE needsGC
  /\ UNCHANGED <<refs, hidden, pending>>

(* A value is loaded from an object at hand, or this from the frame. *)
Load(c) ==
  /\ c \in hidden \cup UNION {refs[o] : o \in active \cup hidden}
  /\ active' = active \cup {c}
  /\ UNCHANGED <<heapVars, hidden, pending>>

(* The last value on the stack that refers to the cell goes. *)
Drop(c) ==
  /\ active' = active \ {c}
  /\ UNCHANGED <<heapVars, hidden, pending>>

(* setProperty, setElement and a variable of a closure *)
Store(o, c) ==
  /\ o \in active /\ c \in active
  /\ refs' = [refs EXCEPT ![o] = @ \cup {c}]
  /\ needsGC' = IF o \in Array THEN [needsGC EXCEPT ![o] = TRUE] ELSE needsGC
  /\ UNCHANGED <<store, marked, rootVars>>

(* APPENDELT and push_back: _arrayNeedsGC stays what it is. *)
AppendElement(o, c) ==
  /\ o \in active \cap Array /\ c \in active
  /\ "appends" \in Careless \/ needsGC[o]
  /\ refs' = [refs EXCEPT ![o] = @ \cup {c}]
  /\ UNCHANGED <<store, needsGC, marked, rootVars>>

(* The value is overwritten. *)
Remove(o, c) ==
  /\ o \in active
  /\ refs' = [refs EXCEPT ![o] = @ \ {c}]
  /\ UNCHANGED <<store, needsGC, marked, rootVars>>

(* An object is called, or a method or constructor with it as this; or it
   becomes the _proto or _iterator of another. *)
Call(o) ==
  /\ o \in active \cap Object
  /\ hidden' = hidden \cup {o}
  /\ UNCHANGED <<heapVars, active, pending>>

Return(o) ==
  /\ hidden' = hidden \ {o}
  /\ UNCHANGED <<heapVars, active, pending>>

(* lookupHostname *)
Lookup(f) ==
  /\ f \in active \cap Object
  /\ pending' = pending \cup {f}
  /\ UNCHANGED <<heapVars, active, hidden>>

(* The host's answer: the function goes to the event queue. *)
Answer(f) ==
  /\ "answers" \in Careless \/ gcState # "MarkStatic"
  /\ f \in pending
  /\ active' = active \cup {f}
  /\ pending' = pending \ {f}
  /\ UNCHANGED <<heapVars, hidden>>

Program ==
  /\ \E c \in Cell :
       \/ New(c) \/ Load(c) \/ Drop(c) \/ Call(c) \/ Return(c)
       \/ Lookup(c) \/ Answer(c)
       \/ \E o \in Object : Store(o, c) \/ AppendElement(o, c) \/ Remove(o, c)
  /\ Running
  /\ Careful'

-----------------------------------------------------------------------------
Objects == Cardinality(store \cap Object)
Strings == Cardinality(store \cap String)

(* A call that is not forced does nothing for a while after a cycle: until
   there are enough new cells, or it has been called often enough.  The tests
   are made in this order, and only the last one counts. *)
FewNew ==
  /\ Objects - prev.objects < MaxObjectDiff
  /\ Strings - prev.strings < MaxStringDiff

(* Faulty variant of NextCount: a counter without end. *)
NextCountEndless == count + 1

NextCount == (count + 1) % CountModulus

(* Faulty variant of Wait: calls are not counted. *)
WaitNotCounting ==
  /\ gcState = "ClearMarkedObj" /\ force = "no"
  /\ FewNew /\ NextCount < MaxCount
  /\ UNCHANGED vars

Wait ==
  /\ gcState = "ClearMarkedObj" /\ force = "no"
  /\ FewNew /\ NextCount < MaxCount
  /\ count' = NextCount
  /\ UNCHANGED <<heapVars, rootVars, gcState, prev, force>>

ClearMarkedObj ==
  /\ gcState = "ClearMarkedObj"
  /\ \/ force # "no" /\ count' = count
     \/ force = "no" /\ ~ FewNew /\ count' = count
     \/ force = "no" /\ FewNew /\ NextCount >= MaxCount /\ count' = NextCount
  /\ marked' = marked \ Object
  /\ gcState' = "ClearMarkedStr"
  /\ UNCHANGED <<store, refs, needsGC, rootVars, prev, force>>

ClearMarkedStr ==
  /\ gcState = "ClearMarkedStr"
  /\ marked' = marked \ String
  /\ gcState' = "MarkActive"
  /\ UNCHANGED <<store, refs, needsGC, rootVars, prev, count, force>>

(* gcMark of the cells of R and of what they refer to.  An array that is
   reached learns whether it has to be looked into the next time. *)
Mark(R) ==
  LET reached == Reach(R, Walked)
  IN /\ marked' = marked \cup reached
     /\ needsGC' = [a \in Array |->
          IF a \in reached /\ needsGC[a] THEN refs[a] # {} ELSE needsGC[a]]

MarkActive ==
  /\ gcState = "MarkActive"
  /\ Mark(active)
  /\ gcState' = "MarkStatic"
  /\ UNCHANGED <<store, refs, rootVars, prev, count, force>>

MarkStatic ==
  /\ gcState = "MarkStatic"
  /\ Mark(pending)
  /\ gcState' = "SweepObj"
  /\ UNCHANGED <<store, refs, rootVars, prev, count, force>>

Free(dead) ==
  /\ store' = store \ dead
  /\ refs' = [c \in Cell |-> IF c \in dead THEN {} ELSE refs[c]]

SweepObj ==
  /\ gcState = "SweepObj"
  /\ Free(Object \ marked)
  /\ gcState' = "SweepStr"
  /\ UNCHANGED <<needsGC, marked, rootVars, prev, count, force>>

SweepStr ==
  /\ gcState = "SweepStr"
  /\ Free(String \ marked)
  /\ gcState' = "ClearNullObj"
  /\ UNCHANGED <<needsGC, marked, rootVars, prev, count, force>>

(* The empty slots of the store are not part of the model. *)
ClearNullObj ==
  /\ gcState = "ClearNullObj"
  /\ gcState' = "ClearNullStr"
  /\ UNCHANGED <<heapVars, rootVars, prev, count, force>>

(* The cycle is over.  A forced call that found one begun does another. *)
ClearNullStr ==
  /\ gcState = "ClearNullStr"
  /\ prev' = [objects |-> Objects, strings |-> Strings]
  /\ gcState' = "ClearMarkedObj"
  /\ force' = IF force = "rest" THEN "full" ELSE "no"
  /\ UNCHANGED <<heapVars, rootVars, count>>

Collect ==
  \/ Wait \/ ClearMarkedObj \/ ClearMarkedStr \/ MarkActive \/ MarkStatic
  \/ SweepObj \/ SweepStr \/ ClearNullObj \/ ClearNullStr

(* Faulty variant of ForceGC: the cycle under way is taken for a whole one. *)
ForceGCOnce ==
  /\ force = "no"
  /\ force' = "full"
  /\ UNCHANGED <<heapVars, rootVars, gcState, prev, count>>

(* The end of a program and a stop force a collection. *)
ForceGC ==
  /\ force = "no"
  /\ force' = IF gcState = "ClearMarkedObj" THEN "full" ELSE "rest"
  /\ UNCHANGED <<heapVars, rootVars, gcState, prev, count>>

Next == Program \/ Collect \/ ForceGC

Spec == Init /\ [][Next]_vars

(* A slice begins with a call of gc, and the slices of a program go on. *)
FairSpec == Spec /\ WF_vars(Collect)

-----------------------------------------------------------------------------
States == {"ClearMarkedObj", "ClearMarkedStr", "MarkActive", "MarkStatic",
           "SweepObj", "SweepStr", "ClearNullObj", "ClearNullStr"}

(* The types of the variables; the counter of calls fits into its byte. *)
TypeOK ==
  /\ store \subseteq Cell /\ marked \subseteq Cell
  /\ refs \in [Cell -> SUBSET Cell]
  /\ needsGC \in [Array -> BOOLEAN]
  /\ active \subseteq Cell /\ hidden \subseteq Object /\ pending \subseteq Object
  /\ gcState \in States
  /\ prev \in [objects : Nat, strings : Nat]
  /\ count \in 0 .. CountModulus - 1
  /\ force \in {"no", "rest", "full"}

(* Whatever the program can get hold of has not been freed, though references
   move about between the steps of a cycle. *)
NothingInUseIsFreed == InUse \subseteq store

(* When a forced collection returns, what is left is in use. *)
ForcedLeavesNoGarbage ==
  [][force = "full" /\ force' = "no" => store \subseteq InUse]_vars

(* The collector starts again and again, whatever the byte that counts its
   calls has come to, and frees in the end what is not in use. *)
GarbageGoes ==
  \A c \in Cell : c \in store \ InUse ~> c \notin store
=============================================================================

----------------------- MODULE GarbageCollectorProofs -----------------------
(* Whatever the program can get hold of has not been freed: for any store, any
   graph of references and any thresholds, for programs that are careful. *)
EXTENDS GarbageCollector, FiniteSetTheorems, TLAPS

Graph == [Cell -> SUBSET Cell]

(* Reach is the least set that holds the roots and follows the references. *)
LEMMA ReachHoldsRoots ==
  ASSUME NEW R \in SUBSET Cell, NEW E
  PROVE  R \subseteq Reach(R, E)
BY DEF Reach

LEMMA ReachFollows ==
  ASSUME NEW R, NEW E \in Graph, NEW x \in Reach(R, E)
  PROVE  E[x] \subseteq Reach(R, E)
BY DEF Reach, Graph

LEMMA ReachIsLeast ==
  ASSUME NEW R, NEW E, NEW S \in SUBSET Cell,
         R \subseteq S, \A x \in S : E[x] \subseteq S
  PROVE  Reach(R, E) \subseteq S
BY DEF Reach

LEMMA ReachIsCells ==
  ASSUME NEW R, NEW E PROVE Reach(R, E) \in SUBSET Cell
BY DEF Reach

(* More roots and more references reach more. *)
LEMMA ReachIsMonotone ==
  ASSUME NEW R \in SUBSET Cell, NEW Q \in SUBSET Cell, R \subseteq Q,
         NEW D, NEW E \in Graph, \A x \in Cell : D[x] \subseteq E[x]
  PROVE  Reach(R, D) \subseteq Reach(Q, E)
<1>1. R \subseteq Reach(Q, E)
  BY ReachHoldsRoots
<1>2. \A x \in Reach(Q, E) : D[x] \subseteq Reach(Q, E)
  BY ReachFollows, ReachIsCells
<1> QED
  BY <1>1, <1>2, ReachIsLeast, ReachIsCells

-----------------------------------------------------------------------------
(* What the steps of a cycle preserve.  Between the two marking steps only
   what the execution unit reaches has been marked, and all of that has: the
   rest is what the answers to lookups will bring. *)
RootsOK == active \cup hidden \cup pending \in SUBSET Cell
FlagsOK == \A a \in Array : refs[a] # {} => needsGC[a]
UnusedOK == \A c \in Cell \ store : refs[c] = {}
HiddenOK == hidden \subseteq Reach(active, refs)
ActiveMarked == gcState = "MarkStatic" => Reach(active, refs) \subseteq marked
AllMarked == gcState \in {"SweepObj", "SweepStr"} => InUse \subseteq marked

IInv ==
  /\ TypeOK /\ FlagsOK /\ UnusedOK /\ HiddenOK
  /\ ActiveMarked /\ AllMarked /\ NothingInUseIsFreed

LEMMA WalkedIsRefs ==
  ASSUME TypeOK, FlagsOK PROVE Walked = refs
BY DEF TypeOK, FlagsOK, Walked

(* The state stays within its types. *)
LEMMA TypeStep == TypeOK /\ [Next]_vars => TypeOK'
<1> USE CollectorConstantsOK DEF TypeOK, heapVars, rootVars, gcVars, Cell
<1> SUFFICES ASSUME TypeOK, [Next]_vars PROVE TypeOK'
  OBVIOUS
<1>1. ASSUME NEW c \in Cell, New(c), Running PROVE TypeOK'
  BY <1>1 DEF New, Running
<1>2. ASSUME NEW c \in Cell, Load(c), Running PROVE TypeOK'
  BY <1>2 DEF Load, Running
<1>3. ASSUME NEW c \in Cell, Drop(c), Running PROVE TypeOK'
  BY <1>3 DEF Drop, Running
<1>4. ASSUME NEW o \in Object, NEW c \in Cell, Store(o, c), Running
      PROVE  TypeOK'
  BY <1>4 DEF Store, Running
<1>5. ASSUME NEW o \in Object, NEW c \in Cell, AppendElement(o, c), Running
      PROVE  TypeOK'
  BY <1>5 DEF AppendElement, Running
<1>6. ASSUME NEW o \in Object, NEW c \in Cell, Remove(o, c), Running
      PROVE  TypeOK'
  BY <1>6 DEF Remove, Running
<1>7. ASSUME NEW c \in Cell, Call(c) \/ Return(c), Running PROVE TypeOK'
  BY <1>7 DEF Call, Return, Running
<1>8. ASSUME NEW c \in Cell, Lookup(c) \/ Answer(c), Running PROVE TypeOK'
  BY <1>8 DEF Lookup, Answer, Running
<1>9. CASE Program
  BY <1>1, <1>2, <1>3, <1>4, <1>5, <1>6, <1>7, <1>8, <1>9 DEF Program
<1>10. NextCount \in 0 .. CountModulus - 1
  BY DEF NextCount
<1>11. CASE Wait \/ ClearMarkedObj \/ ClearMarkedStr \/ ClearNullObj \/ ForceGC
  <2>1. gcState' \in States /\ force' \in {"no", "rest", "full"}
    BY <1>11
       DEF Wait, ClearMarkedObj, ClearMarkedStr, ClearNullObj, ForceGC, States
  <2>2. count' \in 0 .. CountModulus - 1 /\ marked' \subseteq marked
    BY <1>10, <1>11
       DEF Wait, ClearMarkedObj, ClearMarkedStr, ClearNullObj, ForceGC
  <2>3. UNCHANGED <<store, refs, needsGC, active, hidden, pending, prev>>
    BY <1>11
       DEF Wait, ClearMarkedObj, ClearMarkedStr, ClearNullObj, ForceGC
  <2> QED
    BY <2>1, <2>2, <2>3
<1>12. CASE MarkActive \/ MarkStatic
  <2>1. \A R : Reach(R, Walked) \subseteq Cell
    BY DEF Reach
  <2>2. PICK R : Mark(R) /\ UNCHANGED <<store, refs, rootVars, prev, count, force>>
                   /\ gcState' \in States
    BY <1>12 DEF MarkActive, MarkStatic, States
  <2>3. marked' \subseteq Cell /\ needsGC' \in [Array -> BOOLEAN]
    BY <2>1, <2>2 DEF Mark
  <2> QED
    BY <2>2, <2>3
<1>13. CASE SweepObj \/ SweepStr
  <2>1. PICK dead : Free(dead) /\ gcState' \in States
                   /\ UNCHANGED <<needsGC, marked, rootVars, prev, count, force>>
    BY <1>13 DEF SweepObj, SweepStr, States
  <2> QED
    BY <2>1 DEF Free
<1>14. CASE ClearNullStr
  <2>1. Objects \in Nat /\ Strings \in Nat
    <3>1. IsFiniteSet(store \cap Object) /\ IsFiniteSet(store \cap String)
      BY FS_Subset
    <3> QED
      BY <3>1, FS_CardinalityType DEF Objects, Strings
  <2> QED
    BY <1>14, <2>1 DEF ClearNullStr, States
<1>15. CASE UNCHANGED vars
  BY <1>15 DEF vars
<1> QED
  BY <1>9, <1>11, <1>12, <1>13, <1>14, <1>15 DEF Next, Collect

-----------------------------------------------------------------------------
(* THEOREM: the variables stay in their types; the count of the calls is a
   byte. *)
THEOREM TypeCorrect == Spec => []TypeOK
<1>1. Init => TypeOK
  BY CollectorConstantsOK DEF Init, TypeOK, States, Cell
<1> QED
  BY <1>1, TypeStep, PTL DEF Spec

(* What is in use is closed under references, and holds the roots. *)
LEMMA InUseIsClosed ==
  ASSUME TypeOK
  PROVE  /\ InUse \in SUBSET Cell
         /\ active \cup hidden \cup pending \subseteq InUse
         /\ \A x \in InUse : refs[x] \subseteq InUse
         /\ Reach(active, refs) \subseteq InUse
<1>1. active \cup hidden \cup pending \in SUBSET Cell
  BY DEF TypeOK, Cell
<1>2. refs \in Graph
  BY DEF TypeOK, Graph
<1>3. Reach(active, refs) \subseteq InUse
  BY <1>1, <1>2, ReachIsMonotone DEF InUse
<1> QED
  BY <1>1, <1>2, <1>3, ReachHoldsRoots, ReachFollows, ReachIsCells DEF InUse

(* The same of what the execution unit reaches. *)
LEMMA ActiveIsClosed ==
  ASSUME TypeOK
  PROVE  /\ Reach(active, refs) \in SUBSET Cell
         /\ active \subseteq Reach(active, refs)
         /\ \A x \in Reach(active, refs) : refs[x] \subseteq Reach(active, refs)
<1>1. active \in SUBSET Cell /\ refs \in Graph
  BY DEF TypeOK, Graph
<1> QED
  BY <1>1, ReachHoldsRoots, ReachFollows, ReachIsCells

(* A step that adds to the roots and to the references only what was in use
   already, and to what the execution unit holds only what it reached already,
   brings nothing into use. *)
LEMMA NothingComesIntoUse ==
  ASSUME TypeOK, TypeOK', NEW new \in SUBSET Cell,
         \A c \in new : refs'[c] = {},
         \A x \in Cell :
           \/ refs'[x] \subseteq refs[x]
           \/ x \in active /\ refs'[x] \subseteq refs[x] \cup active,
         active' \subseteq Reach(active, refs) \cup new \cup pending,
         gcState = "MarkStatic" => active' \subseteq Reach(active, refs) \cup new,
         hidden' \cup pending' \subseteq InUse
  PROVE  /\ InUse' \subseteq InUse \cup new
         /\ gcState = "MarkStatic" =>
              Reach(active', refs') \subseteq Reach(active, refs) \cup new
<1> DEFINE A == Reach(active, refs)
<1>1. InUse \cup new \in SUBSET Cell /\ A \cup new \in SUBSET Cell
  BY InUseIsClosed, ActiveIsClosed
<1>2. active' \cup hidden' \cup pending' \subseteq InUse \cup new
  BY InUseIsClosed
<1>3. \A x \in InUse \cup new : refs'[x] \subseteq InUse \cup new
  BY InUseIsClosed
<1>4. \A x \in A \cup new : refs'[x] \subseteq A \cup new
  BY ActiveIsClosed
<1>5. InUse' \subseteq InUse \cup new
  <2>1. Reach(active' \cup hidden' \cup pending', refs') \subseteq InUse \cup new
    BY <1>1, <1>2, <1>3, ReachIsLeast
  <2> QED
    BY <2>1 DEF InUse
<1>6. ASSUME gcState = "MarkStatic" PROVE Reach(active', refs') \subseteq A \cup new
  BY <1>1, <1>4, <1>6, ReachIsLeast
<1> QED
  BY <1>5, <1>6

-----------------------------------------------------------------------------
(* Every step of the program keeps to NothingComesIntoUse, with the cell that
   it makes as the new one. *)
LEMMA ProgramStep ==
  ASSUME Careless = {}, IInv, TypeOK', Program
  PROVE  IInv'
<1> DEFINE A == Reach(active, refs)
<1> DEFINE Tame(new) ==
      /\ new \in SUBSET Cell
      /\ new \subseteq store' \cap marked'
      /\ store \subseteq store' /\ marked \subseteq marked'
      /\ \A c \in Cell \ store' : refs'[c] = {}
      /\ \A c \in new : refs'[c] = {}
      /\ \A x \in Cell :
           \/ refs'[x] \subseteq refs[x]
           \/ x \in active /\ refs'[x] \subseteq refs[x] \cup active
      /\ active' \subseteq A \cup new \cup pending
      /\ gcState = "MarkStatic" => active' \subseteq A \cup new
      /\ hidden' \cup pending' \subseteq InUse
      /\ FlagsOK'
<1> USE DEF IInv, TypeOK, heapVars, rootVars, Cell, NothingInUseIsFreed,
            FlagsOK, UnusedOK
<1>0. /\ InUse \in SUBSET Cell /\ active \cup hidden \cup pending \subseteq InUse
      /\ active \subseteq A /\ A \subseteq InUse
      /\ \A x \in A : refs[x] \subseteq A
  BY InUseIsClosed, ActiveIsClosed
<1>1. ASSUME NEW c \in Cell, New(c) PROVE Tame({c})
  BY <1>0, <1>1 DEF New
<1>2. ASSUME NEW c \in Cell, Load(c) PROVE Tame({})
  <2>1. c \in A
    BY <1>0, <1>2 DEF Load, HiddenOK
  <2> QED
    BY <1>0, <1>2, <2>1 DEF Load
<1>3. ASSUME NEW c \in Cell, Drop(c) PROVE Tame({})
  BY <1>0, <1>3 DEF Drop
<1>4. ASSUME NEW o \in Object, NEW c \in Cell, Store(o, c) PROVE Tame({})
  BY <1>0, <1>4 DEF Store
<1>5. ASSUME NEW o \in Object, NEW c \in Cell, AppendElement(o, c)
      PROVE  Tame({})
  BY <1>0, <1>5 DEF AppendElement
<1>6. ASSUME NEW o \in Object, NEW c \in Cell, Remove(o, c) PROVE Tame({})
  BY <1>0, <1>6 DEF Remove
<1>7. ASSUME NEW c \in Cell, Call(c) \/ Return(c) \/ Lookup(c) PROVE Tame({})
  BY <1>0, <1>7 DEF Call, Return, Lookup
<1>8. ASSUME NEW c \in Cell, Answer(c) PROVE Tame({})
  BY <1>0, <1>8 DEF Answer
<1>9. \E new \in SUBSET Cell : Tame(new)
  <2> HIDE DEF Tame
  <2>1. {} \in SUBSET Cell /\ \A c \in Cell : {c} \in SUBSET Cell
    OBVIOUS
  <2> QED
    BY <2>1, <1>1, <1>2, <1>3, <1>4, <1>5, <1>6, <1>7, <1>8 DEF Program
<1>10. PICK new \in SUBSET Cell : Tame(new)
  BY <1>9
<1>11. gcState' = gcState /\ HiddenOK'
  BY DEF Program, Running, gcVars, Careful, HiddenOK
<1>12. /\ InUse' \subseteq InUse \cup new
       /\ gcState = "MarkStatic" => Reach(active', refs') \subseteq A \cup new
  BY <1>10, NothingComesIntoUse
<1>13. NothingInUseIsFreed' /\ AllMarked'
  BY <1>10, <1>11, <1>12 DEF AllMarked
<1>14. ActiveMarked'
  BY <1>10, <1>11, <1>12 DEF ActiveMarked
<1> QED
  BY <1>10, <1>11, <1>13, <1>14

(* A step of the collector that frees nothing and moves no reference. *)
LEMMA QuietStep ==
  ASSUME IInv, TypeOK', UNCHANGED <<store, refs, rootVars>>, FlagsOK',
         ActiveMarked', AllMarked'
  PROVE  IInv'
<1>1. InUse' = InUse /\ Reach(active, refs)' = Reach(active, refs)
  BY DEF InUse, rootVars
<1> QED
  BY <1>1 DEF IInv, UnusedOK, HiddenOK, NothingInUseIsFreed, rootVars

(* Marking follows all the references there are. *)
LEMMA MarkStep ==
  ASSUME IInv, MarkActive \/ MarkStatic
  PROVE  FlagsOK' /\ ActiveMarked' /\ AllMarked'
<1> USE DEF IInv
<1>1. Walked = refs
  BY WalkedIsRefs
<1>2. PICK R : Mark(R) /\ refs' = refs
  BY DEF MarkActive, MarkStatic
<1>3. FlagsOK'
  BY <1>2 DEF Mark, FlagsOK, TypeOK
<1>4. CASE MarkActive
  <2>1. marked' = marked \cup Reach(active, refs) /\ gcState' = "MarkStatic"
    BY <1>1, <1>4 DEF MarkActive, Mark
  <2>2. Reach(active, refs)' = Reach(active, refs)
    BY <1>4 DEF MarkActive, rootVars
  <2> QED
    BY <1>3, <2>1, <2>2 DEF ActiveMarked, AllMarked
<1>5. CASE MarkStatic
  <2> DEFINE A == Reach(active, refs)
             P == Reach(pending, refs)
  <2>1. marked' = marked \cup P /\ gcState' = "SweepObj" /\ InUse' = InUse
    BY <1>1, <1>5 DEF MarkStatic, Mark, rootVars, InUse
  <2>2. A \subseteq marked
    BY <1>5 DEF MarkStatic, ActiveMarked
  <2>3. pending \in SUBSET Cell /\ refs \in Graph
    BY DEF TypeOK, Cell, Graph
  <2>4. /\ P \in SUBSET Cell /\ pending \subseteq P
        /\ \A x \in P : refs[x] \subseteq P
    BY <2>3, ReachHoldsRoots, ReachFollows, ReachIsCells
  <2>5. InUse \subseteq A \cup P
    <3>1. A \cup P \in SUBSET Cell
      BY <2>4, ActiveIsClosed
    <3>2. active \cup hidden \cup pending \subseteq A \cup P
      BY <2>4, ActiveIsClosed DEF HiddenOK
    <3>3. \A x \in A \cup P : refs[x] \subseteq A \cup P
      BY <2>4, ActiveIsClosed
    <3> QED
      BY <3>1, <3>2, <3>3, ReachIsLeast DEF InUse
  <2> QED
    BY <1>3, <2>1, <2>2, <2>5 DEF ActiveMarked, AllMarked
<1> QED
  BY <1>4, <1>5

(* What is swept is not in use, and was not held by anything that is. *)
LEMMA SweepStep ==
  ASSUME IInv, TypeOK', SweepObj \/ SweepStr
  PROVE  IInv'
<1> USE DEF IInv
<1>1. PICK dead \in SUBSET Cell :
        /\ Free(dead) /\ dead \cap marked = {}
        /\ gcState \in {"SweepObj", "SweepStr"}
        /\ gcState' \in {"SweepStr", "ClearNullObj"}
        /\ UNCHANGED <<needsGC, marked, active, hidden, pending>>
  BY DEF SweepObj, SweepStr, rootVars, Cell
<1>2. InUse \subseteq marked
  BY <1>1 DEF AllMarked
<1>3. /\ \A x \in Cell : refs'[x] = (IF x \in dead THEN {} ELSE refs[x])
      /\ store' = store \ dead
  BY <1>1 DEF Free
<1>4. InUse' \subseteq InUse
  <2>1. active' \cup hidden' \cup pending' \subseteq InUse
    BY <1>1, InUseIsClosed
  <2>2. \A x \in InUse : refs'[x] \subseteq InUse
    BY <1>3, InUseIsClosed
  <2>3. Reach(active' \cup hidden' \cup pending', refs') \subseteq InUse
    BY <2>1, <2>2, InUseIsClosed, ReachIsLeast
  <2> QED
    BY <2>3 DEF InUse
<1>5. HiddenOK'
  <2> DEFINE B == Reach(active', refs')
  <2>1. B \in SUBSET Cell /\ active' \subseteq B /\ B \subseteq InUse
        /\ \A x \in B : refs'[x] \subseteq B
    <3>1. /\ active' \in SUBSET Cell /\ refs' \in Graph
          /\ active' \cup hidden' \cup pending' \in SUBSET Cell
      BY DEF TypeOK, Graph, Cell
    <3>2. B \in SUBSET Cell /\ active' \subseteq B
          /\ \A x \in B : refs'[x] \subseteq B
      BY <3>1, ReachHoldsRoots, ReachFollows, ReachIsCells
    <3>3. B \subseteq Reach(active' \cup hidden' \cup pending', refs')
      BY <3>1, ReachIsMonotone
    <3> QED
      BY <1>4, <3>2, <3>3 DEF InUse
  <2>2. \A x \in B : refs[x] \subseteq B
    BY <1>1, <1>2, <1>3, <2>1
  <2>3. Reach(active, refs) \subseteq B
    BY <1>1, <2>1, <2>2, ReachIsLeast
  <2> QED
    BY <1>1, <2>3 DEF HiddenOK
<1>6. NothingInUseIsFreed' /\ AllMarked' /\ ActiveMarked'
  BY <1>1, <1>2, <1>3, <1>4
     DEF NothingInUseIsFreed, AllMarked, ActiveMarked
<1>7. FlagsOK' /\ UnusedOK'
  BY <1>1, <1>3, CollectorConstantsOK DEF FlagsOK, UnusedOK, Cell
<1> QED
  BY <1>5, <1>6, <1>7

LEMMA CollectStep ==
  ASSUME IInv, TypeOK', Collect \/ ForceGC \/ UNCHANGED vars
  PROVE  IInv'
<1> USE DEF IInv
<1>1. CASE MarkActive \/ MarkStatic
  <2>1. UNCHANGED <<store, refs, rootVars>>
    BY <1>1 DEF MarkActive, MarkStatic
  <2> QED
    BY <1>1, <2>1, MarkStep, QuietStep
<1>2. CASE SweepObj \/ SweepStr
  BY <1>2, SweepStep
<1>3. CASE Wait \/ ClearMarkedObj \/ ClearMarkedStr \/ ClearNullObj
             \/ ClearNullStr \/ ForceGC \/ UNCHANGED vars
  <2>1. UNCHANGED <<store, refs, needsGC, rootVars>>
    BY <1>3 DEF Wait, ClearMarkedObj, ClearMarkedStr, ClearNullObj,
                ClearNullStr, ForceGC, vars, heapVars
  <2>2. \/ gcState' \notin {"MarkStatic", "SweepObj", "SweepStr"}
        \/ gcState' = gcState /\ marked' = marked
    BY <1>3 DEF Wait, ClearMarkedObj, ClearMarkedStr, ClearNullObj,
                ClearNullStr, ForceGC, vars, heapVars, gcVars
  <2>3. InUse' = InUse /\ Reach(active, refs)' = Reach(active, refs)
    BY <2>1 DEF InUse, rootVars
  <2>4. FlagsOK' /\ ActiveMarked' /\ AllMarked'
    BY <2>1, <2>2, <2>3 DEF FlagsOK, ActiveMarked, AllMarked
  <2> QED
    BY <2>1, <2>4, QuietStep
<1> QED
  BY <1>1, <1>2, <1>3 DEF Collect

LEMMA InductiveInvariant ==
  ASSUME Careless = {} PROVE Spec => []IInv
<1>1. Init => IInv
  <2> SUFFICES ASSUME Init PROVE IInv
    OBVIOUS
  <2>1. TypeOK
    BY CollectorConstantsOK DEF Init, TypeOK, States, Cell
  <2>2. InUse = {}
    <3>1. active \cup hidden \cup pending \subseteq {}
      BY DEF Init
    <3>2. Reach(active \cup hidden \cup pending, refs) \subseteq {}
      BY <3>1, ReachIsLeast
    <3> QED
      BY <3>2 DEF InUse
  <2> QED
    BY <2>1, <2>2, CollectorConstantsOK
       DEF Init, IInv, FlagsOK, UnusedOK, HiddenOK, ActiveMarked, AllMarked,
           NothingInUseIsFreed, Cell
<1>2. IInv /\ [Next]_vars => IInv'
  BY TypeStep, ProgramStep, CollectStep DEF IInv, Next
<1> QED
  BY <1>1, <1>2, PTL DEF Spec

(* THEOREM: for any objects, strings and thresholds, nothing the program can
   get hold of is freed by a collection done in steps, as long as the program
   does none of the careless things. *)
THEOREM CollectorIsSafe ==
  ASSUME Careless = {} PROVE Spec => []NothingInUseIsFreed
<1>1. IInv => NothingInUseIsFreed
  BY DEF IInv
<1> QED
  BY <1>1, InductiveInvariant, PTL

-----------------------------------------------------------------------------
(* While a forced call does its whole cycle the program stands still: what is
   marked is in use, and what is not marked goes. *)
ForcedInv ==
  force = "full" =>
    /\ gcState = "ClearMarkedStr" => marked \cap Object = {}
    /\ gcState = "MarkActive" => marked = {}
    /\ gcState \in {"MarkStatic", "SweepObj", "SweepStr"} => marked \subseteq InUse
    /\ gcState = "SweepStr" => store \cap Object \subseteq marked
    /\ gcState \in {"ClearNullObj", "ClearNullStr"} => store \subseteq InUse

LEMMA ForcedStep ==
  ASSUME IInv, TypeOK', ForcedInv, [Next]_vars
  PROVE  ForcedInv'
<1> USE DEF ForcedInv, IInv
<1>1. CASE Program
  BY <1>1 DEF Program, Running, gcVars
<1>2. CASE Wait \/ ClearMarkedObj \/ ClearMarkedStr \/ ForceGC \/ ClearNullStr
  BY <1>2, CollectorConstantsOK
     DEF Wait, ClearMarkedObj, ClearMarkedStr, ForceGC, ClearNullStr, TypeOK, Cell
<1>3. CASE ClearNullObj \/ UNCHANGED vars
  <2>1. UNCHANGED <<store, refs, marked, active, hidden, pending, force>>
    BY <1>3 DEF ClearNullObj, vars, heapVars, rootVars, gcVars
  <2>2. \/ gcState' = gcState
        \/ gcState = "ClearNullObj" /\ gcState' = "ClearNullStr"
    BY <1>3 DEF ClearNullObj, vars, gcVars
  <2> QED
    BY <2>1, <2>2 DEF InUse
<1>4. CASE MarkActive \/ MarkStatic
  <2>1. PICK R \in SUBSET Cell :
          /\ Mark(R) /\ R \subseteq InUse
          /\ gcState \in {"MarkActive", "MarkStatic"}
          /\ gcState' \in {"MarkStatic", "SweepObj"}
          /\ UNCHANGED <<store, refs, active, hidden, pending, force>>
    <3>1. active \in SUBSET Cell /\ pending \in SUBSET Cell
          /\ active \subseteq InUse /\ pending \subseteq InUse
      BY InUseIsClosed DEF TypeOK, Cell
    <3>2. CASE MarkActive
      BY <3>1, <3>2 DEF MarkActive, rootVars
    <3>3. CASE MarkStatic
      BY <3>1, <3>3 DEF MarkStatic, rootVars
    <3> QED
      BY <1>4, <3>2, <3>3
  <2>2. Reach(R, Walked) \subseteq InUse
    BY <2>1, WalkedIsRefs, InUseIsClosed, ReachIsLeast
  <2>3. marked' = marked \cup Reach(R, Walked) /\ InUse' = InUse
    BY <2>1 DEF Mark, InUse
  <2> QED
    BY <2>1, <2>2, <2>3
<1>5. CASE SweepObj \/ SweepStr
  <2>1. PICK dead \in {Object \ marked, String \ marked} :
          /\ Free(dead) /\ dead \cap InUse = {}
          /\ \/ /\ gcState = "SweepObj" /\ dead = Object \ marked
                /\ gcState' = "SweepStr"
             \/ /\ gcState = "SweepStr" /\ dead = String \ marked
                /\ gcState' = "ClearNullObj"
          /\ UNCHANGED <<marked, active, hidden, pending, force>>
    BY <1>5 DEF SweepObj, SweepStr, rootVars, AllMarked
  <2>2. /\ \A x \in Cell : refs'[x] = (IF x \in dead THEN {} ELSE refs[x])
        /\ store' = store \ dead
    BY <2>1 DEF Free
  <2>3. InUse \subseteq InUse'
    <3> DEFINE Roots == active' \cup hidden' \cup pending'
    <3>1. Roots \in SUBSET Cell /\ refs' \in Graph
      BY DEF TypeOK, Graph, Cell
    <3>2. InUse' \in SUBSET Cell /\ Roots \subseteq InUse'
          /\ \A x \in InUse' : refs'[x] \subseteq InUse'
      BY <3>1, ReachHoldsRoots, ReachFollows, ReachIsCells DEF InUse
    <3> DEFINE Both == InUse \cap InUse'
    <3>3. Both \in SUBSET Cell /\ active \cup hidden \cup pending \subseteq Both
      BY <2>1, <3>2, InUseIsClosed
    <3>4. \A x \in Both : refs[x] \subseteq Both
      BY <2>1, <2>2, <3>2, InUseIsClosed
    <3>5. Reach(active \cup hidden \cup pending, refs) \subseteq Both
      BY <3>3, <3>4, ReachIsLeast
    <3> QED
      BY <3>5 DEF InUse
  <2>4. CASE gcState = "SweepObj"
    BY <2>1, <2>2, <2>3, <2>4
  <2>5. CASE gcState = "SweepStr"
    BY <2>1, <2>2, <2>3, <2>5 DEF TypeOK, Cell
  <2> QED
    BY <2>1, <2>4, <2>5
<1> QED
  BY <1>1, <1>2, <1>3, <1>4, <1>5 DEF Next, Collect

(* THEOREM: a forced call returns with nothing left but what is in use, even
   when it found a cycle half done. *)
THEOREM ForcedIsThorough ==
  ASSUME Careless = {} PROVE Spec => ForcedLeavesNoGarbage
<1>1. Init => ForcedInv
  BY DEF Init, ForcedInv
<1>2. IInv /\ IInv' /\ ForcedInv /\ [Next]_vars => ForcedInv'
  BY ForcedStep DEF IInv
<1>3. ForcedInv /\ [Next]_vars =>
        [force = "full" /\ force' = "no" => store \subseteq InUse]_vars
  <2> SUFFICES ASSUME ForcedInv, Next, force = "full", force' = "no"
               PROVE  store \subseteq InUse
    OBVIOUS
  <2>1. ClearNullStr
    BY DEF Next, Collect, Program, Running, gcVars, Wait, ClearMarkedObj,
           ClearMarkedStr, MarkActive, MarkStatic, SweepObj, SweepStr,
           ClearNullObj, ForceGC
  <2> QED
    BY <2>1 DEF ClearNullStr, ForcedInv
<1> QED
  BY <1>1, <1>2, <1>3, InductiveInvariant, PTL DEF Spec, ForcedLeavesNoGarbage
=============================================================================

-------------------------- MODULE TaskManagerProofs --------------------------
(***************************************************************************)
(* Proofs about the task list of TaskManager, for every set of tasks, all  *)
(* delays and any horizon.                                                 *)
(*                                                                         *)
(* The first part is about Reach alone: how the set of tasks a loop over   *)
(* the list visits changes with each change of the links.  The second part *)
(* shows the inductive invariant preserved by every operation, the third   *)
(* that the list is an implementation of TimerQueue.                       *)
(***************************************************************************)
EXTENDS TaskQueue, FiniteSetTheorems, SequenceTheorems, TLAPS

(* One path, for any head and links. *)
IsPath(h, n) ==
  /\ \A t \in Reach(h, n) : n[t] # NoTask => n[t] # h
  /\ \A t, u \in Reach(h, n) : n[t] = n[u] /\ n[t] # NoTask => t = u

Links == [Task -> Task \cup {NoTask}]

-----------------------------------------------------------------------------
(* A loop visits tasks only, the head first, and the successor of whatever
   it visits. *)
LEMMA ReachBasics ==
  ASSUME NEW h \in Task \cup {NoTask}, NEW n \in Links
  PROVE  /\ Reach(h, n) \subseteq Task
         /\ h # NoTask => h \in Reach(h, n)
         /\ \A u \in Reach(h, n) : n[u] # NoTask => n[u] \in Reach(h, n)
<1>1. Reach(h, n) \subseteq Task
  BY DEF Reach
<1>2. h # NoTask => h \in Reach(h, n)
  BY DEF Reach
<1>3. ASSUME NEW u \in Reach(h, n), n[u] # NoTask
      PROVE  n[u] \in Reach(h, n)
  <2>1. n[u] \in Task
    BY <1>1, <1>3 DEF Links
  <2>2. ASSUME NEW S \in SUBSET Task,
               h # NoTask => h \in S,
               \A v \in S : n[v] # NoTask => n[v] \in S
        PROVE  n[u] \in S
    <3>1. u \in S
      BY <1>3, <2>2 DEF Reach
    <3>2. QED
      BY <1>3, <2>2, <3>1
  <2>3. QED
    BY <2>1, <2>2 DEF Reach
<1>4. QED
  BY <1>1, <1>2, <1>3

(* Whatever holds the head and is closed under the links holds all the loop
   visits. *)
LEMMA ReachLeast ==
  ASSUME NEW h, NEW n, NEW S \in SUBSET Task,
         h # NoTask => h \in S,
         \A u \in S : n[u] # NoTask => n[u] \in S
  PROVE  Reach(h, n) \subseteq S
BY DEF Reach

(* A loop from the null pointer visits nothing. *)
LEMMA ReachNothing ==
  ASSUME NEW n PROVE Reach(NoTask, n) = {}
<1>1. {} \in SUBSET Task
  OBVIOUS
<1>2. \A t \in Reach(NoTask, n) : t \in {}
  BY <1>1 DEF Reach
<1>3. QED
  BY <1>2

(* No task of a path is its own successor. *)
LEMMA NoSelfLoop ==
  ASSUME NEW h \in Task \cup {NoTask}, NEW n \in Links, IsPath(h, n),
         NEW t \in Reach(h, n)
  PROVE  n[t] # t
<1> DEFINE S == Reach(h, n) \ {t}
<1>1. SUFFICES ASSUME n[t] = t PROVE FALSE
  OBVIOUS
<1>2. t \in Task /\ t # NoTask
  BY ReachBasics, ConstantsOK
<1>3. t # h
  BY <1>1, <1>2 DEF IsPath
<1>4. S \in SUBSET Task
  BY ReachBasics
<1>5. h # NoTask => h \in S
  BY <1>3, ReachBasics
<1>6. ASSUME NEW u \in S, n[u] # NoTask PROVE n[u] \in S
  <2>1. n[u] \in Reach(h, n)
    BY <1>6, ReachBasics
  <2>2. n[u] # t
    BY <1>1, <1>2, <1>6 DEF IsPath
  <2>3. QED
    BY <2>1, <2>2
<1>7. Reach(h, n) \subseteq S
  <2> HIDE DEF S
  <2> QED BY <1>4, <1>5, <1>6, ReachLeast
<1>8. QED
  BY <1>7

-----------------------------------------------------------------------------
(* A task put in front is all that the list gains. *)
LEMMA ReachLinkFirst ==
  ASSUME NEW h \in Task \cup {NoTask}, NEW n \in Links, NEW t \in Task,
         t \notin Reach(h, n)
  PROVE  Reach(t, [n EXCEPT ![t] = h]) = Reach(h, n) \cup {t}
<1> DEFINE m == [n EXCEPT ![t] = h]
           R == Reach(h, n)
<1>1. m \in Links /\ m[t] = h /\ \A u \in Task : u # t => m[u] = n[u]
  BY DEF Links
<1> HIDE DEF m
<1>2. R \subseteq Task /\ (h # NoTask => h \in R)
  BY ReachBasics
<1>3. \A u \in R : n[u] # NoTask => n[u] \in R
  BY ReachBasics
<1> HIDE DEF R
<1>4. Reach(t, m) \subseteq R \cup {t}
  <2>1. \A u \in R \cup {t} : m[u] # NoTask => m[u] \in R \cup {t}
    BY <1>1, <1>2, <1>3
  <2>2. R \cup {t} \in SUBSET Task
    BY <1>2
  <2>3. QED
    BY <2>1, <2>2, ReachLeast
<1>5. R \subseteq Reach(t, m)
  <2> DEFINE S == Reach(t, m)
  <2>1. S \subseteq Task /\ t \in S /\ \A u \in S : m[u] # NoTask => m[u] \in S
    BY <1>1, ReachBasics, ConstantsOK
  <2> HIDE DEF S
  <2> DEFINE Q == S \cap R
  <2>2. h # NoTask => h \in Q
    BY <1>1, <1>2, <2>1
  <2>3. \A u \in Q : n[u] # NoTask => n[u] \in Q
    <3>1. \A u \in R : u # t
      BY DEF R
    <3>2. QED
      BY <1>1, <1>2, <1>3, <2>1, <3>1
  <2>4. Q \in SUBSET Task
    BY <1>2
  <2>5. Reach(h, n) \subseteq Q
    <3> HIDE DEF Q
    <3> QED BY <2>2, <2>3, <2>4, ReachLeast
  <2>6. QED
    BY <2>5 DEF R, S
<1>6. t \in Reach(t, m)
  BY <1>1, ReachBasics, ConstantsOK
<1>7. QED
  BY <1>4, <1>5, <1>6 DEF m, R

(* So is a task put behind one of the list. *)
LEMMA ReachLinkBehind ==
  ASSUME NEW h \in Task \cup {NoTask}, NEW n \in Links, NEW t \in Task,
         t \notin Reach(h, n), NEW p \in Reach(h, n),
         NEW m \in Links, m[p] = t, m[t] = n[p],
         \A u \in Task : u # t /\ u # p => m[u] = n[u]
  PROVE  Reach(h, m) = Reach(h, n) \cup {t}
<1> DEFINE R == Reach(h, n)
<1>1. R \subseteq Task /\ (h # NoTask => h \in R)
  BY ReachBasics
<1>2. \A u \in R : n[u] # NoTask => n[u] \in R
  BY ReachBasics
<1>3. p \in R /\ p \in Task /\ t \notin R /\ p # t
  BY <1>1
<1>4. /\ m \in Links /\ m[p] = t /\ m[t] = n[p]
      /\ \A u \in Task : u # t /\ u # p => m[u] = n[u]
  OBVIOUS
<1> HIDE DEF R
<1>5. Reach(h, m) \subseteq R \cup {t}
  <2>1. \A u \in R \cup {t} : m[u] # NoTask => m[u] \in R \cup {t}
    BY <1>1, <1>2, <1>3, <1>4
  <2>2. R \cup {t} \in SUBSET Task
    BY <1>1
  <2>3. QED
    BY <1>1, <2>1, <2>2, ReachLeast
<1>6. R \subseteq Reach(h, m)
  <2> DEFINE S == Reach(h, m)
  <2>1. /\ S \subseteq Task /\ (h # NoTask => h \in S)
        /\ \A u \in S : m[u] # NoTask => m[u] \in S
    BY <1>4, ReachBasics
  <2> HIDE DEF S
  <2> DEFINE Q == S \cap R
  <2>2. h # NoTask => h \in Q
    BY <1>1, <2>1
  <2>3. ASSUME NEW u \in Q, n[u] # NoTask PROVE n[u] \in Q
    <3>1. n[u] \in R
      BY <1>2, <2>3
    <3>2. CASE u = p
      <4>1. t \in S
        BY <1>4, <2>1, <2>3, <3>2, ConstantsOK
      <4>2. QED
        BY <1>4, <2>1, <2>3, <3>1, <3>2, <4>1
    <3>3. CASE u # p
      BY <1>1, <1>3, <1>4, <2>1, <2>3, <3>1, <3>3
    <3>4. QED
      BY <3>2, <3>3
  <2>4. Q \in SUBSET Task
    BY <1>1
  <2>5. Reach(h, n) \subseteq Q
    <3> HIDE DEF Q
    <3> QED BY <2>2, <2>3, <2>4, ReachLeast
  <2>6. QED
    BY <2>5 DEF R, S
<1>7. t \in Reach(h, m)
  BY <1>3, <1>4, <1>6, ReachBasics, ConstantsOK
<1>8. QED
  BY <1>5, <1>6, <1>7 DEF R

(* The successor of a task that the loop does not visit makes no difference. *)
LEMMA ReachElsewhere ==
  ASSUME NEW h \in Task \cup {NoTask}, NEW n \in Links, NEW m \in Links,
         \A u \in Reach(h, n) : m[u] = n[u]
  PROVE  Reach(h, m) = Reach(h, n)
<1> DEFINE R == Reach(h, n)
           S == Reach(h, m)
<1>1. /\ R \subseteq Task /\ (h # NoTask => h \in R)
      /\ \A u \in R : n[u] # NoTask => n[u] \in R
  BY ReachBasics
<1>2. /\ S \subseteq Task /\ (h # NoTask => h \in S)
      /\ \A u \in S : m[u] # NoTask => m[u] \in S
  BY ReachBasics
<1>3. \A u \in R : m[u] = n[u]
  OBVIOUS
<1> HIDE DEF R, S
<1>4. S \subseteq R
  <2>1. R \in SUBSET Task /\ \A u \in R : m[u] # NoTask => m[u] \in R
    BY <1>1, <1>3
  <2>2. QED
    BY <1>1, <2>1, ReachLeast DEF S
<1>5. R \subseteq S
  <2> DEFINE Q == S \cap R
  <2>1. Q \in SUBSET Task /\ (h # NoTask => h \in Q)
    BY <1>1, <1>2
  <2>2. \A u \in Q : n[u] # NoTask => n[u] \in Q
    BY <1>1, <1>2, <1>3
  <2>3. Reach(h, n) \subseteq Q
    <3> HIDE DEF Q
    <3> QED BY <2>1, <2>2, ReachLeast
  <2>4. QED
    BY <2>3 DEF R
<1>6. QED
  BY <1>4, <1>5 DEF R, S

(* What is left of a path without its head. *)
LEMMA ReachPop ==
  ASSUME NEW h \in Task, NEW n \in Links, IsPath(h, n),
         NEW m \in Links, \A u \in Task : u # h => m[u] = n[u]
  PROVE  Reach(n[h], m) = Reach(h, n) \ {h}
<1> DEFINE R == Reach(h, n)
<1>1. R \subseteq Task /\ h \in R /\ h # NoTask
  BY ReachBasics, ConstantsOK
<1>2. \A u \in R : n[u] # NoTask => n[u] \in R \ {h}
  BY ReachBasics DEF IsPath
<1>3. Reach(n[h], m) \subseteq R \ {h}
  <2>1. \A u \in R \ {h} : m[u] # NoTask => m[u] \in R \ {h}
    BY <1>1, <1>2
  <2>2. n[h] # NoTask => n[h] \in R \ {h}
    BY <1>1, <1>2
  <2>3. R \ {h} \in SUBSET Task
    BY <1>1
  <2> HIDE DEF R
  <2>4. QED
    BY <2>1, <2>2, <2>3, ReachLeast
<1>4. R \subseteq Reach(n[h], m) \cup {h}
  <2> DEFINE S == Reach(n[h], m)
  <2>1. /\ S \subseteq Task /\ (n[h] # NoTask => n[h] \in S)
        /\ \A u \in S : m[u] # NoTask => m[u] \in S
    <3>1. n[h] \in Task \cup {NoTask}
      BY DEF Links
    <3>2. QED
      BY <3>1, ReachBasics
  <2> HIDE DEF S
  <2>2. \A u \in S \cup {h} : n[u] # NoTask => n[u] \in S \cup {h}
    BY <2>1
  <2>3. S \cup {h} \in SUBSET Task
    BY <2>1
  <2>4. Reach(h, n) \subseteq S \cup {h}
    BY <2>2, <2>3, ReachLeast
  <2>5. QED
    BY <2>4 DEF S
<1>5. QED
  BY <1>3, <1>4

(* Unlinking a task behind another one takes that task out and no other. *)
LEMMA ReachUnlink ==
  ASSUME NEW h \in Task \cup {NoTask}, NEW n \in Links, IsPath(h, n),
         NEW t \in Reach(h, n), t # h,
         NEW p \in Reach(h, n), n[p] = t,
         NEW m \in Links, m[p] = n[t], \A u \in Task : u # p => m[u] = n[u]
  PROVE  Reach(h, m) = Reach(h, n) \ {t}
<1> DEFINE R == Reach(h, n)
<1>1. R \subseteq Task /\ (h # NoTask => h \in R) /\ t \in R /\ p \in R
  BY ReachBasics
<1>2. \A u \in R : n[u] # NoTask => n[u] \in R
  BY ReachBasics
<1>3. n[t] # t /\ p # t
  BY NoSelfLoop
<1>4. \A u \in R : u # p => n[u] # t
  BY <1>1, ConstantsOK DEF IsPath
<1>5. m \in Links /\ m[p] = n[t] /\ \A u \in Task : u # p => m[u] = n[u]
  OBVIOUS
<1> HIDE DEF R
<1>6. Reach(h, m) \subseteq R \ {t}
  <2>1. \A u \in R \ {t} : m[u] # NoTask => m[u] \in R \ {t}
    BY <1>1, <1>2, <1>3, <1>4, <1>5
  <2>2. R \ {t} \in SUBSET Task
    BY <1>1
  <2>3. h # NoTask => h \in R \ {t}
    BY <1>1
  <2>4. QED
    BY <2>1, <2>2, <2>3, ReachLeast
<1>7. R \subseteq Reach(h, m) \cup {t}
  <2> DEFINE S == Reach(h, m)
  <2>1. /\ S \subseteq Task /\ (h # NoTask => h \in S)
        /\ \A u \in S : m[u] # NoTask => m[u] \in S
    BY <1>5, ReachBasics
  <2> HIDE DEF S
  <2>2. CASE p \in S
    <3>1. \A u \in S \cup {t} : n[u] # NoTask => n[u] \in S \cup {t}
      BY <1>1, <1>5, <2>1, <2>2
    <3>2. S \cup {t} \in SUBSET Task
      BY <1>1, <2>1
    <3>3. Reach(h, n) \subseteq S \cup {t}
      BY <2>1, <3>1, <3>2, ReachLeast
    <3>4. QED
      BY <3>3 DEF R, S
  <2>3. CASE p \notin S
    <3>1. \A u \in S : n[u] # NoTask => n[u] \in S
      BY <1>5, <2>1, <2>3
    <3>2. Reach(h, n) \subseteq S
      BY <2>1, <3>1, ReachLeast
    <3>3. QED
      BY <3>2 DEF R, S
  <2>4. QED
    BY <2>2, <2>3
<1>8. t \notin Reach(h, m)
  BY <1>6
<1>9. QED
  BY <1>6, <1>7, <1>8 DEF R

-----------------------------------------------------------------------------
(* What the insertion point of runTask is worth: the task found is on the
   list and due no later than the new one, and the one behind it, if any,
   is due later. *)
LEMMA StopPoint ==
  ASSUME TypeOK, NEW t \in Task, t \notin Members, NEW at \in Int,
         ~ GoesFirst(t, at), NEW p \in StopsAt(t, at)
  PROVE  /\ p \in Members
         /\ fireAt[p] <= at
         /\ next[p] # NoTask => at < fireAt[next[p]]
<1> DEFINE S == {u \in Members : fireAt[u] <= at}
<1>1. head \in Task /\ next \in Links /\ fireAt \in [Task -> Int]
  <2>1. fireAt \in [Task -> Int]
    BY ConstantsOK DEF TypeOK
  <2>2. QED
    BY <2>1 DEF TypeOK, GoesFirst, Links
<1>2. Members \subseteq Task /\ head \in Members
  BY <1>1, ReachBasics, ConstantsOK DEF Members
<1>3. head \in S
  BY <1>1, <1>2, ConstantsOK DEF GoesFirst
<1>4. ASSUME NEW u \in S, Steps(t, at)[u] # NoTask
      PROVE  Steps(t, at)[u] \in S
  <2>1. u \in Task /\ u \in Members /\ u # t
    BY <1>2
  <2>2. /\ next[u] # NoTask /\ Steps(t, at)[u] = next[u]
        /\ ~ (next[u] # t /\ at < fireAt[next[u]])
    BY <1>4, <2>1 DEF Steps
  <2>3. next[u] \in Members
    BY <1>1, <2>1, <2>2, ReachBasics DEF Members
  <2>4. QED
    BY <1>1, <1>2, <2>2, <2>3
<1>5. Reach(head, Steps(t, at)) \subseteq S
  <2>1. S \in SUBSET Task
    BY <1>2
  <2> HIDE DEF S
  <2>2. QED
    BY <1>3, <1>4, <2>1, ReachLeast
<1>6. p \in S /\ Steps(t, at)[p] = NoTask
  BY <1>5 DEF StopsAt
<1>7. p \in Task /\ p # t
  BY <1>2, <1>6
<1>8. next[p] = NoTask \/ (next[p] # t /\ at < fireAt[next[p]])
  BY <1>6, <1>7 DEF Steps
<1>9. QED
  BY <1>6, <1>8

-----------------------------------------------------------------------------
(* The inductive invariant.  RepeaterOffList is the strengthening: without
   it fireEvent could put a task back that is on the list. *)
IInv == TypeOK /\ ListIsPath /\ ListIsSorted /\ NothingLost /\ RepeaterOffList

(* The part of it that the list operations are about. *)
ListInv == ListIsPath /\ ListIsSorted /\ NothingLost

(* The delay and the instant runTask works with are well typed. *)
LEMMA LaterType ==
  ASSUME TypeOK, NEW delay \in Int
  PROVE  /\ Clamp(delay) \in 0 .. MaxDelay
         /\ Later(Clamp(delay)) \in 0 .. MaxTime
BY ConstantsOK DEF TypeOK, Clamp, Later

LEMMA ListTypes ==
  ASSUME TypeOK
  PROVE  /\ head \in Task \cup {NoTask}
         /\ next \in Links
         /\ fireAt \in [Task -> Int]
         /\ Members \subseteq Task
         /\ head # NoTask => head \in Members
         /\ \A t \in Members : next[t] # NoTask => next[t] \in Members
<1>1. fireAt \in [Task -> Int]
  BY ConstantsOK DEF TypeOK
<1>2. head \in Task \cup {NoTask} /\ next \in Links
  BY DEF TypeOK, Links
<1>3. QED
  BY <1>1, <1>2, ReachBasics DEF Members

LEMMA PathOfList == ListIsPath <=> IsPath(head, next)
BY DEF ListIsPath, IsPath, Members

(* Task t, due at "at", is linked at the head, or behind p. *)
PutFirst(t, at) ==
  /\ head' = t /\ next' = [next EXCEPT ![t] = head]
  /\ fireAt' = [fireAt EXCEPT ![t] = at]
  /\ scheduled' = scheduled \cup {t}
  /\ head # NoTask => at < fireAt[head]

PutBehind(t, p, at) ==
  /\ head' = head /\ next' = [next EXCEPT ![t] = next[p], ![p] = t]
  /\ fireAt' = [fireAt EXCEPT ![t] = at]
  /\ scheduled' = scheduled \cup {t}
  /\ p \in Members /\ fireAt[p] <= at
  /\ next[p] # NoTask => at < fireAt[next[p]]

(* Putting a task at the head keeps the list a sorted path and adds just
   that task. *)
LEMMA FirstInv ==
  ASSUME TypeOK, ListInv, NEW t \in Task, t \notin Members, NEW at \in Int,
         PutFirst(t, at)
  PROVE  ListInv' /\ Members' = Members \cup {t}
<1>1. /\ head \in Task \cup {NoTask} /\ next \in Links
      /\ fireAt \in [Task -> Int] /\ Members \subseteq Task
      /\ head # NoTask => head \in Members
      /\ \A u \in Members : next[u] # NoTask => next[u] \in Members
  BY ListTypes
<1>2. at \in Int
  OBVIOUS
<1>3. /\ head' = t /\ next' = [next EXCEPT ![t] = head]
      /\ fireAt' = [fireAt EXCEPT ![t] = at]
      /\ scheduled' = scheduled \cup {t}
      /\ head # NoTask => at < fireAt[head]
  BY DEF PutFirst
<1>4. Members' = Members \cup {t}
  <2>1. Members' = Reach(t, [next EXCEPT ![t] = head])
    BY <1>3 DEF Members
  <2>2. t \notin Reach(head, next)
    BY DEF Members
  <2>3. Reach(t, [next EXCEPT ![t] = head]) = Reach(head, next) \cup {t}
    BY <1>1, <2>2, ReachLinkFirst
  <2>4. QED
    BY <2>1, <2>3 DEF Members
<1>5. /\ next'[t] = head /\ \A u \in Members : next'[u] = next[u]
      /\ fireAt'[t] = at /\ \A u \in Members : fireAt'[u] = fireAt[u]
  BY <1>1, <1>3 DEF Links
<1>6. ListIsPath'
  <2>1. ASSUME NEW u \in Members', next'[u] # NoTask
        PROVE  next'[u] # head'
    BY <1>1, <1>3, <1>4, <1>5, <2>1
  <2>2. ASSUME NEW u \in Members', NEW v \in Members',
               next'[u] = next'[v], next'[u] # NoTask
        PROVE  u = v
    <3>1. CASE u = t
      BY <1>4, <1>5, <2>2, <3>1 DEF ListInv, ListIsPath
    <3>2. CASE v = t
      BY <1>4, <1>5, <2>2, <3>2 DEF ListInv, ListIsPath
    <3>3. CASE u # t /\ v # t
      BY <1>4, <1>5, <2>2, <3>3 DEF ListInv, ListIsPath
    <3>4. QED
      BY <3>1, <3>2, <3>3
  <2>3. QED
    BY <2>1, <2>2 DEF ListIsPath
<1>7. ListIsSorted'
  <2>1. ASSUME NEW u \in Members', next'[u] # NoTask
        PROVE  fireAt'[u] <= fireAt'[next'[u]]
    <3>1. CASE u = t
      BY <1>1, <1>2, <1>3, <1>5, <2>1, <3>1
    <3>2. CASE u # t
      BY <1>1, <1>4, <1>5, <2>1, <3>2 DEF ListInv, ListIsSorted
    <3>3. QED
      BY <3>1, <3>2
  <2>2. QED
    BY <2>1 DEF ListIsSorted
<1>8. NothingLost'
  BY <1>3, <1>4 DEF NothingLost, ListInv
<1>9. QED
  BY <1>4, <1>6, <1>7, <1>8 DEF ListInv

(* So does putting it behind a task that is due no later, in front of one that
   is due later. *)
LEMMA BehindInv ==
  ASSUME TypeOK, ListInv, NEW t \in Task, t \notin Members, NEW at \in Int,
         NEW p, PutBehind(t, p, at)
  PROVE  ListInv' /\ Members' = Members \cup {t}
<1>1. /\ head \in Task \cup {NoTask} /\ next \in Links
      /\ fireAt \in [Task -> Int] /\ Members \subseteq Task
      /\ head # NoTask => head \in Members
      /\ \A u \in Members : next[u] # NoTask => next[u] \in Members
  BY ListTypes
<1>2. at \in Int
  OBVIOUS
<1>3. /\ head' = head /\ fireAt' = [fireAt EXCEPT ![t] = at]
      /\ scheduled' = scheduled \cup {t}
  BY DEF PutBehind
<1>4. next' = [next EXCEPT ![t] = next[p], ![p] = t]
  BY DEF PutBehind
<1>5. p \in Members /\ fireAt[p] <= at /\ (next[p] # NoTask => at < fireAt[next[p]])
  BY DEF PutBehind
<1>6. Members' = Members \cup {t}
  <2>1. Members' = Reach(head, next')
    BY <1>3 DEF Members
  <2>2. t \notin Reach(head, next) /\ p \in Reach(head, next)
    BY <1>5 DEF Members
  <2>3. /\ next' \in Links /\ next'[p] = t /\ next'[t] = next[p]
        /\ \A u \in Task : u # t /\ u # p => next'[u] = next[u]
    BY <1>1, <1>4, <1>5 DEF Links
  <2>4. Reach(head, next') = Reach(head, next) \cup {t}
    BY <1>1, <2>2, <2>3, ReachLinkBehind
  <2>5. QED
    BY <2>1, <2>4 DEF Members
<1>7. /\ next'[t] = next[p] /\ next'[p] = t /\ p # t
      /\ \A u \in Members : u # p => next'[u] = next[u]
      /\ fireAt'[t] = at /\ \A u \in Members : fireAt'[u] = fireAt[u]
  BY <1>1, <1>3, <1>4, <1>5 DEF Links
<1>8. ListIsPath'
  <2>1. head # NoTask
    BY <1>5, ReachNothing DEF Members
  <2>2. ASSUME NEW u \in Members', next'[u] # NoTask
        PROVE  next'[u] # head'
    BY <1>1, <1>3, <1>5, <1>6, <1>7, <2>1, <2>2 DEF ListInv, ListIsPath
  <2>3. \A u \in Members' : u # p => next'[u] # t
    BY <1>1, <1>5, <1>6, <1>7, ConstantsOK
  <2>4. ASSUME NEW u \in Members', NEW v \in Members',
               next'[u] = next'[v], next'[u] # NoTask
        PROVE  u = v
    <3>1. CASE u = p \/ v = p
      BY <1>7, <2>3, <2>4, <3>1
    <3>2. CASE u # p /\ v # p
      BY <1>5, <1>6, <1>7, <2>4, <3>2 DEF ListInv, ListIsPath
    <3>3. QED
      BY <3>1, <3>2
  <2>5. QED
    BY <2>2, <2>4 DEF ListIsPath
<1>9. ListIsSorted'
  <2>1. ASSUME NEW u \in Members', next'[u] # NoTask
        PROVE  fireAt'[u] <= fireAt'[next'[u]]
    <3>1. CASE u = p
      BY <1>5, <1>7, <3>1
    <3>2. CASE u = t
      <4>1. next[p] \in Members /\ at < fireAt[next[p]]
        BY <1>1, <1>5, <1>7, <2>1, <3>2
      <4>2. QED
        BY <1>1, <1>2, <1>7, <3>2, <4>1
    <3>3. CASE u # p /\ u # t
      BY <1>1, <1>6, <1>7, <2>1, <3>3 DEF ListInv, ListIsSorted
    <3>4. QED
      BY <3>1, <3>2, <3>3
  <2>2. QED
    BY <2>1 DEF ListIsSorted
<1>10. NothingLost'
  BY <1>3, <1>6 DEF NothingLost, ListInv
<1>11. QED
  BY <1>6, <1>8, <1>9, <1>10 DEF ListInv

(* So does runTask, which puts it where its loop stops. *)
LEMMA RunTaskInv ==
  ASSUME TypeOK, ListInv, NEW t \in Task, t \notin Members, NEW delay \in Int,
         RunTask(t, delay)
  PROVE  ListInv' /\ Members' = Members \cup {t}
<1> DEFINE at == Later(Clamp(delay))
<1>1. at \in Int
  BY LaterType, ConstantsOK
<1>2. CASE LinkFirst(t, delay)
  <2>1. PutFirst(t, at)
    BY <1>2 DEF LinkFirst, Stamp, GoesFirst, PutFirst
  <2> HIDE DEF at
  <2>2. QED
    BY <1>1, <2>1, FirstInv
<1>3. CASE LinkBehind(t, delay)
  <2>1. /\ head' = head /\ ~ GoesFirst(t, at)
        /\ fireAt' = [fireAt EXCEPT ![t] = at]
        /\ scheduled' = scheduled \cup {t}
    BY <1>3 DEF LinkBehind, Stamp
  <2>2. PICK p \in StopsAt(t, at) : next' = [next EXCEPT ![t] = next[p], ![p] = t]
    BY <1>3 DEF LinkBehind
  <2> HIDE DEF at
  <2>3. p \in Members /\ fireAt[p] <= at /\ (next[p] # NoTask => at < fireAt[next[p]])
    BY <1>1, <2>1, StopPoint
  <2>4. PutBehind(t, p, at)
    BY <2>1, <2>2, <2>3 DEF PutBehind
  <2>5. QED
    BY <1>1, <2>4, BehindInv
<1>4. QED
  BY <1>2, <1>3 DEF RunTask

(* removeTask takes its task out of the list, if it is there, and no other. *)
LEMMA UnlinkInv ==
  ASSUME TypeOK, ListInv, NEW t \in Task, Unlink(t)
  PROVE  ListInv' /\ Members' = Members \ {t}
<1>1. /\ head \in Task \cup {NoTask} /\ next \in Links
      /\ Members \subseteq Task
      /\ head # NoTask => head \in Members
      /\ \A u \in Members : next[u] # NoTask => next[u] \in Members
  BY ListTypes
<1>2. scheduled' = scheduled \ {t} /\ fireAt' = fireAt
  BY DEF Unlink
<1>3. IsPath(head, next)
  BY PathOfList DEF ListInv
<1>4. CASE t \notin Members
  <2>1. head' = head /\ next' = next
    BY <1>4 DEF Unlink
  <2>2. Members' = Members
    BY <2>1 DEF Members
  <2>3. QED
    BY <1>2, <1>4, <2>1, <2>2
       DEF ListInv, ListIsPath, ListIsSorted, NothingLost
<1>5. CASE t \in Members /\ t = head
  <2>1. head' = next[t] /\ next' = next /\ head \in Task
    BY <1>1, <1>5 DEF Unlink
  <2>2. Reach(next[head], next) = Reach(head, next) \ {head}
    BY <1>1, <1>3, <2>1, ReachPop
  <2>3. Members' = Members \ {t}
    BY <1>5, <2>1, <2>2 DEF Members
  <2>4. ListIsPath'
    <3>1. \A u \in Members' : next'[u] = next[u] /\ u # head
      BY <1>5, <2>1, <2>3
    <3>2. ASSUME NEW u \in Members', next'[u] # NoTask PROVE next'[u] # head'
      BY <1>5, <2>1, <2>3, <3>1, <3>2 DEF ListInv, ListIsPath
    <3>3. QED
      BY <2>1, <2>3, <3>2 DEF ListInv, ListIsPath
  <2>5. ListIsSorted'
    BY <1>2, <2>1, <2>3 DEF ListInv, ListIsSorted
  <2>6. QED
    BY <1>2, <2>3, <2>4, <2>5 DEF ListInv, NothingLost
<1>6. CASE t \in Members /\ t # head
  <2>1. PICK p \in Members : next[p] = t /\ next' = [next EXCEPT ![p] = next[t]]
    BY <1>6 DEF Unlink
  <2>2. head' = head
    BY <1>6 DEF Unlink
  <2>3. Members' = Members \ {t}
    <3>1. Members' = Reach(head, next')
      BY <2>2 DEF Members
    <3>2. t \in Reach(head, next) /\ p \in Reach(head, next)
      BY <1>6 DEF Members
    <3>3. /\ next' \in Links /\ next'[p] = next[t]
          /\ \A u \in Task : u # p => next'[u] = next[u]
      BY <1>1, <1>6, <2>1 DEF Links
    <3>4. Reach(head, next') = Reach(head, next) \ {t}
      <4>1. t # head /\ next[p] = t /\ head \in Task \cup {NoTask}
        BY <1>1, <1>6, <2>1
      <4>2. next \in Links /\ IsPath(head, next)
        BY <1>1, <1>3
      <4>3. QED
        BY <3>2, <3>3, <4>1, <4>2, ReachUnlink
    <3>5. QED
      BY <3>1, <3>4 DEF Members
  <2>4. /\ next'[p] = next[t] /\ p # t /\ next[t] # t
        /\ \A u \in Members : u # p => next'[u] = next[u]
    <3>1. next[t] # t /\ p # t
      BY <1>1, <1>3, <1>6, <2>1, NoSelfLoop DEF Members
    <3>2. QED
      BY <1>1, <2>1, <3>1 DEF Links
  <2>5. ListIsPath'
    <3>1. \A u \in Members' : u # p => next'[u] # next[t] \/ next'[u] = NoTask
      BY <1>6, <2>3, <2>4 DEF ListInv, ListIsPath
    <3>2. \A u \in Members' : next'[u] # NoTask => next'[u] # head'
      BY <1>6, <2>2, <2>3, <2>4 DEF ListInv, ListIsPath
    <3>3. ASSUME NEW u \in Members', NEW v \in Members',
                 next'[u] = next'[v], next'[u] # NoTask
          PROVE  u = v
      <4>1. CASE u = p \/ v = p
        BY <2>4, <3>1, <3>3, <4>1
      <4>2. CASE u # p /\ v # p
        BY <2>3, <2>4, <3>3, <4>2 DEF ListInv, ListIsPath
      <4>3. QED
        BY <4>1, <4>2
    <3>4. QED
      BY <3>2, <3>3 DEF ListIsPath
  <2>6. ListIsSorted'
    <3>1. ASSUME NEW u \in Members', next'[u] # NoTask
          PROVE  fireAt'[u] <= fireAt'[next'[u]]
      <4>1. CASE u = p
        <5>1. t \in Task /\ p \in Task /\ next[t] \in Task
          BY <1>1, <1>6, <2>1, <2>4, <3>1, <4>1
        <5>2. fireAt[p] <= fireAt[t] /\ fireAt[t] <= fireAt[next[t]]
          BY <1>6, <2>1, <2>4, <3>1, <4>1, <5>1, ConstantsOK
             DEF ListInv, ListIsSorted
        <5>3. fireAt \in [Task -> Int]
          BY ListTypes
        <5>4. QED
          BY <1>2, <2>4, <4>1, <5>1, <5>2, <5>3
      <4>2. CASE u # p
        BY <1>2, <2>3, <2>4, <3>1, <4>2 DEF ListInv, ListIsSorted
      <4>3. QED
        BY <4>1, <4>2
    <3>2. QED
      BY <3>1 DEF ListIsSorted
  <2>7. QED
    BY <1>2, <2>3, <2>5, <2>6 DEF ListInv, NothingLost
<1>7. QED
  BY <1>4, <1>5, <1>6

(* fireEvent takes the head off, and no other task. *)
LEMMA PopHeadInv ==
  ASSUME TypeOK, ListInv, PopHead
  PROVE  ListInv' /\ Members' = Members \ {head}
<1>1. /\ head \in Task /\ next \in Links /\ Members \subseteq Task
      /\ \A u \in Members : next[u] # NoTask => next[u] \in Members
  BY ListTypes DEF PopHead
<1>2. /\ head' = next[head] /\ next' = [next EXCEPT ![head] = NoTask]
      /\ scheduled' = scheduled \ {head} /\ fireAt' = fireAt
  BY DEF PopHead
<1>3. IsPath(head, next)
  BY PathOfList DEF ListInv
<1>4. next' \in Links /\ \A u \in Task : u # head => next'[u] = next[u]
  BY <1>1, <1>2 DEF Links
<1>5. Members' = Members \ {head}
  <2>1. Reach(next[head], next') = Reach(head, next) \ {head}
    BY <1>1, <1>3, <1>4, ReachPop
  <2>2. QED
    BY <1>2, <2>1 DEF Members
<1>6. \A u \in Members' : u \in Members /\ u # head /\ next'[u] = next[u]
  BY <1>1, <1>4, <1>5
<1>7. ListIsPath'
  <2>1. head \in Members
    BY <1>1, ListTypes, ConstantsOK
  <2>2. \A u \in Members' : next'[u] # NoTask => next'[u] # head'
    BY <1>2, <1>6, <2>1 DEF ListInv, ListIsPath
  <2>3. QED
    BY <1>6, <2>2 DEF ListInv, ListIsPath
<1>8. ListIsSorted'
  BY <1>2, <1>6 DEF ListInv, ListIsSorted
<1>9. QED
  BY <1>2, <1>5, <1>7, <1>8 DEF ListInv, NothingLost

-----------------------------------------------------------------------------
(* The invariant holds of the empty list. *)
LEMMA InitIInv == Init => IInv
<1> SUFFICES ASSUME Init PROVE IInv
  OBVIOUS
<1>1. TypeOK
  BY ConstantsOK DEF Init, TypeOK
<1>2. Members = {}
  BY ReachNothing DEF Init, Members
<1>3. QED
  BY <1>1, <1>2
     DEF Init, IInv, ListIsPath, ListIsSorted, NothingLost, RepeaterOffList

(* runTask leaves the list's variables well typed. *)
LEMMA RunTaskTypes ==
  ASSUME TypeOK, NEW t \in Task, NEW delay \in Int, RunTask(t, delay)
  PROVE  /\ head' \in Task \cup {NoTask}
         /\ next' \in [Task -> Task \cup {NoTask}]
         /\ fireAt' \in [Task -> -1 .. MaxTime]
         /\ msSet' \in [Task -> 0 .. MaxDelay]
         /\ scheduled' \in SUBSET Task
<1>1. /\ fireAt' \in [Task -> -1 .. MaxTime]
      /\ msSet' \in [Task -> 0 .. MaxDelay]
      /\ scheduled' \in SUBSET Task
  <2>1. /\ Clamp(delay) \in 0 .. MaxDelay
        /\ Later(Clamp(delay)) \in -1 .. MaxTime
    BY LaterType, ConstantsOK
  <2>2. Stamp(t, delay)
    BY DEF RunTask, LinkFirst, LinkBehind
  <2>3. QED
    BY <2>1, <2>2 DEF Stamp, TypeOK
<1>2. CASE LinkFirst(t, delay)
  BY <1>1, <1>2 DEF LinkFirst, TypeOK
<1>3. CASE LinkBehind(t, delay)
  <2>1. PICK p \in StopsAt(t, Later(Clamp(delay))) :
          next' = [next EXCEPT ![t] = next[p], ![p] = t]
    BY <1>3 DEF LinkBehind
  <2>2. p \in Task
    BY <2>1 DEF StopsAt, Reach
  <2>3. QED
    BY <1>1, <1>3, <2>1, <2>2 DEF LinkBehind, TypeOK
<1>4. QED
  BY <1>2, <1>3 DEF RunTask

(* Every operation leaves the variables well typed. *)
LEMMA TypeStep == TypeOK /\ [Next]_vars => TypeOK'
<1> SUFFICES ASSUME TypeOK, [Next]_vars PROVE TypeOK'
  OBVIOUS
<1>1. ASSUME NEW t \in Task, NEW delay \in Int, RunTask(t, delay)
      PROVE  /\ head' \in Task \cup {NoTask}
             /\ next' \in [Task -> Task \cup {NoTask}]
             /\ fireAt' \in [Task -> -1 .. MaxTime]
             /\ msSet' \in [Task -> 0 .. MaxDelay]
             /\ scheduled' \in SUBSET Task
  BY <1>1, RunTaskTypes
<1>2. ASSUME NEW t \in Task, NEW d \in Delays, NEW rep \in BOOLEAN,
             Schedule(t, d, rep)
      PROVE  TypeOK'
  <2>1. RunTask(t, d) /\ d \in Int
    BY <1>2, ConstantsOK DEF Schedule
  <2>2. QED
    BY <1>1, <1>2, <2>1 DEF Schedule, TypeOK
<1>3. ASSUME NEW t \in Task, RemoveTask(t) PROVE TypeOK'
  <2>1. next' \in [Task -> Task \cup {NoTask}] /\ head' \in Task \cup {NoTask}
    <3>1. Members \subseteq Task
      BY ListTypes
    <3>2. QED
      BY <1>3, <3>1 DEF RemoveTask, Unlink, TypeOK
  <2>2. QED
    BY <1>3, <2>1 DEF RemoveTask, Unlink, TypeOK
<1>4. CASE FireEvent
  BY <1>4 DEF FireEvent, PopHead, TypeOK
<1>5. CASE EndFire
  <2>1. CASE repeating[firing]
    <3>1. firing \in Task /\ RunTask(firing, msSet[firing])
      BY <1>5, <2>1 DEF EndFire, TypeOK
    <3>2. msSet[firing] \in Int
      BY <3>1, ConstantsOK DEF TypeOK
    <3>3. QED
      BY <1>1, <1>5, <3>1, <3>2 DEF EndFire, TypeOK
  <2>2. CASE ~ repeating[firing]
    BY <1>5, <2>2 DEF EndFire, listVars, TypeOK
  <2>3. QED
    BY <2>1, <2>2
<1>6. CASE Tick
  BY <1>6, ConstantsOK DEF Tick, listVars, TypeOK
<1>7. CASE UNCHANGED vars
  BY <1>7 DEF vars, TypeOK
<1>8. QED
  BY <1>2, <1>3, <1>4, <1>5, <1>6, <1>7 DEF Next

(* A step that touches neither the list nor the task that executes keeps the
   invariant's list part. *)
LEMMA ListUntouched ==
  ASSUME ListInv, UNCHANGED listVars
  PROVE  ListInv' /\ Members' = Members
BY DEF listVars, Members, ListInv, ListIsPath, ListIsSorted, NothingLost

LEMMA StepIInv == IInv /\ [Next]_vars => IInv'
<1> SUFFICES ASSUME IInv, [Next]_vars PROVE ListInv' /\ RepeaterOffList'
  BY TypeStep DEF IInv, ListInv
<1> USE DEF RepeaterOffList
<1>0. TypeOK /\ ListInv /\ RepeaterOffList
  BY DEF IInv, ListInv
<1>1. ASSUME NEW t \in Task, NEW d \in Delays, NEW rep \in BOOLEAN,
             Schedule(t, d, rep)
      PROVE  ListInv' /\ RepeaterOffList'
  <2>1. /\ t \notin Members /\ (t = firing => ~ rep)
        /\ RunTask(t, d) /\ d \in Int
        /\ repeating' = [repeating EXCEPT ![t] = rep] /\ firing' = firing
    BY <1>1, ConstantsOK DEF Schedule, MayRun
  <2>2. ListInv' /\ Members' = Members \cup {t}
    BY <1>0, <2>1, RunTaskInv
  <2>3. repeating \in [Task -> BOOLEAN]
    BY <1>0 DEF TypeOK
  <2>4. QED
    BY <1>0, <2>1, <2>2, <2>3 DEF TypeOK
<1>2. ASSUME NEW t \in Task, RemoveTask(t) PROVE ListInv' /\ RepeaterOffList'
  <2>1. ListInv' /\ Members' = Members \ {t}
    BY <1>0, <1>2, UnlinkInv DEF RemoveTask
  <2>2. QED
    BY <1>0, <1>2, <2>1 DEF RemoveTask
<1>3. CASE FireEvent
  <2>1. ListInv' /\ Members' = Members \ {head} /\ firing' = head
    BY <1>0, <1>3, PopHeadInv DEF FireEvent, PopHead
  <2>2. QED
    BY <2>1
<1>4. CASE EndFire
  <2>1. firing' = NoTask
    BY <1>4 DEF EndFire
  <2>2. CASE repeating[firing]
    <3>1. firing \in Task /\ firing \notin Members /\ RunTask(firing, msSet[firing])
      BY <1>0, <1>4, <2>2 DEF EndFire, TypeOK
    <3>2. msSet[firing] \in Int
      BY <1>0, <3>1, ConstantsOK DEF TypeOK
    <3>3. QED
      BY <1>0, <2>1, <3>1, <3>2, RunTaskInv
  <2>3. CASE ~ repeating[firing]
    BY <1>0, <1>4, <2>1, <2>3, ListUntouched DEF EndFire
  <2>4. QED
    BY <2>2, <2>3
<1>5. CASE Tick
  BY <1>0, <1>5, ListUntouched DEF Tick
<1>6. CASE UNCHANGED vars
  <2>1. UNCHANGED listVars /\ firing' = firing /\ repeating' = repeating
    BY <1>6 DEF vars, listVars
  <2>2. QED
    BY <1>0, <2>1, ListUntouched
<1>7. QED
  BY <1>1, <1>2, <1>3, <1>4, <1>5, <1>6 DEF Next

-----------------------------------------------------------------------------
(* The inductive invariant holds in every reachable state. *)
THEOREM Invariance == Spec => []IInv
BY InitIInv, StepIInv, PTL DEF Spec

(* The variables keep their types. *)
THEOREM TypeCorrect == Spec => []TypeOK
<1>1. IInv => TypeOK
  BY DEF IInv
<1>2. QED
  BY <1>1, Invariance, PTL

(* The links of the list form a path that ends, whatever is run, removed and
   fired in whatever order. *)
THEOREM ListStaysAPath == Spec => []ListIsPath
<1>1. IInv => ListIsPath
  BY DEF IInv
<1>2. QED
  BY <1>1, Invariance, PTL

(* The list stays in firing order. *)
THEOREM ListStaysSorted == Spec => []ListIsSorted
<1>1. IInv => ListIsSorted
  BY DEF IInv
<1>2. QED
  BY <1>1, Invariance, PTL

(* A task that was run and neither fired nor removed is on the list. *)
THEOREM NoTaskIsLost == Spec => []NothingLost
<1>1. IInv => NothingLost
  BY DEF IInv
<1>2. QED
  BY <1>1, Invariance, PTL

(* A repeating task that executes is not put on the list before fireEvent puts
   it back. *)
THEOREM RepeatersStayOff == Spec => []RepeaterOffList
<1>1. IInv => RepeaterOffList
  BY DEF IInv
<1>2. QED
  BY <1>1, Invariance, PTL

-----------------------------------------------------------------------------
(* q holds the tasks M, which are due at the times "at", once each and in the
   order of these times, which is that of the links n from the head h. *)
Orders(q, M, h, n, at) ==
  /\ IsFiniteSet(M)
  /\ q \in [1 .. Cardinality(M) -> M]
  /\ h = IF M = {} THEN NoTask ELSE q[1]
  /\ \A i \in 1 .. Cardinality(M) :
       n[q[i]] = IF i = Cardinality(M) THEN NoTask ELSE q[i + 1]
  /\ \A i, j \in 1 .. Cardinality(M) : q[i] = q[j] => i = j
  /\ \A t \in M : \E i \in 1 .. Cardinality(M) : q[i] = t
  /\ \A i, j \in 1 .. Cardinality(M) : i <= j => at[q[i]] <= at[q[j]]

LEMMA OrderTypes ==
  ASSUME NEW q, NEW M, NEW h, NEW n, NEW at, Orders(q, M, h, n, at)
  PROVE  /\ Cardinality(M) \in Nat /\ q \in Seq(M) /\ Len(q) = Cardinality(M)
         /\ DOMAIN q = 1 .. Cardinality(M)
         /\ M = {} <=> Cardinality(M) = 0
         /\ M = {} <=> q = <<>>
<1>1. Cardinality(M) \in Nat /\ (M = {} <=> Cardinality(M) = 0)
  BY FS_CardinalityType, FS_EmptySet DEF Orders
<1>2. q \in Seq(M) /\ Len(q) = Cardinality(M) /\ DOMAIN q = 1 .. Cardinality(M)
  <2>1. q \in [1 .. Cardinality(M) -> M]
    BY DEF Orders
  <2> QED BY <1>1, <2>1, SeqDef, LenProperties
<1>3. q = <<>> <=> Len(q) = 0
  BY <1>2, EmptySeq
<1> QED BY <1>1, <1>2, <1>3

LEMMA SameFunction ==
  ASSUME NEW A, NEW B, NEW f \in [A -> B], NEW g \in [A -> B], \A x \in A : f[x] = g[x]
  PROVE  f = g
OBVIOUS

(* The list is read off in one way only. *)
LEMMA OneOrder ==
  ASSUME NEW q, NEW h \in Task \cup {NoTask}, NEW n \in Links, NEW at,
         Orders(q, Reach(h, n), h, n, at)
  PROVE  InOrder(h, n) = q
<1> DEFINE M == Reach(h, n)
           c == Cardinality(M)
<1>1. /\ c \in Nat /\ q \in Seq(M) /\ Len(q) = c /\ DOMAIN q = 1 .. c
      /\ M = {} <=> c = 0
      /\ M = {} <=> q = <<>>
  BY OrderTypes
<1>2. M \subseteq Task
  BY ReachBasics
<1>3. /\ q \in [1 .. c -> M]
      /\ h = IF M = {} THEN NoTask ELSE q[1]
      /\ \A i \in 1 .. c : n[q[i]] = IF i = c THEN NoTask ELSE q[i + 1]
      /\ \A i, j \in 1 .. c : q[i] = q[j] => i = j
  BY DEF Orders
<1>4. Follows(q, h, n)
  BY <1>1, <1>3 DEF Follows
<1> HIDE DEF M, c
<1>5. ASSUME NEW r \in [1 .. c -> M], Follows(r, h, n) PROVE r = q
  <2> DEFINE S == {t \in Task : \E i \in 1 .. c : r[i] = t /\ q[i] = t}
  <2>1. r \in Seq(M) /\ Len(r) = c /\ DOMAIN r = 1 .. c
    BY <1>1, <1>5, SeqDef, LenProperties
  <2>2. \A i \in 1 .. c : n[r[i]] = IF i = c THEN NoTask ELSE r[i + 1]
    BY <1>5, <2>1 DEF Follows
  <2>3. h # NoTask => h \in S
    <3>1. SUFFICES ASSUME h # NoTask PROVE h \in S
      OBVIOUS
    <3>2. M # {} /\ c >= 1 /\ r # <<>>
      BY <1>1, <1>3, <2>1, <3>1, EmptySeq
    <3>3. r[1] = h /\ q[1] = h
      BY <1>3, <1>5, <3>2 DEF Follows
    <3> QED BY <1>1, <3>1, <3>2, <3>3
  <2>4. ASSUME NEW t \in S, n[t] # NoTask PROVE n[t] \in S
    <3>1. PICK i \in 1 .. c : r[i] = t /\ q[i] = t
      OBVIOUS
    <3>2. i # c /\ n[t] = r[i + 1] /\ n[t] = q[i + 1]
      BY <1>3, <2>2, <2>4, <3>1
    <3>3. i + 1 \in 1 .. c
      BY <1>1, <3>2
    <3>4. n[t] \in Task
      BY <1>2, <1>3, <3>2, <3>3
    <3> QED BY <3>2, <3>3, <3>4
  <2>5. M \subseteq S
    <3>1. S \in SUBSET Task
      OBVIOUS
    <3> HIDE DEF S
    <3> QED BY <2>3, <2>4, <3>1, ReachLeast DEF M
  <2>6. ASSUME NEW i \in 1 .. c PROVE r[i] = q[i]
    <3>1. q[i] \in S
      BY <1>3, <2>5
    <3>2. PICK j \in 1 .. c : r[j] = q[i] /\ q[j] = q[i]
      BY <3>1
    <3> QED BY <1>3, <3>2
  <2>7. r \in [1 .. c -> M] /\ q \in [1 .. c -> M]
    BY <1>3
  <2>8. \A i \in 1 .. c : r[i] = q[i]
    BY ONLY <2>6
  <2> HIDE DEF S
  <2>9. r = [i \in 1 .. c |-> r[i]] /\ q = [i \in 1 .. c |-> q[i]]
    BY <2>7
  <2>10. [i \in 1 .. c |-> r[i]] = [i \in 1 .. c |-> q[i]]
    BY <2>8
  <2> QED BY <2>9, <2>10
<1>6. InOrder(h, n) = CHOOSE r \in [1 .. c -> M] : Follows(r, h, n)
  BY DEF InOrder, M, c
<1> QED BY <1>3, <1>4, <1>5, <1>6

(* A sequence with t behind the first k, and one without its k-th element. *)
With(q, k, t) == SubSeq(q, 1, k) \o <<t>> \o SubSeq(q, k + 1, Len(q))
Without(q, k) == SubSeq(q, 1, k - 1) \o SubSeq(q, k + 1, Len(q))

(* A task put into the list at its time. *)
LEMMA OrderWithMore ==
  ASSUME NEW q, NEW M, NEW h, NEW n, NEW at, Orders(q, M, h, n, at),
         M \subseteq Task, at \in [Task -> Int],
         NEW t \in Task, t \notin M, NEW time \in Int,
         NEW k \in 0 .. Cardinality(M),
         \A i \in 1 .. k : at[q[i]] <= time,
         \A i \in k + 1 .. Cardinality(M) : at[q[i]] > time,
         NEW m, m[t] = IF k = Cardinality(M) THEN NoTask ELSE q[k + 1],
         k > 0 => m[q[k]] = t,
         \A u \in M : (k > 0 => u # q[k]) => m[u] = n[u]
  PROVE  Orders(With(q, k, t), M \cup {t}, IF k = 0 THEN t ELSE h, m,
                [at EXCEPT ![t] = time])
<1> DEFINE c == Cardinality(M)
           r == With(q, k, t)
           then == [at EXCEPT ![t] = time]
<1>1. c \in Nat /\ q \in Seq(M) /\ Len(q) = c /\ (M = {} <=> c = 0)
  BY OrderTypes
<1>2. /\ IsFiniteSet(M \cup {t}) /\ Cardinality(M \cup {t}) = c + 1
  BY FS_AddElement DEF Orders
<1>3. /\ q \in [1 .. c -> M]
      /\ h = IF M = {} THEN NoTask ELSE q[1]
      /\ \A i \in 1 .. c : n[q[i]] = IF i = c THEN NoTask ELSE q[i + 1]
      /\ \A i, j \in 1 .. c : q[i] = q[j] => i = j
      /\ \A u \in M : \E i \in 1 .. c : q[i] = u
      /\ \A i, j \in 1 .. c : i <= j => at[q[i]] <= at[q[j]]
  BY DEF Orders
<1>4. /\ k \in 0 .. c /\ t \notin M
      /\ \A i \in 1 .. k : at[q[i]] <= time
      /\ \A i \in k + 1 .. c : at[q[i]] > time
      /\ m[t] = IF k = c THEN NoTask ELSE q[k + 1]
      /\ k > 0 => m[q[k]] = t
      /\ \A u \in M : (k > 0 => u # q[k]) => m[u] = n[u]
  OBVIOUS
<1>5. then[t] = time /\ \A u \in M : then[u] = at[u] /\ at[u] \in Int
  <2>1. \A u \in M : u \in Task /\ u # t
    BY <1>4
  <2> QED BY <2>1
<1>6. /\ r \in [1 .. c + 1 -> M \cup {t}]
      /\ \A i \in 1 .. c + 1 : r[i] = IF i <= k THEN q[i] ELSE IF i = k + 1 THEN t ELSE q[i - 1]
  <2> DEFINE a == SubSeq(q, 1, k)
             b == SubSeq(q, k + 1, c)
             e == <<t>>
  <2>1. a \in Seq(M \cup {t}) /\ Len(a) = k /\ \A i \in 1 .. k : a[i] = q[i]
    <3>1. q \in Seq(M \cup {t})
      BY <1>3, <1>1, SeqDef
    <3> QED BY <1>1, <1>4, <3>1, SubSeqProperties
  <2>2. b \in Seq(M \cup {t}) /\ Len(b) = c - k /\ \A i \in 1 .. c - k : b[i] = q[k + i]
    <3>1. q \in Seq(M \cup {t})
      BY <1>3, <1>1, SeqDef
    <3> QED BY <1>1, <1>4, <3>1, SubSeqProperties
  <2>3. e \in Seq(M \cup {t}) /\ Len(e) = 1 /\ e[1] = t
    OBVIOUS
  <2>4. r = (a \o e) \o b
    BY <1>1 DEF With
  <2> HIDE DEF a, b, e, r
  <2>0. k \in Nat /\ c \in Nat /\ k <= c /\ c - k \in Nat
    BY ONLY <1>1, k \in 0 .. c
  <2>5. /\ a \o e \in Seq(M \cup {t}) /\ Len(a \o e) = k + 1
        /\ \A i \in 1 .. k + 1 : (a \o e)[i] = IF i <= k THEN q[i] ELSE t
    <3>1. /\ a \o e \in Seq(M \cup {t}) /\ Len(a \o e) = Len(a) + Len(e)
          /\ \A i \in 1 .. Len(a) + Len(e) :
               (a \o e)[i] = IF i <= Len(a) THEN a[i] ELSE e[i - Len(a)]
      BY ONLY <2>1, <2>3, ConcatProperties
    <3> HIDE DEF e
    <3>2. \A i \in 1 .. k + 1 : i <= k \/ (i = k + 1 /\ i - k = 1)
      BY ONLY <2>0
    <3> QED BY ONLY <2>0, <2>1, <2>3, <3>1, <3>2
  <2>6. /\ r \in Seq(M \cup {t}) /\ Len(r) = (k + 1) + (c - k)
        /\ \A i \in 1 .. (k + 1) + (c - k) :
             r[i] = IF i <= k + 1 THEN (a \o e)[i] ELSE b[i - (k + 1)]
    BY ONLY <2>0, <2>2, <2>4, <2>5, ConcatProperties
  <2>7. (k + 1) + (c - k) = c + 1
    BY <1>1, <1>4
  <2>8. ASSUME NEW i \in 1 .. c + 1
        PROVE  r[i] = IF i <= k THEN q[i] ELSE IF i = k + 1 THEN t ELSE q[i - 1]
    <3>1. CASE i <= k + 1
      <4>1. i \in 1 .. k + 1 /\ (i <= k \/ i = k + 1)
        BY ONLY <2>0, <3>1, i \in 1 .. c + 1
      <4>2. r[i] = (a \o e)[i]
        BY ONLY <2>6, <2>7, <3>1, i \in 1 .. c + 1
      <4> QED BY ONLY <2>0, <2>5, <4>1, <4>2
    <3>2. CASE i > k + 1
      <4>1. i - (k + 1) \in 1 .. c - k /\ k + (i - (k + 1)) = i - 1
        BY ONLY <2>0, <3>2, i \in 1 .. c + 1
      <4> QED BY ONLY <2>0, <2>2, <2>6, <2>7, <3>2, <4>1, i \in 1 .. c + 1
    <3> QED BY <1>4, <3>1, <3>2
  <2>9. r \in [1 .. c + 1 -> M \cup {t}]
    BY <2>6, <2>7, LenProperties
  <2> QED BY <2>8, <2>9
<1> HIDE DEF c, r, then
<1>7. (IF k = 0 THEN t ELSE h) = r[1]
  BY <1>1, <1>3, <1>4, <1>6
<1>8. ASSUME NEW i \in 1 .. c + 1
      PROVE  m[r[i]] = IF i = c + 1 THEN NoTask ELSE r[i + 1]
  <2>1. CASE i < k
    <3>1. i \in 1 .. c /\ i + 1 \in 1 .. c /\ i # c /\ q[i] \in M /\ q[k] # q[i] /\ r[i] = q[i]
          /\ r[i + 1] = q[i + 1] /\ i # c + 1 /\ n[q[i]] = q[i + 1]
      BY <1>1, <1>3, <1>4, <1>6, <2>1
    <3> QED BY <1>4, <3>1
  <2>2. CASE i = k
    BY <1>1, <1>4, <1>6, <2>2
  <2>3. CASE i = k + 1
    BY <1>1, <1>4, <1>6, <2>3
  <2>4. CASE i > k + 1
    <3>1. i - 1 \in 1 .. c /\ r[i] = q[i - 1] /\ q[i - 1] \in M
      BY <1>1, <1>3, <1>4, <1>6, <2>4
    <3>2. k > 0 => q[i - 1] # q[k]
      BY <1>1, <1>3, <1>4, <2>4, <3>1
    <3>3. m[r[i]] = IF i - 1 = c THEN NoTask ELSE q[(i - 1) + 1]
      BY <1>3, <1>4, <3>1, <3>2
    <3> QED BY <1>1, <1>4, <1>6, <2>4, <3>3
  <2> QED BY <1>4, <2>1, <2>2, <2>3, <2>4
<1>9. ASSUME NEW i \in 1 .. c + 1, NEW j \in 1 .. c + 1, r[i] = r[j] PROVE i = j
  <2>1. \A l \in 1 .. c + 1 : l # k + 1 => r[l] \in M
    BY <1>1, <1>3, <1>4, <1>6
  <2>2. r[k + 1] = t
    BY <1>1, <1>4, <1>6
  <2>3. CASE i = k + 1 \/ j = k + 1
    BY <1>4, <1>9, <2>1, <2>2, <2>3
  <2>4. CASE i # k + 1 /\ j # k + 1
    BY <1>1, <1>3, <1>4, <1>6, <1>9, <2>4
  <2> QED BY <2>3, <2>4
<1>10. ASSUME NEW u \in M \cup {t} PROVE \E i \in 1 .. c + 1 : r[i] = u
  <2>1. CASE u = t
    <3>1. k + 1 \in 1 .. c + 1 /\ r[k + 1] = t
      BY <1>1, <1>4, <1>6
    <3> QED BY <2>1, <3>1
  <2>2. CASE u \in M
    <3>1. PICK i \in 1 .. c : q[i] = u
      BY <1>3, <2>2
    <3>2. CASE i <= k
      <4>1. i \in 1 .. c + 1 /\ r[i] = u
        BY <1>1, <1>6, <3>1, <3>2
      <4> QED BY <4>1
    <3>3. CASE i > k
      <4>1. i + 1 \in 1 .. c + 1 /\ r[i + 1] = u
        BY <1>1, <1>4, <1>6, <3>1, <3>3
      <4> QED BY <4>1
    <3> QED BY <1>4, <3>2, <3>3
  <2> QED BY <2>1, <2>2
<1>11. ASSUME NEW i \in 1 .. c + 1, NEW j \in 1 .. c + 1, i <= j
       PROVE  then[r[i]] <= then[r[j]]
  <2> DEFINE Was(l) == IF l <= k THEN l ELSE l - 1
  <2>1. \A l \in 1 .. c + 1 : l # k + 1 =>
          /\ Was(l) \in 1 .. c /\ then[r[l]] = at[q[Was(l)]]
          /\ l <= k => at[q[Was(l)]] <= time
          /\ l > k + 1 => at[q[Was(l)]] > time
          /\ at[q[Was(l)]] \in Int
    BY <1>1, <1>3, <1>4, <1>5, <1>6
  <2>2. then[r[k + 1]] = time
    BY <1>1, <1>4, <1>5, <1>6
  <2>3. CASE i # k + 1 /\ j # k + 1
    <3>1. Was(i) <= Was(j)
      BY <1>4, <1>11, <2>3
    <3> HIDE DEF Was
    <3> QED BY <1>3, <2>1, <2>3, <3>1
  <2>4. CASE i = k + 1 /\ j # k + 1
    <3> HIDE DEF Was
    <3> QED BY <1>4, <1>11, <2>1, <2>2, <2>4
  <2>5. CASE i # k + 1 /\ j = k + 1
    <3> HIDE DEF Was
    <3> QED BY <1>4, <1>11, <2>1, <2>2, <2>5
  <2>6. CASE i = k + 1 /\ j = k + 1
    BY <2>2, <2>6
  <2> QED BY <2>3, <2>4, <2>5, <2>6
<1>12. Orders(r, M \cup {t}, IF k = 0 THEN t ELSE h, m, then)
  BY ONLY <1>2, <1>6, <1>7, <1>8, <1>9, <1>10, <1>11 DEF Orders
<1> QED BY <1>12 DEF r, then

(* A task taken out. *)
LEMMA OrderWithLess ==
  ASSUME NEW q, NEW M, NEW h, NEW n, NEW at, Orders(q, M, h, n, at),
         NoTask \notin M, NEW k \in 1 .. Cardinality(M),
         NEW m, k > 1 => m[q[k - 1]] = n[q[k]],
         \A u \in M : u # q[k] /\ (k > 1 => u # q[k - 1]) => m[u] = n[u]
  PROVE  Orders(Without(q, k), M \ {q[k]}, IF k = 1 THEN n[q[1]] ELSE h, m, at)
<1> DEFINE c == Cardinality(M)
           r == Without(q, k)
<1>1. c \in Nat /\ q \in Seq(M) /\ Len(q) = c /\ (M = {} <=> c = 0)
  BY OrderTypes
<1>2. /\ q \in [1 .. c -> M]
      /\ h = IF M = {} THEN NoTask ELSE q[1]
      /\ \A i \in 1 .. c : n[q[i]] = IF i = c THEN NoTask ELSE q[i + 1]
      /\ \A i, j \in 1 .. c : q[i] = q[j] => i = j
      /\ \A u \in M : \E i \in 1 .. c : q[i] = u
      /\ \A i, j \in 1 .. c : i <= j => at[q[i]] <= at[q[j]]
  BY DEF Orders
<1>3. /\ k \in 1 .. c
      /\ k > 1 => m[q[k - 1]] = n[q[k]]
      /\ \A u \in M : u # q[k] /\ (k > 1 => u # q[k - 1]) => m[u] = n[u]
  OBVIOUS
<1>4. IsFiniteSet(M \ {q[k]}) /\ Cardinality(M \ {q[k]}) = c - 1
  BY <1>2, <1>3, FS_RemoveElement DEF Orders
<1>5. M \ {q[k]} = {} <=> c = 1
  BY <1>1, <1>4, FS_EmptySet
<1>6. c \in Nat /\ k \in Nat /\ 1 <= k /\ k <= c /\ k - 1 \in Nat /\ c - 1 \in Nat /\ c - k \in Nat /\ (k - 1) + (c - k) = c - 1
  BY ONLY <1>1, <1>3
<1> HIDE DEF c
<1>7. /\ r \in Seq(M) /\ Len(r) = c - 1
      /\ \A i \in 1 .. c - 1 : r[i] = IF i < k THEN q[i] ELSE q[i + 1]
  <2> DEFINE a == SubSeq(q, 1, k - 1)
             b == SubSeq(q, k + 1, c)
  <2>1. a \in Seq(M) /\ Len(a) = k - 1 /\ \A i \in 1 .. k - 1 : a[i] = q[i]
    BY ONLY <1>1, <1>3, <1>6, SubSeqProperties
  <2>2. b \in Seq(M) /\ Len(b) = c - k /\ \A i \in 1 .. c - k : b[i] = q[k + i]
    BY ONLY <1>1, <1>3, <1>6, SubSeqProperties
  <2>3. r = a \o b
    BY <1>1 DEF Without
  <2> HIDE DEF a, b, r
  <2>4. /\ r \in Seq(M) /\ Len(r) = (k - 1) + (c - k)
        /\ \A i \in 1 .. (k - 1) + (c - k) :
             r[i] = IF i <= k - 1 THEN a[i] ELSE b[i - (k - 1)]
    BY ONLY <2>1, <2>2, <2>3, ConcatProperties
  <2>5. ASSUME NEW i \in 1 .. c - 1 PROVE r[i] = IF i < k THEN q[i] ELSE q[i + 1]
    <3>1. r[i] = IF i <= k - 1 THEN a[i] ELSE b[i - (k - 1)]
      BY <1>6, <2>4
    <3>2. CASE i < k
      BY <1>6, <2>1, <3>1, <3>2
    <3>3. CASE i >= k
      <4>1. i - (k - 1) \in 1 .. c - k /\ k + (i - (k - 1)) = i + 1 /\ ~ (i <= k - 1) /\ ~ (i < k)
        BY <1>6, <3>3
      <4> QED BY <2>2, <3>1, <4>1
    <3> QED BY <1>6, <3>2, <3>3
  <2> QED BY <1>6, <2>4, <2>5
<1> HIDE DEF r
<1>10. \A i \in 1 .. c - 1 : \E l \in 1 .. c :
         l # k /\ r[i] = q[l] /\ l = IF i < k THEN i ELSE i + 1
  <2> SUFFICES ASSUME NEW i \in 1 .. c - 1
               PROVE  \E l \in 1 .. c :
                        l # k /\ r[i] = q[l] /\ l = IF i < k THEN i ELSE i + 1
    OBVIOUS
  <2>1. CASE i < k
    <3>1. i \in 1 .. c /\ i # k /\ r[i] = q[i]
      BY <1>6, <1>7, <2>1
    <3> QED BY <2>1, <3>1
  <2>2. CASE i >= k
    <3>1. i + 1 \in 1 .. c /\ i + 1 # k /\ r[i] = q[i + 1] /\ ~ (i < k)
      BY <1>6, <1>7, <2>2
    <3> QED BY <3>1
  <2> QED BY <1>6, <2>1, <2>2
<1>8. r \in [1 .. c - 1 -> M \ {q[k]}]
  <2>1. r \in [1 .. c - 1 -> M]
    BY <1>7, LenProperties
  <2>2. ASSUME NEW i \in 1 .. c - 1 PROVE r[i] # q[k]
    <3>1. PICK l \in 1 .. c : l # k /\ r[i] = q[l]
      BY <1>10
    <3> QED BY <1>2, <1>3, <3>1
  <2> QED BY <2>1, <2>2
<1>9. (IF k = 1 THEN n[q[1]] ELSE h) = IF M \ {q[k]} = {} THEN NoTask ELSE r[1]
  <2>1. CASE c = 1
    BY <1>2, <1>3, <1>5, <2>1
  <2>2. CASE c # 1
    <3>1. 1 \in 1 .. c - 1 /\ 1 \in 1 .. c
      BY <1>3, <1>6, <2>2
    <3>2. r[1] = IF 1 < k THEN q[1] ELSE q[1 + 1]
      BY <1>7, <3>1
    <3>3. n[q[1]] = q[1 + 1]
      BY <1>2, <2>2, <3>1
    <3> QED BY <1>1, <1>2, <1>3, <1>5, <2>2, <3>1, <3>2, <3>3
  <2> QED BY <2>1, <2>2
<1>15. ASSUME NEW i \in 1 .. c - 1
       PROVE  m[r[i]] = IF i = c - 1 THEN NoTask ELSE r[i + 1]
  <2> DEFINE l == IF i < k THEN i ELSE i + 1
  <2>1. l \in 1 .. c /\ r[i] = q[l] /\ q[l] \in M /\ l # k
    BY <1>2, <1>3, <1>6, <1>7
  <2>2. q[l] # q[k]
    BY <1>2, <1>3, <2>1
  <2>3. CASE i = k - 1
    <3>1. k > 1 /\ r[i] = q[k - 1]
      BY <1>6, <1>7, <2>3
    <3>2. m[r[i]] = IF k = c THEN NoTask ELSE q[k + 1]
      BY <1>2, <1>3, <3>1
    <3>3. k # c => i + 1 \in 1 .. c - 1 /\ i + 1 = k
      BY <1>3, <1>6, <2>3
    <3>4. k # c => r[i + 1] = q[k + 1]
      BY <1>6, <1>7, <3>3
    <3>5. k = c <=> i = c - 1
      BY <1>6, <2>3
    <3>6. k # c => r[i + 1] = q[k + 1]
      BY <3>4
    <3> QED BY <3>2, <3>5, <3>6
  <2>4. CASE i # k - 1
    <3>1. k > 1 => k - 1 \in 1 .. c /\ l # k - 1
      BY <1>3, <1>6, <2>4
    <3>2. k > 1 => q[l] # q[k - 1]
      BY <1>2, <2>1, <3>1
    <3>3. m[q[l]] = n[q[l]]
      BY <1>3, <2>1, <2>2, <3>2
    <3>4. n[q[l]] = IF l = c THEN NoTask ELSE q[l + 1]
      BY <1>2, <2>1
    <3>5. i = c - 1 <=> l = c
      BY <1>3, <1>6, <2>4
    <3>6. i # c - 1 => r[i + 1] = q[l + 1]
      <4>1. SUFFICES ASSUME i # c - 1 PROVE r[i + 1] = q[l + 1]
        OBVIOUS
      <4>2. i + 1 \in 1 .. c - 1
        BY <1>6, <4>1
      <4>3. r[i + 1] = IF i + 1 < k THEN q[i + 1] ELSE q[(i + 1) + 1]
        BY <1>7, <4>2
      <4>4. i < k <=> i + 1 < k
        BY <1>6, <2>4
      <4> QED BY <4>3, <4>4
    <3> QED BY <2>1, <3>3, <3>4, <3>5, <3>6
  <2> QED BY <2>3, <2>4
<1>11. ASSUME NEW i \in 1 .. c - 1, NEW j \in 1 .. c - 1, r[i] = r[j] PROVE i = j
  <2>1. PICK l \in 1 .. c : l # k /\ r[i] = q[l] /\ l = IF i < k THEN i ELSE i + 1
    BY <1>10
  <2>2. PICK o \in 1 .. c : o # k /\ r[j] = q[o] /\ o = IF j < k THEN j ELSE j + 1
    BY <1>10
  <2>3. l = o
    <3>1. q[l] = q[o]
      BY <1>11, <2>1, <2>2
    <3> QED BY <1>2, <3>1
  <2> QED BY <1>6, <2>1, <2>2, <2>3
<1>12. ASSUME NEW u \in M \ {q[k]} PROVE \E i \in 1 .. c - 1 : r[i] = u
  <2>1. PICK i \in 1 .. c : q[i] = u
    BY <1>2
  <2>2. i # k
    BY <2>1
  <2>3. CASE i < k
    <3>1. i \in 1 .. c - 1 /\ r[i] = u
      BY <1>3, <1>6, <1>7, <2>1, <2>3
    <3> QED BY <3>1
  <2>4. CASE i > k
    <3>1. i - 1 \in 1 .. c - 1 /\ r[i - 1] = u
      BY <1>3, <1>6, <1>7, <2>1, <2>4
    <3> QED BY <3>1
  <2> QED BY <1>6, <2>2, <2>3, <2>4
<1>13. ASSUME NEW i \in 1 .. c - 1, NEW j \in 1 .. c - 1, i <= j
       PROVE  at[r[i]] <= at[r[j]]
  <2> DEFINE Was(l) == IF l < k THEN l ELSE l + 1
  <2>1. Was(i) \in 1 .. c /\ Was(j) \in 1 .. c /\ Was(i) <= Was(j)
    BY <1>6, <1>13
  <2>2. r[i] = q[Was(i)] /\ r[j] = q[Was(j)]
    BY <1>7
  <2> HIDE DEF Was
  <2> QED BY <1>2, <2>1, <2>2
<1>14. Orders(r, M \ {q[k]}, IF k = 1 THEN n[q[1]] ELSE h, m, at)
  BY ONLY <1>4, <1>8, <1>9, <1>15, <1>11, <1>12, <1>13 DEF Orders
<1> QED BY <1>14 DEF r


(* runTask is a request to the queue. *)
LEMMA RunTaskEnqueues ==
  ASSUME TypeOK, ListInv, NEW t \in Task, t \notin Members, NEW delay \in Int,
         RunTask(t, delay), NEW q, Orders(q, Members, head, next, fireAt)
  PROVE  Queue!Enqueue(t) /\ \E r : Orders(r, Members', head', next', fireAt')
<1> DEFINE c == Cardinality(Members)
           at == Later(Clamp(delay))
<1>1. /\ head \in Task \cup {NoTask} /\ next \in Links
      /\ fireAt \in [Task -> Int] /\ Members \subseteq Task
      /\ head # NoTask => head \in Members
  BY ListTypes
<1>2. at \in 0 .. MaxTime /\ now <= at /\ at <= now + MaxDelay /\ at \in Int
  BY LaterType, ConstantsOK DEF Later, TypeOK
<1>3. Members' = Members \cup {t}
  BY RunTaskInv
<1>4. c \in Nat /\ Len(q) = c /\ DOMAIN q = 1 .. c /\ (Members = {} <=> c = 0)
  BY OrderTypes
<1>5. /\ q \in [1 .. c -> Members]
      /\ head = IF Members = {} THEN NoTask ELSE q[1]
      /\ \A i \in 1 .. c : next[q[i]] = IF i = c THEN NoTask ELSE q[i + 1]
      /\ \A u \in Members : \E i \in 1 .. c : q[i] = u
      /\ \A i, j \in 1 .. c : i <= j => fireAt[q[i]] <= fireAt[q[j]]
      /\ \A i \in 1 .. c : fireAt[q[i]] \in Int
  BY <1>1 DEF Orders
<1>6. fireAt' = [fireAt EXCEPT ![t] = at]
  BY DEF RunTask, LinkFirst, LinkBehind, Stamp
<1> DEFINE Fits(k) ==
      /\ \A i \in 1 .. k : fireAt[q[i]] <= at
      /\ \A i \in k + 1 .. c : fireAt[q[i]] > at
      /\ next'[t] = IF k = c THEN NoTask ELSE q[k + 1]
      /\ k > 0 => next'[q[k]] = t
      /\ \A u \in Members : (k > 0 => u # q[k]) => next'[u] = next[u]
      /\ head' = IF k = 0 THEN t ELSE head
<1> HIDE DEF c, at
<1>7. PICK k \in 0 .. c : Fits(k)
  <2>1. CASE LinkFirst(t, delay)
    <3>1. head' = t /\ next' = [next EXCEPT ![t] = head] /\ GoesFirst(t, at)
      BY <2>1 DEF LinkFirst, at
    <3>2. next'[t] = head /\ \A u \in Members : next'[u] = next[u]
      BY <1>1, <3>1 DEF Links
    <3>3. head # NoTask => at < fireAt[head]
      BY <3>1 DEF GoesFirst
    <3>4. ASSUME NEW i \in 1 .. c PROVE fireAt[q[i]] > at
      <4>1. 1 \in 1 .. c /\ 1 <= i /\ Members # {} /\ head = q[1] /\ q[1] \in Members
        BY <1>4, <1>5
      <4>2. at < fireAt[q[1]]
        BY <1>1, <3>3, <4>1, ConstantsOK
      <4>3. fireAt[q[1]] <= fireAt[q[i]]
        BY <1>5, <4>1
      <4> QED BY <1>2, <1>5, <4>1, <4>2, <4>3
    <3>5. head = IF 0 = c THEN NoTask ELSE q[0 + 1]
      BY <1>4, <1>5
    <3>6. Fits(0)
      BY <3>1, <3>2, <3>4, <3>5
    <3> HIDE DEF Fits
    <3> QED BY <1>4, <3>6
  <2>2. CASE LinkBehind(t, delay)
    <3>1. head' = head /\ ~ GoesFirst(t, at)
      BY <2>2 DEF LinkBehind, at
    <3>2. PICK p \in StopsAt(t, at) : next' = [next EXCEPT ![t] = next[p], ![p] = t]
      BY <2>2 DEF LinkBehind, at
    <3>3. p \in Members /\ fireAt[p] <= at /\ (next[p] # NoTask => at < fireAt[next[p]])
      BY <1>2, <3>1, StopPoint
    <3>4. PICK k \in 1 .. c : q[k] = p
      BY <1>5, <3>3
    <3>5. /\ next'[t] = next[p] /\ next'[p] = t
          /\ \A u \in Members : u # p => next'[u] = next[u]
      BY <1>1, <3>2, <3>3 DEF Links
    <3>6. \A i \in 1 .. k : fireAt[q[i]] <= at
      <4>1. SUFFICES ASSUME NEW i \in 1 .. k PROVE fireAt[q[i]] <= at
        OBVIOUS
      <4>2. i \in 1 .. c /\ i <= k
        BY <1>4
      <4>3. fireAt[q[i]] <= fireAt[q[k]]
        BY <1>5, <4>2
      <4> QED BY <1>2, <1>5, <3>3, <3>4, <4>2, <4>3
    <3>7. \A i \in k + 1 .. c : fireAt[q[i]] > at
      <4>1. SUFFICES ASSUME NEW i \in k + 1 .. c PROVE fireAt[q[i]] > at
        OBVIOUS
      <4>2. i \in 1 .. c /\ k + 1 \in 1 .. c /\ k + 1 <= i /\ k # c
        BY <1>4
      <4>3. next[p] = q[k + 1] /\ q[k + 1] \in Task
        BY <1>1, <1>5, <3>4, <4>2
      <4>4. at < fireAt[q[k + 1]]
        BY <3>3, <4>3, ConstantsOK
      <4>5. fireAt[q[k + 1]] <= fireAt[q[i]]
        BY <1>5, <4>2
      <4> QED BY <1>2, <1>5, <4>2, <4>4, <4>5
    <3>8. next[p] = IF k = c THEN NoTask ELSE q[k + 1]
      BY <1>5, <3>4
    <3>9. k # 0 /\ k > 0 /\ k \in 0 .. c
      BY <1>4
    <3>10. Fits(k)
      BY <3>1, <3>4, <3>5, <3>6, <3>7, <3>8, <3>9
    <3> HIDE DEF Fits
    <3> QED BY <3>9, <3>10
  <2> HIDE DEF Fits
  <2> QED BY <2>1, <2>2 DEF RunTask
<1> DEFINE r == With(q, k, t)
<1>8. Orders(r, Members \cup {t}, IF k = 0 THEN t ELSE head, next', [fireAt EXCEPT ![t] = at])
  <2> HIDE DEF r
  <2> QED BY <1>1, <1>2, <1>7, OrderWithMore DEF c, r
<1>9. Orders(r, Members', head', next', fireAt')
  <2> HIDE DEF r
  <2> QED BY <1>3, <1>6, <1>7, <1>8
<1>10. InOrder(head, next) = q
  BY <1>1, OneOrder DEF Members
<1>11. InOrder(head', next') = r
  <2>1. head' \in Task \cup {NoTask} /\ next' \in Links
    BY RunTaskTypes DEF Links
  <2>2. Orders(r, Reach(head', next'), head', next', fireAt')
    BY <1>9 DEF Members
  <2> HIDE DEF r
  <2> QED BY <2>1, <2>2, OneOrder
<1>12. Queue!Enqueue(t)
  <2>1. t \notin {q[i] : i \in DOMAIN q}
    BY <1>4, <1>5
  <2>2. r = SubSeq(q, 1, k) \o <<t>> \o SubSeq(q, k + 1, Len(q))
    BY DEF With
  <2>3. at \in now .. MaxTime /\ k \in 0 .. Len(q)
    BY <1>2, <1>4, ConstantsOK DEF TypeOK
  <2> HIDE DEF r
  <2>4. \E time \in now .. MaxTime, ahead \in 0 .. Len(q) :
          /\ time <= now + MaxDelay
          /\ \A i \in 1 .. ahead : fireAt[q[i]] <= time
          /\ \A i \in ahead + 1 .. Len(q) : fireAt[q[i]] > time
          /\ r = SubSeq(q, 1, ahead) \o <<t>> \o SubSeq(q, ahead + 1, Len(q))
          /\ fireAt' = [fireAt EXCEPT ![t] = time]
    BY <1>2, <1>4, <1>6, <1>7, <2>2, <2>3
  <2> QED BY <1>10, <1>11, <2>1, <2>4 DEF Queue!Enqueue, Queue!Waiting
<1> QED BY <1>9, <1>12


(* What the queue is before and after a step, and after one that leaves the list
   alone. *)
LEMMA QueueIs ==
  ASSUME TypeOK, NEW q, Orders(q, Members, head, next, fireAt)
  PROVE  InOrder(head, next) = q
BY ListTypes, OneOrder DEF Members

LEMMA QueueBecomes ==
  ASSUME TypeOK', NEW r, Orders(r, Members', head', next', fireAt')
  PROVE  InOrder(head', next') = r
<1>1. head' \in Task \cup {NoTask} /\ next' \in Links
  BY DEF TypeOK, Links
<1>2. Orders(r, Reach(head', next'), head', next', fireAt')
  BY DEF Members
<1> QED BY <1>1, <1>2, OneOrder

(* removeTask takes a task out of the queue; one that is not in it is no step of
   the queue's. *)
LEMMA RemoveCancels ==
  ASSUME IInv, NEW t \in Task, RemoveTask(t), TypeOK',
         NEW q, Orders(q, Members, head, next, fireAt)
  PROVE  /\ Queue!Cancel(t) \/ UNCHANGED Queue!vars
         /\ \E r : Orders(r, Members', head', next', fireAt')
<1>1. TypeOK /\ ListInv
  BY DEF IInv, ListInv
<1>2. InOrder(head, next) = q
  BY <1>1, QueueIs
<1>3. fireAt' = fireAt /\ firing' = firing /\ now' = now
  BY DEF RemoveTask, Unlink
<1>4. CASE t \notin Members
  <2>1. head' = head /\ next' = next
    BY <1>4 DEF RemoveTask, Unlink
  <2>2. Members' = Members
    BY <2>1 DEF Members
  <2> QED BY <1>3, <2>1, <2>2 DEF Queue!vars
<1>5. CASE t \in Members
  <2> DEFINE c == Cardinality(Members)
  <2>1. Members' = Members \ {t}
    BY <1>1, UnlinkInv DEF RemoveTask
  <2>2. c \in Nat /\ Len(q) = c /\ DOMAIN q = 1 .. c /\ (Members = {} <=> c = 0)
    BY OrderTypes
  <2>3. /\ q \in [1 .. c -> Members]
        /\ head = IF Members = {} THEN NoTask ELSE q[1]
        /\ \A i \in 1 .. c : next[q[i]] = IF i = c THEN NoTask ELSE q[i + 1]
        /\ \A i, j \in 1 .. c : q[i] = q[j] => i = j
        /\ \A u \in Members : \E i \in 1 .. c : q[i] = u
    BY DEF Orders
  <2>4. next \in Links /\ Members \subseteq Task /\ NoTask \notin Members
    BY <1>1, ListTypes, ConstantsOK
  <2> HIDE DEF c
  <2>5. PICK k \in 1 .. c : q[k] = t
    BY <1>5, <2>3
  <2> DEFINE Fits ==
        /\ k > 1 => next'[q[k - 1]] = next[q[k]]
        /\ \A u \in Members : u # q[k] /\ (k > 1 => u # q[k - 1]) => next'[u] = next[u]
        /\ head' = IF k = 1 THEN next[q[1]] ELSE head
  <2>6. Fits
    <3>1. CASE t = head
      <4>1. head' = next[t] /\ next' = next
        BY <1>5, <3>1 DEF RemoveTask, Unlink
      <4>2. k = 1
        <5>1. 1 \in 1 .. c /\ q[1] = t
          BY <1>5, <2>2, <2>3, <3>1
        <5> QED BY <2>3, <2>5, <5>1
      <4> QED BY <2>5, <4>1, <4>2
    <3>2. CASE t # head
      <4>1. head' = head
        BY <1>5, <3>2 DEF RemoveTask, Unlink
      <4>2. PICK p \in Members : next[p] = t /\ next' = [next EXCEPT ![p] = next[t]]
        BY <1>5, <3>2 DEF RemoveTask, Unlink
      <4>3. PICK j \in 1 .. c : q[j] = p
        BY <2>3
      <4>4. j # c /\ q[j + 1] = t
        BY <1>5, <2>3, <2>4, <4>2, <4>3
      <4>5. j + 1 \in 1 .. c
        BY <2>2, <4>4
      <4>6. k = j + 1
        BY <2>3, <2>5, <4>4, <4>5
      <4>7. k > 1 /\ k # 1 /\ k - 1 = j
        BY <2>2, <4>6
      <4>8. next'[p] = next[t] /\ \A u \in Members : u # p => next'[u] = next[u]
        BY <2>4, <4>2 DEF Links
      <4> QED BY <2>5, <4>1, <4>3, <4>7, <4>8
    <3> QED BY <3>1, <3>2
  <2> DEFINE r == Without(q, k)
  <2>7. Orders(r, Members \ {q[k]}, IF k = 1 THEN next[q[1]] ELSE head, next', fireAt)
    <3> HIDE DEF r
    <3> QED BY <2>4, <2>6, OrderWithLess DEF c, r
  <2>8. Orders(r, Members', head', next', fireAt')
    <3> HIDE DEF r
    <3> QED BY <1>3, <2>1, <2>5, <2>6, <2>7
  <2>9. InOrder(head', next') = r
    <3> HIDE DEF r
    <3> QED BY <2>8, QueueBecomes
  <2>10. \E i \in DOMAIN q :
           q[i] = t /\ r = SubSeq(q, 1, i - 1) \o SubSeq(q, i + 1, Len(q))
    BY <2>2, <2>5 DEF Without
  <2> HIDE DEF r
  <2>11. Queue!Cancel(t)
    BY <1>2, <1>3, <2>9, <2>10 DEF Queue!Cancel
  <2> QED BY <2>8, <2>11
<1> QED BY <1>4, <1>5

(* fireEvent starts the task that is first in the queue. *)
LEMMA FireStarts ==
  ASSUME TypeOK, ListInv, FireEvent, TypeOK', NEW q, Orders(q, Members, head, next, fireAt)
  PROVE  /\ Queue!Start
         /\ \E r : Orders(r, Members', head', next', fireAt')
<1> DEFINE c == Cardinality(Members)
           r == Without(q, 1)
<1>1. TypeOK /\ ListInv
  OBVIOUS
<1>2. InOrder(head, next) = q
  BY QueueIs
<1>3. /\ head # NoTask /\ firing = NoTask /\ firing' = head
      /\ head' = next[head] /\ next' = [next EXCEPT ![head] = NoTask]
      /\ fireAt' = fireAt /\ now' = now
  BY DEF FireEvent, PopHead
<1>4. next \in Links /\ Members \subseteq Task /\ NoTask \notin Members /\ head \in Members
  BY <1>1, <1>3, ListTypes, ConstantsOK
<1>5. /\ c \in Nat /\ q \in Seq(Members) /\ Len(q) = c /\ DOMAIN q = 1 .. c
      /\ Members = {} <=> c = 0
      /\ Members = {} <=> q = <<>>
  BY OrderTypes
<1>6. q[1] = head /\ 1 \in 1 .. c /\ q # <<>>
  BY <1>4, <1>5 DEF Orders
<1>7. Members' = Members \ {head}
  BY <1>1, PopHeadInv DEF FireEvent
<1>8. \A u \in Members : u # head => next'[u] = next[u]
  BY <1>3, <1>4 DEF Links
<1>9. Orders(r, Members \ {q[1]}, next[q[1]], next', fireAt)
  <2>1. PICK k \in 1 .. c : k = 1
    BY <1>6
  <2>2. /\ k > 1 => next'[q[k - 1]] = next[q[k]]
        /\ \A u \in Members : u # q[k] /\ (k > 1 => u # q[k - 1]) => next'[u] = next[u]
    BY <1>6, <1>8, <2>1
  <2>3. Orders(Without(q, k), Members \ {q[k]}, IF k = 1 THEN next[q[1]] ELSE head,
               next', fireAt)
    BY <1>4, <2>2, OrderWithLess
  <2> QED BY <2>1, <2>3
<1>10. Orders(r, Members', head', next', fireAt')
  <2> HIDE DEF r
  <2> QED BY <1>3, <1>6, <1>7, <1>9
<1>11. InOrder(head', next') = r
  <2> HIDE DEF r
  <2> QED BY <1>10, QueueBecomes
<1>12. r = Tail(q) /\ Head(q) = head
  <2> HIDE DEF c, r
  <2>1. Len(Tail(q)) = c - 1 /\ \A i \in 1 .. c - 1 : Tail(q)[i] = q[i + 1]
    BY <1>5, <1>6, HeadTailProperties
  <2> QED BY <1>5, <1>6, <2>1 DEF r, Without
<1> HIDE DEF r
<1>13. Queue!Start
  BY <1>2, <1>3, <1>6, <1>11, <1>12 DEF Queue!Start
<1> QED BY <1>10, <1>13

-----------------------------------------------------------------------------
(* With the list's invariant, the inductive invariant of the refinement: the list
   can be read off. *)
QueueInv == IInv /\ \E q : Orders(q, Members, head, next, fireAt)

LEMMA QueueInitial == Init => QueueInv /\ Queue!Init
<1> SUFFICES ASSUME Init PROVE QueueInv /\ Queue!Init
  OBVIOUS
<1>1. IInv /\ TypeOK
  BY InitIInv DEF IInv
<1>2. Members = {}
  BY ReachNothing DEF Init, Members
<1>3. Orders(<<>>, Members, head, next, fireAt)
  <2>1. IsFiniteSet(Members) /\ Cardinality(Members) = 0
    BY <1>2, FS_EmptySet
  <2>2. <<>> \in [1 .. 0 -> Members]
    OBVIOUS
  <2>3. \A i \in 1 .. 0 : FALSE
    OBVIOUS
  <2> QED BY <1>2, <2>1, <2>2, <2>3 DEF Orders, Init
<1>4. InOrder(head, next) = <<>>
  BY <1>1, <1>3, QueueIs
<1> QED BY <1>1, <1>3, <1>4 DEF QueueInv, Init, Queue!Init

LEMMA QueueStep == QueueInv /\ [Next]_vars => QueueInv' /\ [Queue!Next]_Queue!vars
<1> SUFFICES ASSUME QueueInv, [Next]_vars
             PROVE  /\ \E r : Orders(r, Members', head', next', fireAt')
                    /\ Queue!Next \/ UNCHANGED Queue!vars
  BY StepIInv DEF QueueInv
<1>1. IInv /\ TypeOK /\ ListInv /\ TypeOK'
  BY StepIInv DEF QueueInv, IInv, ListInv
<1>2. PICK q : Orders(q, Members, head, next, fireAt)
  BY DEF QueueInv
<1>3. ASSUME UNCHANGED <<head, next, fireAt>>
      PROVE  /\ \E r : Orders(r, Members', head', next', fireAt')
             /\ InOrder(head', next') = InOrder(head, next)
  BY <1>2, <1>3 DEF Members
<1>4. ASSUME NEW t \in Task, NEW d \in Delays, NEW rep \in BOOLEAN, Schedule(t, d, rep)
      PROVE  Queue!Request(t) /\ \E r : Orders(r, Members', head', next', fireAt')
  <2>1. t \notin Members /\ RunTask(t, d) /\ d \in Int /\ firing' = firing /\ now' = now
    BY <1>4, ConstantsOK DEF Schedule, MayRun
  <2>2. Queue!Enqueue(t) /\ \E r : Orders(r, Members', head', next', fireAt')
    BY <1>1, <1>2, <2>1, RunTaskEnqueues
  <2> QED BY <2>1, <2>2 DEF Queue!Request
<1>5. ASSUME NEW t \in Task, RemoveTask(t)
      PROVE  /\ Queue!Cancel(t) \/ UNCHANGED Queue!vars
             /\ \E r : Orders(r, Members', head', next', fireAt')
  BY <1>1, <1>2, <1>5, RemoveCancels
<1>6. CASE FireEvent
  <2>1. Queue!Start /\ \E r : Orders(r, Members', head', next', fireAt')
    BY <1>1, <1>2, <1>6, FireStarts
  <2> QED BY <2>1 DEF Queue!Next
<1>7. CASE EndFire
  <2>1. firing # NoTask /\ firing' = NoTask /\ now' = now /\ firing \in Task
    BY <1>1, <1>7 DEF EndFire, TypeOK
  <2>2. CASE repeating[firing]
    <3>1. firing \notin Members /\ RunTask(firing, msSet[firing])
      BY <1>1, <1>7, <2>1, <2>2 DEF EndFire, IInv, RepeaterOffList
    <3>2. msSet[firing] \in Int
      BY <1>1, <2>1, ConstantsOK DEF TypeOK
    <3>3. Queue!Enqueue(firing) /\ \E r : Orders(r, Members', head', next', fireAt')
      BY <1>1, <1>2, <2>1, <3>1, <3>2, RunTaskEnqueues
    <3>4. Queue!End
      BY <2>1, <3>3 DEF Queue!End
    <3> QED BY <3>3, <3>4 DEF Queue!Next
  <2>3. CASE ~ repeating[firing]
    <3>1. UNCHANGED <<head, next, fireAt>>
      BY <1>7, <2>3 DEF EndFire, listVars
    <3>2. /\ \E r : Orders(r, Members', head', next', fireAt')
          /\ InOrder(head', next') = InOrder(head, next)
      BY <1>3, <3>1
    <3>3. Queue!End
      BY <2>1, <3>1, <3>2 DEF Queue!End
    <3> QED BY <3>2, <3>3 DEF Queue!Next
  <2> QED BY <2>2, <2>3
<1>8. CASE Tick
  <2>1. UNCHANGED <<head, next, fireAt>> /\ firing' = firing /\ now' = now + 1
    BY <1>8 DEF Tick, listVars
  <2>2. /\ \E r : Orders(r, Members', head', next', fireAt')
        /\ InOrder(head', next') = InOrder(head, next)
    BY <1>3, <2>1
  <2>3. Queue!Tick
    BY <2>1, <2>2 DEF Queue!Tick
  <2> QED BY <2>2, <2>3 DEF Queue!Next
<1>9. CASE UNCHANGED vars
  <2>1. UNCHANGED <<head, next, fireAt>> /\ firing' = firing /\ now' = now
    BY <1>9 DEF vars
  <2>2. /\ \E r : Orders(r, Members', head', next', fireAt')
        /\ InOrder(head', next') = InOrder(head, next)
    BY <1>3, <2>1
  <2> QED BY <2>1, <2>2 DEF Queue!vars
<1>10. ASSUME NEW t \in Task, Queue!Request(t) \/ Queue!Cancel(t) PROVE Queue!Next
  BY <1>10 DEF Queue!Next
<1> QED BY <1>4, <1>5, <1>6, <1>7, <1>8, <1>9, <1>10 DEF Next

(* The linked list is a queue of tasks that start one at a time, in the order of
   their due times and first come first served among equals, once per request:
   for any tasks and delays, every step of the list is a step of TimerQueue or none. *)
THEOREM ListImplementsTimerQueue == Spec => ImplementsTimerQueue
<1>1. Init => QueueInv /\ Queue!Init
  BY QueueInitial
<1>2. QueueInv /\ [Next]_vars => QueueInv' /\ [Queue!Next]_Queue!vars
  BY QueueStep
<1> QED BY <1>1, <1>2, PTL DEF Spec, ImplementsTimerQueue, Queue!Spec

=============================================================================

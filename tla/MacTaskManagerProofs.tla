------------------------ MODULE MacTaskManagerProofs ------------------------
(***************************************************************************)
(* Proofs about the Mac loop and its unlocked list, for every set of       *)
(* tasks, all delays and any horizon.  That the event thread never waits   *)
(* without a limit while there is a task holds whatever the waits do, that *)
(* it fires a task only if there is one needs an untimed wait that ends    *)
(* only when it is notified.  That no task is lost and none fired early    *)
(* holds until the event thread changes the list at the very place where   *)
(* another thread is about to link a task, whatever it changes elsewhere.  *)
(***************************************************************************)
EXTENDS MacTaskManager, TaskManagerProofs

(* Where the event thread counts on a task on the list. *)
Committed == {"decide", "gap", "sleep", "fire"}

(* What holds even of a list that has lost tasks or is out of order. *)
MacInv ==
  /\ MacTypeOK
  /\ ~ Spurious /\ pc \in Committed => head # NoTask
  /\ NeverStranded

(* What the event thread has worked out holds of whatever the head is now. *)
InTime ==
  /\ loopNow <= now
  /\ pc = "gap" => fireAt[head] <= loopNow + gap
  /\ pc = "sleep" => fireAt[head] <= deadline
  /\ pc = "fire" => fireAt[head] <= now

(* What a caller has found out about the place is still true: the task is not
   on the list yet, and it belongs behind prev, or in front if there is none. *)
PlaceFound ==
  caller.step = "link" =>
    /\ caller.task \notin Members /\ caller.task # firing
    /\ caller.prev = NoTask =>
         /\ head # NoTask => fireAt[caller.task] < fireAt[head]
         /\ caller.last => head = NoTask
    /\ caller.prev # NoTask =>
         /\ caller.prev \in Members /\ fireAt[caller.prev] <= fireAt[caller.task]
         /\ next[caller.prev] # NoTask => fireAt[caller.task] < fireAt[next[caller.prev]]
         /\ caller.last => next[caller.prev] = NoTask

(* The inductive invariant: the list is in order, and the place that a caller
   has found is right, as long as no place has been overtaken. *)
ListInOrder == ~ overtaken => IInv /\ PlaceFound
OrderInv == MacInv /\ ListInOrder

-----------------------------------------------------------------------------
(* What a step of the caller does to the types. *)
LEMMA CallerCases ==
  ASSUME MacTypeOK
  PROVE  /\ caller.step = "link" =>
              /\ caller.task \in Task
              /\ caller.prev \in Task \cup {NoTask}
              /\ caller.last \in BOOLEAN
              /\ caller # Posting /\ caller # Idle
         /\ caller.step # "link" => caller \in {Idle, Posting}
         /\ Idle # Posting /\ Idle.step # "link" /\ Posting.step # "link"
BY DEF MacTypeOK, Idle, Posting, Linking

(* Where the loop of runTask stops is a task. *)
LEMMA StopIsTask ==
  ASSUME NEW t, NEW at PROVE StopsAt(t, at) \subseteq Task
BY DEF StopsAt, Reach

LEMMA MacTypeStep == MacTypeOK /\ [MacNext]_macVars => MacTypeOK'
<1> SUFFICES ASSUME MacTypeOK, [MacNext]_macVars PROVE MacTypeOK'
  OBVIOUS
<1> DEFINE PC == {"top", "check", "wait", "decide", "gap", "sleep", "fire", "run"}
           LoopTypes == /\ pc \in PC
                        /\ loopNow \in 0 .. MaxTime /\ gap \in 0 .. MaxTime
                        /\ deadline \in 0 .. MaxTime
           CallerTypes == /\ caller \in {Idle, Posting} \cup Linking
                          /\ overtaken \in BOOLEAN
<1>0. TypeOK /\ LoopTypes /\ CallerTypes
  BY DEF MacTypeOK
<1>1. SUFFICES TypeOK' /\ LoopTypes' /\ CallerTypes'
  BY DEF MacTypeOK
<1>2. now \in 0 .. MaxTime /\ NextTimeToFire \in Int /\ NextTimeToFire <= MaxTime
  BY <1>0, ConstantsOK DEF TypeOK, NextTimeToFire
<1>3. CASE ReadClock
  BY <1>0, <1>2, <1>3 DEF ReadClock, vars, TypeOK
<1>4. CASE CheckEmpty
  BY <1>0, <1>4 DEF CheckEmpty, vars, TypeOK
<1>5. CASE Decide
  <2>1. gap' \in 0 .. MaxTime
    BY <1>0, <1>2, <1>5, ConstantsOK DEF Decide
  <2>2. QED
    BY <1>0, <1>5, <2>1 DEF Decide, vars, TypeOK
<1>6. CASE Sleep
  <2>1. deadline' \in 0 .. MaxTime
    BY <1>0, <1>2, <1>6, ConstantsOK DEF Sleep, Later
  <2>2. QED
    BY <1>0, <1>6, <2>1, ConstantsOK DEF Sleep, vars, TypeOK
<1>7. CASE TimeOut
  BY <1>0, <1>7, ConstantsOK DEF TimeOut, vars, TypeOK
<1>8. CASE Fire
  <2>1. FireEvent
    BY <1>8 DEF Fire, FireEvent
  <2>2. TypeOK'
    BY <1>0, <2>1, TypeStep DEF Next
  <2>3. QED
    BY <1>0, <1>8, <2>2 DEF Fire
<1>9. CASE EndOfFire
  <2>1. TypeOK'
    BY <1>0, <1>9, TypeStep DEF EndOfFire, Next
  <2>2. QED
    BY <1>0, <1>9, <2>1 DEF EndOfFire
<1>10. ASSUME NEW t \in Task, NEW d \in Delays, RunFromTask(t, d)
       PROVE  TypeOK' /\ LoopTypes' /\ CallerTypes'
  <2>1. Schedule(t, d, t \in Repeaters /\ t # firing)
    BY <1>10 DEF RunFromTask
  <2>2. (t \in Repeaters /\ t # firing) \in BOOLEAN
    OBVIOUS
  <2>3. Next
    BY <2>1, <2>2 DEF Next
  <2>4. QED
    BY <1>0, <1>10, <2>3, TypeStep DEF RunFromTask, loopVars
<1>11. ASSUME NEW t \in Task, NEW d \in Delays, FindPlace(t, d)
       PROVE  TypeOK' /\ LoopTypes' /\ CallerTypes'
  <2>1. Clamp(d) \in 0 .. MaxDelay /\ Later(Clamp(d)) \in 0 .. MaxTime
    BY <1>0, LaterType, ConstantsOK
  <2>2. /\ repeating' = [repeating EXCEPT ![t] = t \in Repeaters]
        /\ msSet' = [msSet EXCEPT ![t] = Clamp(d)]
        /\ fireAt' = [fireAt EXCEPT ![t] = Later(Clamp(d))]
        /\ next' = [next EXCEPT ![t] = NoTask]
        /\ UNCHANGED <<head, firing, now, scheduled, loopVars>>
    BY <1>11 DEF FindPlace
  <2>3. (t \in Repeaters) \in BOOLEAN
    OBVIOUS
  <2>4. repeating' \in [Task -> BOOLEAN]
    BY <1>0, <2>2, <2>3 DEF TypeOK
  <2>5. TypeOK'
    BY <1>0, <2>1, <2>2, <2>4, ConstantsOK DEF TypeOK
  <2>6. PICK p \in IF GoesFirst(t, Later(Clamp(d)))
                   THEN {NoTask} ELSE StopsAt(t, Later(Clamp(d))) :
          caller' = [step |-> "link", task |-> t, prev |-> p,
                     last |-> NoTask = IF p = NoTask THEN head ELSE next[p]]
    BY <1>11 DEF FindPlace
  <2>7. p \in Task \cup {NoTask}
    BY StopIsTask
  <2>8. (NoTask = IF p = NoTask THEN head ELSE next[p]) \in BOOLEAN
    OBVIOUS
  <2>9. caller' \in Linking
    BY <2>6, <2>7, <2>8 DEF Linking
  <2>10. overtaken' = overtaken
    BY <1>11 DEF FindPlace
  <2>11. QED
    BY <1>0, <2>2, <2>5, <2>9, <2>10 DEF loopVars, Idle, Posting, Linking
<1>12. CASE LinkInPlace
  <2>1. /\ caller.step = "link" /\ caller.task \in Task
        /\ caller.prev \in Task \cup {NoTask}
    BY <1>12, CallerCases DEF LinkInPlace
  <2>2. /\ scheduled' = scheduled \cup {caller.task}
        /\ UNCHANGED <<fireAt, msSet, repeating, firing, now, loopVars, overtaken>>
    BY <1>12 DEF LinkInPlace
  <2>3. /\ head' \in Task \cup {NoTask}
        /\ next' \in [Task -> Task \cup {NoTask}]
        /\ caller' \in {Idle, Posting}
    <3>1. CASE caller.prev = NoTask
      <4>1. (IF caller.last THEN NoTask ELSE head) \in Task \cup {NoTask}
        BY <1>0 DEF TypeOK
      <4>2. QED
        BY <1>0, <1>12, <2>1, <3>1, <4>1 DEF LinkInPlace, TypeOK
    <3>2. CASE caller.prev # NoTask
      <4>1. (IF caller.last THEN NoTask ELSE next[caller.prev]) \in Task \cup {NoTask}
        BY <1>0, <2>1, <3>2 DEF TypeOK
      <4>2. QED
        BY <1>0, <1>12, <2>1, <3>2, <4>1 DEF LinkInPlace, TypeOK
    <3>3. QED
      BY <3>1, <3>2
  <2>4. QED
    BY <1>0, <2>1, <2>2, <2>3 DEF TypeOK, loopVars
<1>13. CASE Post
  BY <1>0, <1>13, ConstantsOK DEF Post, vars, TypeOK
<1>14. CASE WakeUp
  BY <1>0, <1>14, ConstantsOK DEF WakeUp, vars, TypeOK
<1>15. CASE MacTick
  <2>1. TypeOK'
    BY <1>0, <1>15, TypeStep DEF MacTick, Next
  <2>2. QED
    BY <1>0, <1>15, <2>1 DEF MacTick, loopVars
<1>16. CASE UNCHANGED macVars
  BY <1>0, <1>16 DEF macVars, vars, loopVars, TypeOK
<1>17. QED
  BY <1>3, <1>4, <1>5, <1>6, <1>7, <1>8, <1>9, <1>10, <1>11, <1>12, <1>13, <1>14,
     <1>15, <1>16 DEF MacNext, Loop, RunTasks, Calls

-----------------------------------------------------------------------------
(* The thread commits itself to a task only if there is one, and only itself
   takes tasks off; it waits without a limit only if there is none, and a task
   that becomes the first is posted. *)
LEMMA MacInvStep == MacInv /\ [MacNext]_macVars => MacInv'
<1> SUFFICES ASSUME MacInv, [MacNext]_macVars PROVE MacInv'
  OBVIOUS
<1>1. MacTypeOK /\ MacTypeOK'
  BY MacTypeStep DEF MacInv
<1> DEFINE Safe == /\ ~ Spurious /\ pc \in Committed => head # NoTask
                   /\ NeverStranded
<1>2. Safe
  BY DEF MacInv
<1>3. SUFFICES Safe'
  BY <1>1 DEF MacInv
<1> USE DEF Committed, NeverStranded
<1>4. CASE ReadClock
  BY <1>2, <1>4 DEF ReadClock, vars
<1>5. CASE CheckEmpty
  BY <1>2, <1>5 DEF CheckEmpty, vars
<1>6. CASE Decide
  BY <1>2, <1>6 DEF Decide, vars
<1>7. CASE Sleep \/ TimeOut
  BY <1>2, <1>7 DEF Sleep, TimeOut, vars
<1>8. CASE Fire
  BY <1>8 DEF Fire
<1>9. CASE EndOfFire
  BY <1>9 DEF EndOfFire
<1>10. ASSUME NEW t \in Task, NEW d \in Delays, RunFromTask(t, d) PROVE Safe'
  BY <1>10 DEF RunFromTask, loopVars
<1>11. ASSUME NEW t \in Task, NEW d \in Delays, FindPlace(t, d) PROVE Safe'
  BY <1>2, <1>11, CallerCases, <1>1 DEF FindPlace, loopVars
<1>12. CASE LinkInPlace
  <2>1. caller.task \in Task /\ caller # Posting
    BY <1>1, <1>12, CallerCases DEF LinkInPlace
  <2>2. pc' = pc
    BY <1>12 DEF LinkInPlace, loopVars
  <2>3. CASE caller.prev = NoTask
    BY <1>12, <2>1, <2>3, ConstantsOK DEF LinkInPlace
  <2>4. CASE caller.prev # NoTask
    BY <1>2, <1>12, <2>1, <2>2, <2>4 DEF LinkInPlace
  <2>5. QED
    BY <1>2, <2>1, <2>2, <2>3, <2>4, <1>12, ConstantsOK DEF LinkInPlace
<1>13. CASE Post
  BY <1>2, <1>13 DEF Post, vars
<1>14. CASE WakeUp
  BY <1>2, <1>14 DEF WakeUp, vars
<1>15. CASE MacTick
  BY <1>2, <1>15 DEF MacTick, Tick, listVars, loopVars
<1>16. CASE UNCHANGED macVars
  BY <1>2, <1>16 DEF macVars, vars, loopVars
<1>17. QED
  BY <1>4, <1>5, <1>6, <1>7, <1>8, <1>9, <1>10, <1>11, <1>12, <1>13, <1>14, <1>15,
     <1>16 DEF MacNext, Loop, RunTasks, Calls

LEMMA MacInvInit == MacInit => MacInv
<1> SUFFICES ASSUME MacInit PROVE MacInv
  OBVIOUS
<1>1. TypeOK
  BY InitIInv DEF MacInit, IInv
<1>2. overtaken \in BOOLEAN
  BY DEF MacInit
<1>3. MacTypeOK
  BY <1>1, <1>2, ConstantsOK DEF MacInit, MacTypeOK
<1>4. QED
  BY <1>3 DEF MacInit, MacInv, Committed, NeverStranded

LEMMA MacInvariance == MacSpec => []MacInv
BY MacInvInit, MacInvStep, PTL DEF MacSpec

(* The variables of the loop keep their types. *)
THEOREM MacTypeCorrect == MacSpec => []MacTypeOK
<1>1. MacInv => MacTypeOK
  BY DEF MacInv
<1>2. QED
  BY <1>1, MacInvariance, PTL

(* The assertion of fireEvent holds whenever the event thread gets there, however
   the other thread changes the list, if the untimed wait ends only when it is
   notified. *)
THEOREM AssertionHolds ==
  ASSUME Spurious = FALSE PROVE MacSpec => []FiresATask
<1>1. MacInv => FiresATask
  BY DEF MacInv, FiresATask, Committed
<1>2. QED
  BY <1>1, MacInvariance, PTL

(* The event thread waits without a limit only while the list is empty or the
   post of its first task is on its way, whatever the list and the waits do. *)
THEOREM NeverWaitsForNothing == MacSpec => []NeverStranded
<1>1. MacInv => NeverStranded
  BY DEF MacInv
<1>2. QED
  BY <1>1, MacInvariance, PTL

-----------------------------------------------------------------------------
(* What the event thread has worked out stays true, for a new head is due
   before the old one. *)
LEMMA InTimeStep ==
  ASSUME Spurious = FALSE, MacInv, PlaceFound, InTime, [MacNext]_macVars
  PROVE  InTime'
<1>1. MacTypeOK /\ TypeOK /\ (pc \in Committed => head \in Task)
  BY DEF MacInv, MacTypeOK, TypeOK
<1>2. /\ now \in 0 .. MaxTime /\ loopNow \in 0 .. MaxTime
      /\ gap \in 0 .. MaxTime /\ deadline \in 0 .. MaxTime
      /\ fireAt \in [Task -> -1 .. MaxTime] /\ MaxTime \in Nat
  BY <1>1, ConstantsOK DEF MacTypeOK, TypeOK
<1> USE DEF InTime
<1>3. CASE ReadClock
  BY <1>2, <1>3 DEF ReadClock, vars
<1>4. CASE CheckEmpty
  BY <1>4 DEF CheckEmpty, vars
<1>5. CASE Decide
  <2>1. head \in Task /\ NextTimeToFire = fireAt[head] /\ head \in Task
    BY <1>1, <1>5, ConstantsOK DEF Decide, NextTimeToFire, Committed
  <2>2. fireAt[head] \in -1 .. MaxTime
    BY <1>2, <2>1
  <2>3. UNCHANGED <<head, fireAt, now, loopNow>>
    BY <1>5 DEF Decide, vars
  <2>4. QED
    BY <1>2, <1>5, <2>1, <2>2, <2>3 DEF Decide
<1>6. CASE Sleep
  <2>1. fireAt[head] \in -1 .. MaxTime /\ fireAt[head] <= loopNow + gap
    BY <1>1, <1>2, <1>6 DEF Sleep, Committed
  <2>2. fireAt[head] <= Later(gap)
    BY <1>2, <2>1 DEF Later
  <2>3. QED
    BY <1>6, <2>2 DEF Sleep, vars
<1>7. CASE TimeOut
  <2>1. fireAt[head] \in -1 .. MaxTime
    BY <1>1, <1>2, <1>7 DEF TimeOut, Committed
  <2>2. QED
    BY <1>2, <1>7, <2>1 DEF TimeOut, vars
<1>8. CASE Fire
  BY <1>8 DEF Fire
<1>9. CASE EndOfFire
  BY <1>9 DEF EndOfFire, EndFire
<1>10. ASSUME NEW t \in Task, NEW d \in Delays, RunFromTask(t, d) PROVE InTime'
  BY <1>10 DEF RunFromTask, Schedule, loopVars
<1>11. ASSUME NEW t \in Task, NEW d \in Delays, FindPlace(t, d) PROVE InTime'
  <2>1. /\ fireAt' = [fireAt EXCEPT ![t] = Later(Clamp(d))]
        /\ UNCHANGED <<head, now, loopVars>>
    BY <1>11 DEF FindPlace
  <2>2. pc \in Committed => fireAt'[head] = fireAt[head]
    BY <1>1, <1>2, <1>11, <2>1, ListTypes, ConstantsOK DEF FindPlace, MayRun
  <2>3. QED
    BY <2>1, <2>2 DEF loopVars, Committed
<1>12. CASE LinkInPlace
  <2>1. /\ caller.step = "link" /\ caller.task \in Task
        /\ UNCHANGED <<fireAt, now, loopVars>>
    BY <1>1, <1>12, CallerCases DEF LinkInPlace
  <2>2. pc \in Committed => fireAt[head'] <= fireAt[head]
    <3>1. SUFFICES ASSUME pc \in Committed PROVE fireAt[head'] <= fireAt[head]
      OBVIOUS
    <3>2. head \in Task /\ head # NoTask /\ fireAt[head] \in -1 .. MaxTime
          /\ fireAt[caller.task] \in -1 .. MaxTime
      BY <1>1, <1>2, <2>1, <3>1, ConstantsOK
    <3>3. CASE caller.prev = NoTask
      BY <1>12, <2>1, <3>2, <3>3 DEF LinkInPlace, PlaceFound
    <3>4. CASE caller.prev # NoTask
      BY <1>12, <3>2, <3>4 DEF LinkInPlace
    <3>5. QED
      BY <3>3, <3>4
  <2>3. pc \in Committed =>
          fireAt[head] \in -1 .. MaxTime /\ fireAt[head'] \in -1 .. MaxTime
    BY <1>1, <1>2, <1>12, <2>1, ConstantsOK DEF LinkInPlace
  <2>4. QED
    BY <1>2, <2>1, <2>2, <2>3 DEF loopVars, Committed
<1>13. CASE Post
  BY <1>13 DEF Post, vars
<1>14. CASE WakeUp
  BY <1>14 DEF WakeUp, vars
<1>15. CASE MacTick
  <2>1. now' = now + 1 /\ UNCHANGED <<head, fireAt, loopVars>>
    BY <1>15 DEF MacTick, Tick, listVars
  <2>2. pc = "fire" => fireAt[head] \in -1 .. MaxTime
    BY <1>1, <1>2 DEF Committed
  <2>3. QED
    BY <1>2, <2>1, <2>2 DEF loopVars
<1>16. CASE UNCHANGED macVars
  BY <1>16 DEF macVars, vars, loopVars
<1>17. QED
  BY <1>3, <1>4, <1>5, <1>6, <1>7, <1>8, <1>9, <1>10, <1>11, <1>12, <1>13, <1>14,
     <1>15, <1>16 DEF MacNext, Loop, RunTasks, Calls

-----------------------------------------------------------------------------
(* Looking for the place touches the task alone, which is not on the list. *)
LEMMA FindPlaceStep ==
  ASSUME MacTypeOK, IInv, NEW t \in Task, NEW d \in Delays, FindPlace(t, d)
  PROVE  ListInv' /\ RepeaterOffList' /\ PlaceFound'
<1> DEFINE at == Later(Clamp(d))
<1>1. /\ TypeOK /\ ListInv /\ t \notin Members /\ t # firing /\ at \in Int
  <2>1. TypeOK /\ ListInv
    BY DEF IInv, ListInv
  <2>2. t \notin Members /\ t # firing
    BY DEF FindPlace, MayRun
  <2>3. at \in Int
    BY <2>1, LaterType, ConstantsOK
  <2>4. QED
    BY <2>1, <2>2, <2>3
<1>2. /\ head \in Task \cup {NoTask} /\ next \in Links
      /\ fireAt \in [Task -> Int] /\ Members \subseteq Task
      /\ head # NoTask => head \in Members
      /\ \A u \in Members : next[u] # NoTask => next[u] \in Members
  BY <1>1, ListTypes
<1>3. /\ head' = head /\ next' = [next EXCEPT ![t] = NoTask]
      /\ fireAt' = [fireAt EXCEPT ![t] = at]
      /\ scheduled' = scheduled /\ firing' = firing
      /\ repeating' = [repeating EXCEPT ![t] = t \in Repeaters]
  BY DEF FindPlace
<1>4. PICK p \in IF GoesFirst(t, at) THEN {NoTask} ELSE StopsAt(t, at) :
        caller' = [step |-> "link", task |-> t, prev |-> p,
                   last |-> NoTask = IF p = NoTask THEN head ELSE next[p]]
  BY DEF FindPlace
<1> HIDE DEF at
<1>5. /\ fireAt'[t] = at /\ next' \in Links
      /\ \A u \in Members : fireAt'[u] = fireAt[u] /\ next'[u] = next[u]
  BY <1>1, <1>2, <1>3 DEF Links
<1>6. Members' = Members
  <2>1. \A u \in Reach(head, next) : next'[u] = next[u]
    BY <1>5 DEF Members
  <2>2. Reach(head, next') = Reach(head, next)
    BY <1>2, <1>5, <2>1, ReachElsewhere
  <2>3. QED
    BY <1>3, <2>2 DEF Members
<1>7. ListIsPath'
  BY <1>1, <1>3, <1>5, <1>6 DEF ListInv, ListIsPath
<1>8. ListIsSorted'
  <2>1. ASSUME NEW u \in Members', next'[u] # NoTask
        PROVE  fireAt'[u] <= fireAt'[next'[u]]
    <3>1. u \in Members /\ next'[u] = next[u] /\ next[u] \in Members
      BY <1>2, <1>5, <1>6, <2>1
    <3>2. fireAt[u] <= fireAt[next[u]]
      BY <1>1, <2>1, <3>1 DEF ListInv, ListIsSorted
    <3>3. QED
      BY <1>5, <3>1, <3>2
  <2>2. QED
    BY <2>1 DEF ListIsSorted
<1>9. NothingLost'
  BY <1>1, <1>3, <1>6 DEF NothingLost, ListInv
<1>10. RepeaterOffList'
  <2>1. firing # NoTask => repeating'[firing] = repeating[firing]
    BY <1>1, <1>3 DEF TypeOK
  <2>2. QED
    BY <1>3, <1>6, <2>1 DEF RepeaterOffList, IInv
<1>11. PlaceFound'
  <2>1. caller'.task = t /\ caller'.prev = p /\ caller'.last = (NoTask = IF p = NoTask THEN head ELSE next[p])
    BY <1>4
  <2>2. CASE GoesFirst(t, at)
    <3>1. p = NoTask
      BY <1>4, <2>2
    <3>2. head # NoTask => at < fireAt[head]
      BY <2>2 DEF GoesFirst
    <3>3. QED
      BY <1>1, <1>2, <1>3, <1>5, <1>6, <2>1, <3>1, <3>2 DEF PlaceFound
  <2>3. CASE ~ GoesFirst(t, at)
    <3>1. p \in StopsAt(t, at)
      BY <1>4, <2>3
    <3>2. p \in Members /\ fireAt[p] <= at /\ (next[p] # NoTask => at < fireAt[next[p]])
      BY <1>1, <2>3, <3>1, StopPoint
    <3>3. p # NoTask
      BY <1>2, <3>2, ConstantsOK
    <3>4. fireAt'[p] <= fireAt'[t] /\ next'[p] = next[p]
          /\ (next'[p] # NoTask => fireAt'[t] < fireAt'[next'[p]])
      BY <1>2, <1>5, <3>2
    <3>5. QED
      BY <1>1, <1>3, <1>6, <2>1, <3>2, <3>3, <3>4 DEF PlaceFound
  <2>4. QED
    BY <2>2, <2>3
<1>12. QED
  BY <1>7, <1>8, <1>9, <1>10, <1>11 DEF ListInv

(* Linking a task at a place that is still right *)
LEMMA LinkInPlaceStep ==
  ASSUME MacTypeOK, IInv, PlaceFound, LinkInPlace
  PROVE  ListInv' /\ RepeaterOffList' /\ caller'.step # "link"
<1> DEFINE t == caller.task
           p == caller.prev
           at == fireAt[t]
<1>1. TypeOK /\ ListInv /\ t \in Task /\ p \in Task \cup {NoTask}
      /\ caller'.step # "link"
  BY CallerCases DEF IInv, ListInv, LinkInPlace, MacTypeOK
<1>2. fireAt \in [Task -> Int]
  BY <1>1, ListTypes
<1>3. at \in Int /\ fireAt' = [fireAt EXCEPT ![t] = at]
  <2>1. fireAt' = fireAt
    BY DEF LinkInPlace
  <2>2. QED
    BY <1>1, <1>2, <2>1
<1>4. scheduled' = scheduled \cup {t} /\ firing' = firing /\ repeating' = repeating
  BY DEF LinkInPlace
<1>5. t \notin Members /\ t # firing
  BY DEF PlaceFound, LinkInPlace
<1>6. CASE p = NoTask
  <2>1. PutFirst(t, at)
    <3>1. head' = t /\ next' = [next EXCEPT ![t] = head]
      BY <1>6 DEF LinkInPlace, PlaceFound
    <3>2. head # NoTask => at < fireAt[head]
      BY <1>6 DEF PlaceFound, LinkInPlace
    <3> HIDE DEF at, t
    <3>3. QED
      BY <1>3, <1>4, <3>1, <3>2 DEF PutFirst
  <2> HIDE DEF at, t
  <2>2. ListInv' /\ Members' = Members \cup {t}
    BY <1>1, <1>3, <1>5, <2>1, FirstInv
  <2>3. RepeaterOffList'
    BY <1>4, <1>5, <2>2 DEF RepeaterOffList, IInv
  <2>4. QED
    BY <1>1, <2>2, <2>3
<1>7. CASE p # NoTask
  <2>1. /\ p \in Members /\ fireAt[p] <= at
        /\ next[p] # NoTask => at < fireAt[next[p]]
        /\ caller.last => next[p] = NoTask
    BY <1>7 DEF PlaceFound, LinkInPlace
  <2>2. /\ head' = head
        /\ next' = [next EXCEPT ![t] = IF caller.last THEN NoTask ELSE next[p], ![p] = t]
    BY <1>7 DEF LinkInPlace
  <2>3. (IF caller.last THEN NoTask ELSE next[p]) = next[p]
    BY <2>1
  <2> HIDE DEF at, t, p
  <2>4. PutBehind(t, p, at)
    BY <1>3, <1>4, <2>1, <2>2, <2>3 DEF PutBehind
  <2>5. ListInv' /\ Members' = Members \cup {t}
    BY <1>1, <1>3, <1>5, <2>4, BehindInv
  <2>6. RepeaterOffList'
    BY <1>4, <1>5, <2>5 DEF RepeaterOffList, IInv
  <2>7. QED
    BY <1>1, <2>5, <2>6
<1>8. QED
  BY <1>6, <1>7

(* Taking the head off leaves a place right unless it is the one behind the
   head: with none before it, the second task is not due before the first. *)
LEMMA FireKeepsPlace ==
  ASSUME MacTypeOK, IInv, PlaceFound, Fire, ~ overtaken'
  PROVE  IInv' /\ PlaceFound'
<1>1. TypeOK /\ ListInv /\ PopHead /\ caller' = caller
  BY DEF IInv, ListInv, Fire
<1>2. IInv'
  <2>1. FireEvent
    BY DEF Fire, FireEvent
  <2>2. QED
    BY <2>1, StepIInv DEF Next
<1>3. /\ fireAt \in [Task -> Int] /\ head \in Members /\ Members \subseteq Task
      /\ next \in Links
      /\ \A u \in Members : next[u] # NoTask => next[u] \in Members
  BY <1>1, ListTypes DEF PopHead
<1>4. /\ head' = next[head] /\ next' = [next EXCEPT ![head] = NoTask]
      /\ fireAt' = fireAt /\ firing' = head
  BY <1>1 DEF PopHead, listVars
<1>5. Members' = Members \ {head}
  BY <1>1, PopHeadInv
<1>6. ASSUME caller.step = "link", caller.prev = NoTask
      PROVE  PlaceFound'
  <2>1. /\ caller.task \notin Members /\ caller.task \in Task
        /\ head # NoTask /\ fireAt[caller.task] < fireAt[head] /\ ~ caller.last
    BY <1>1, <1>6, CallerCases DEF PlaceFound, PopHead
  <2>2. next[head] # NoTask => fireAt[head] <= fireAt[next[head]]
    BY <1>1, <1>3 DEF ListInv, ListIsSorted
  <2>3. next[head] # NoTask => fireAt[caller.task] < fireAt[next[head]]
    BY <1>3, <2>1, <2>2
  <2>4. QED
    BY <1>1, <1>3, <1>4, <1>5, <1>6, <2>1, <2>3 DEF PlaceFound
<1>7. ASSUME caller.step = "link", caller.prev # NoTask
      PROVE  PlaceFound'
  <2>1. caller.prev # head
    BY <1>7 DEF Fire
  <2>2. /\ caller.prev \in Members /\ caller.task \notin Members
        /\ next'[caller.prev] = next[caller.prev]
    BY <1>3, <1>4, <1>7, <2>1 DEF PlaceFound, Links
  <2>3. QED
    BY <1>1, <1>3, <1>4, <1>5, <1>7, <2>1, <2>2 DEF PlaceFound
<1>8. QED
  BY <1>1, <1>2, <1>6, <1>7 DEF PlaceFound

(* Putting another task on the list leaves a place right unless the task goes
   there. *)
LEMMA RunKeepsPlace ==
  ASSUME MacTypeOK, IInv, PlaceFound, NEW u \in Task, u \notin Members,
         NEW delay \in Int, RunTask(u, delay), PlaceKept, caller' = caller,
         caller.step = "link" => caller.task # u /\ caller.task # firing'
  PROVE  PlaceFound'
<1>1. TypeOK /\ ListInv
  BY DEF IInv, ListInv
<1>2. /\ fireAt \in [Task -> Int] /\ Members \subseteq Task /\ NoTask \notin Task
      /\ head # NoTask => head \in Members
      /\ \A v \in Members : next[v] # NoTask => next[v] \in Members
  BY <1>1, ListTypes, ConstantsOK
<1>3. Members' = Members \cup {u}
  BY <1>1, RunTaskInv
<1>4. \A v \in Task : v # u => fireAt'[v] = fireAt[v]
  BY <1>2 DEF RunTask, LinkFirst, LinkBehind, Stamp
<1>5. \A v \in Members : v # u /\ v \in Task
  BY <1>2
<1>6. SUFFICES ASSUME caller.step = "link" PROVE PlaceFound'
  BY DEF PlaceFound
<1>7. caller.task \in Task /\ caller.task # u /\ caller.task \notin Members'
      /\ fireAt'[caller.task] = fireAt[caller.task]
  BY <1>3, <1>4, <1>6, CallerCases DEF PlaceFound
<1>8. CASE caller.prev = NoTask
  <2>1. head' = head
    BY <1>6, <1>8 DEF PlaceKept
  <2>2. head # NoTask => fireAt'[head] = fireAt[head]
    BY <1>2, <1>4, <1>5
  <2>3. QED
    BY <1>6, <1>7, <1>8, <2>1, <2>2 DEF PlaceFound
<1>9. CASE caller.prev # NoTask
  <2>1. next'[caller.prev] = next[caller.prev] /\ caller.prev \in Members
    BY <1>6, <1>9 DEF PlaceKept, PlaceFound
  <2>2. /\ fireAt'[caller.prev] = fireAt[caller.prev]
        /\ next[caller.prev] # NoTask =>
             fireAt'[next[caller.prev]] = fireAt[next[caller.prev]]
    BY <1>2, <1>4, <1>5, <2>1
  <2>3. QED
    BY <1>3, <1>6, <1>7, <1>9, <2>1, <2>2 DEF PlaceFound
<1>10. QED
  BY <1>8, <1>9

(* Every step keeps the list in order, and the place that a caller has found
   right, until one overtakes that place. *)
LEMMA OrderStep == OrderInv /\ [MacNext]_macVars => OrderInv'
<1> SUFFICES ASSUME OrderInv, [MacNext]_macVars PROVE OrderInv'
  OBVIOUS
<1>1. MacInv /\ MacInv' /\ MacTypeOK /\ MacTypeOK' /\ TypeOK'
  BY MacInvStep DEF OrderInv, MacInv, MacTypeOK
<1>2. overtaken => overtaken'
  BY DEF MacNext, Loop, RunTasks, Calls, ReadClock, CheckEmpty, Decide, Sleep, TimeOut,
     Fire, EndOfFire, WakeUp, RunFromTask, FindPlace, LinkInPlace, Post, MacTick, macVars
<1>3. SUFFICES ASSUME ~ overtaken' PROVE IInv' /\ PlaceFound'
  BY <1>1 DEF OrderInv, ListInOrder
<1>4. IInv /\ PlaceFound
  BY <1>2, <1>3 DEF OrderInv, ListInOrder
<1>5. ASSUME UNCHANGED vars, caller' = caller \/ caller'.step # "link"
      PROVE  IInv' /\ PlaceFound'
  <2>1. IInv'
    BY <1>4, <1>5, StepIInv
  <2>2. Members' = Members
    BY <1>5 DEF vars, Members
  <2>3. PlaceFound'
    BY <1>4, <1>5, <2>2 DEF PlaceFound, vars
  <2>4. QED
    BY <2>1, <2>3
<1>6. CASE ReadClock \/ CheckEmpty \/ Decide \/ Sleep \/ TimeOut \/ WakeUp
  BY <1>5, <1>6 DEF ReadClock, CheckEmpty, Decide, Sleep, TimeOut, WakeUp
<1>7. CASE Fire
  BY <1>1, <1>3, <1>4, <1>7, FireKeepsPlace
<1>8. CASE EndOfFire
  <2>1. IInv'
    BY <1>4, <1>8, StepIInv DEF EndOfFire, Next
  <2>2. /\ firing \in Task /\ firing' = NoTask /\ caller' = caller /\ PlaceKept
        /\ NoTask \notin Task
    BY <1>1, <1>3, <1>8, ConstantsOK DEF EndOfFire, EndFire, MacTypeOK, TypeOK
  <2>3. CASE repeating[firing]
    <3>1. RunTask(firing, msSet[firing]) /\ firing \notin Members
      BY <1>4, <1>8, <2>2, <2>3 DEF EndOfFire, EndFire, RepeaterOffList, IInv
    <3>2. msSet[firing] \in Int
      BY <1>1, <2>2, ConstantsOK DEF MacTypeOK, TypeOK
    <3>3. caller.step = "link" => caller.task # firing /\ caller.task # firing'
      BY <1>1, <1>4, <2>2, CallerCases DEF PlaceFound
    <3>4. QED
      BY <1>1, <1>4, <2>1, <2>2, <3>1, <3>2, <3>3, RunKeepsPlace
  <2>4. CASE ~ repeating[firing]
    <3>1. UNCHANGED listVars
      BY <1>8, <2>4 DEF EndOfFire, EndFire
    <3>2. Members' = Members
      BY <3>1 DEF listVars, Members
    <3>3. caller.step = "link" => caller.task # firing'
      BY <1>1, <2>2, CallerCases
    <3>4. PlaceFound'
      BY <1>4, <2>2, <3>1, <3>2, <3>3 DEF PlaceFound, listVars
    <3>5. QED
      BY <2>1, <3>4
  <2>5. QED
    BY <2>3, <2>4
<1>9. ASSUME NEW t \in Task, NEW d \in Delays, RunFromTask(t, d)
      PROVE  IInv' /\ PlaceFound'
  <2>1. Schedule(t, d, t \in Repeaters /\ t # firing) /\ PlaceKept /\ caller' = caller
        /\ (caller.step = "link" => caller.task # t)
    BY <1>3, <1>9 DEF RunFromTask
  <2>2. (t \in Repeaters /\ t # firing) \in BOOLEAN
    OBVIOUS
  <2>3. IInv'
    BY <1>4, <2>1, <2>2, StepIInv DEF Next
  <2>4. RunTask(t, d) /\ t \notin Members /\ firing' = firing /\ d \in Int
    BY <2>1, ConstantsOK DEF Schedule, MayRun
  <2>5. caller.step = "link" => caller.task # firing'
    BY <1>4, <2>4 DEF PlaceFound
  <2>6. QED
    BY <1>1, <1>4, <2>1, <2>3, <2>4, <2>5, RunKeepsPlace
<1>10. ASSUME NEW t \in Task, NEW d \in Delays, FindPlace(t, d)
       PROVE  IInv' /\ PlaceFound'
  BY <1>1, <1>4, <1>10, FindPlaceStep DEF IInv, ListInv
<1>11. CASE LinkInPlace
  BY <1>1, <1>4, <1>11, LinkInPlaceStep DEF IInv, ListInv, PlaceFound
<1>12. CASE Post
  BY <1>5, <1>12 DEF Post, Idle
<1>13. CASE MacTick
  <2>1. IInv'
    BY <1>4, <1>13, StepIInv DEF MacTick, Next
  <2>2. /\ Members' = Members /\ caller' = caller
        /\ UNCHANGED <<head, next, fireAt, firing>>
    BY <1>13 DEF MacTick, Tick, listVars, Members
  <2>3. PlaceFound'
    BY <1>4, <2>2 DEF PlaceFound
  <2>4. QED
    BY <2>1, <2>3
<1>14. CASE UNCHANGED macVars
  BY <1>5, <1>14 DEF macVars
<1>15. QED
  BY <1>6, <1>7, <1>8, <1>9, <1>10, <1>11, <1>12, <1>13, <1>14
     DEF MacNext, Loop, RunTasks, Calls

LEMMA OrderInit == MacInit => OrderInv
BY MacInvInit, InitIInv DEF MacInit, OrderInv, ListInOrder, PlaceFound, Idle

(* No task is lost and none is brought back, on a list that no lock protects,
   until the event thread changes it at the place where another thread is about
   to link a task. *)
THEOREM NothingIsLostUnlessOvertaken == MacSpec => []LostOnlyIfOvertaken
<1>1. OrderInv => LostOnlyIfOvertaken
  BY DEF OrderInv, ListInOrder, IInv, LostOnlyIfOvertaken
<1>2. QED
  BY <1>1, OrderInit, OrderStep, PTL DEF MacSpec

(* No task starts before its time, on a list that no lock protects, until such a
   place is overtaken, if the untimed wait ends only when it is notified. *)
THEOREM NothingStartsEarly ==
  ASSUME Spurious = FALSE PROVE MacSpec => NeverEarly
<1> DEFINE Inv == OrderInv /\ (~ overtaken => InTime)
<1>1. MacInit => Inv
  BY OrderInit, ConstantsOK DEF MacInit, Init, InTime
<1>2. Inv /\ [MacNext]_macVars => Inv'
  <2> SUFFICES ASSUME Inv, [MacNext]_macVars, ~ overtaken' PROVE InTime'
    BY OrderStep
  <2>1. ~ overtaken
    BY DEF MacNext, Loop, RunTasks, Calls, ReadClock, CheckEmpty, Decide, Sleep,
       TimeOut, Fire, EndOfFire, WakeUp, RunFromTask, FindPlace, LinkInPlace, Post,
       MacTick, macVars
  <2>2. MacInv /\ PlaceFound /\ InTime
    BY <2>1 DEF OrderInv, ListInOrder
  <2>3. QED
    BY <2>2, InTimeStep
<1>3. Inv /\ [MacNext]_macVars =>
        [Fire /\ ~ overtaken => now >= fireAt[head]]_macVars
  <2> SUFFICES ASSUME Inv, Fire, ~ overtaken PROVE now >= fireAt[head]
    OBVIOUS
  <2>1. fireAt[head] <= now
    BY DEF Fire, InTime
  <2>2. QED
    BY <2>1
<1>4. QED
  BY <1>1, <1>2, <1>3, PTL DEF MacSpec, NeverEarly

=============================================================================

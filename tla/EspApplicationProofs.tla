------------------------ MODULE EspApplicationProofs -------------------------
(***************************************************************************)
(* Proofs about what runs on the list of tasks on the ESP8266, on top of   *)
(* what TaskManagerProofs shows of the list.  First the event loop, for    *)
(* every set of tasks, all delays and any horizon: it does nothing to the  *)
(* list but what TaskManager allows, so the invariant proved there holds   *)
(* here, too, and the loop is never left without an event, if no task      *)
(* repeats.  Then the application's two tasks, for any number of runs and  *)
(* any delays.                                                             *)
(***************************************************************************)
EXTENDS Application, EspTaskManager, TaskManagerProofs

-----------------------------------------------------------------------------
(* The event loop *)

(* The loop's part of the type invariant. *)
SdkTypes == posted \in BOOLEAN /\ timer \in {Off} \cup 0 .. MaxTime

(* No task has been run with runRepeating. *)
NoneRepeats == \A t \in Task : ~ repeating[t]

(* The inductive invariant. *)
EInv == IInv /\ SdkTypes /\ NoneRepeats /\ NeverStranded

-----------------------------------------------------------------------------
(* Every step of the loop is an operation of the list, or leaves it alone. *)
LEMMA EspStep == [EspNext]_espVars => [Next]_vars
<1> SUFFICES ASSUME [EspNext]_espVars PROVE [Next]_vars
  OBVIOUS
<1>1. ASSUME NEW t \in Task, NEW d \in Delays, RunFromCallback(t, d)
      PROVE  Next
  <2>1. Schedule(t, d, t \in Repeaters /\ t # firing)
    BY <1>1 DEF RunFromCallback
  <2>2. (t \in Repeaters /\ t # firing) \in BOOLEAN
    OBVIOUS
  <2>3. QED
    BY <2>1, <2>2 DEF Next
<1>2. ASSUME NEW t \in Task, RemoveFromCallback(t) PROVE Next
  BY <1>2 DEF RemoveFromCallback, Next
<1>3. CASE ExecutionTask
  BY <1>3 DEF ExecutionTask, NothingToDo, FireHead, ArmTimer, Next
<1>4. CASE EndOfFire
  BY <1>4 DEF EndOfFire, Next
<1>5. CASE TimerTick
  BY <1>5 DEF TimerTick
<1>6. CASE EspTick
  BY <1>6 DEF EspTick, Next
<1>7. CASE UNCHANGED espVars
  BY <1>7 DEF espVars
<1>8. QED
  BY <1>1, <1>2, <1>3, <1>4, <1>5, <1>6, <1>7 DEF EspNext, Callbacks

(* The loop uses the list as TaskManager says it may be used. *)
THEOREM EspImplementsTaskList == EspSpec => Spec
<1>1. EspInit => Init
  BY DEF EspInit
<1>2. QED
  BY <1>1, EspStep, PTL DEF EspSpec, Spec

(* Nothing that was run is lost on the ESP8266, whatever callbacks do. *)
THEOREM EspLosesNothing == EspSpec => []NothingLost
BY EspImplementsTaskList, NoTaskIsLost, PTL

(* The ESP8266 starts tasks in the order of their due times, first come first
   served among equals, once per request. *)
THEOREM EspImplementsTimerQueue == EspSpec => ImplementsTimerQueue
BY EspImplementsTaskList, ListImplementsTimerQueue, PTL

-----------------------------------------------------------------------------
LEMMA SdkTypesStep == TypeOK /\ SdkTypes /\ [EspNext]_espVars => SdkTypes'
<1> SUFFICES ASSUME TypeOK, SdkTypes, [EspNext]_espVars PROVE SdkTypes'
  OBVIOUS
<1> USE DEF SdkTypes, PostEvent, PostIfFirst, sdkVars
<1>1. ASSUME NEW t \in Task, NEW d \in Delays, RunFromCallback(t, d)
      PROVE  SdkTypes'
  BY <1>1 DEF RunFromCallback
<1>2. ASSUME NEW t \in Task, RemoveFromCallback(t) PROVE SdkTypes'
  BY <1>2 DEF RemoveFromCallback
<1>3. CASE NothingToDo
  BY <1>3 DEF NothingToDo
<1>4. CASE FireHead
  BY <1>4 DEF FireHead
<1>5. CASE ArmTimer
  <2>1. NextTimeToFire - now > Slop /\ NextTimeToFire \in Int /\ now \in 0 .. MaxTime
    BY <1>5 DEF ArmTimer, NextTimeToFire, TypeOK
  <2>2. Later(NextTimeToFire - now) \in 0 .. MaxTime
    BY <2>1, ConstantsOK, EspConstantsOK DEF Later
  <2>3. QED
    BY <1>5, <2>2 DEF ArmTimer
<1>6. CASE EndOfFire
  BY <1>6 DEF EndOfFire
<1>7. CASE TimerTick
  BY <1>7 DEF TimerTick
<1>8. CASE EspTick
  BY <1>8 DEF EspTick
<1>9. CASE UNCHANGED espVars
  BY <1>9 DEF espVars
<1>10. QED
  BY <1>1, <1>2, <1>3, <1>4, <1>5, <1>6, <1>7, <1>8, <1>9
     DEF EspNext, Callbacks, ExecutionTask

(* The variables of the loop keep their types. *)
THEOREM EspTypeCorrect == EspSpec => []EspTypeOK
<1>1. EspInit => SdkTypes
  BY DEF EspInit, SdkTypes
<1>2. EspSpec => []TypeOK
  BY EspImplementsTaskList, TypeCorrect, PTL
<1>3. TypeOK /\ SdkTypes => EspTypeOK
  BY DEF EspTypeOK, SdkTypes
<1>4. QED
  BY <1>1, <1>2, <1>3, SdkTypesStep, PTL DEF EspSpec

-----------------------------------------------------------------------------
LEMMA NoneRepeatsStep ==
  ASSUME Repeaters = {}, TypeOK, NoneRepeats, [EspNext]_espVars
  PROVE  NoneRepeats'
<1>1. ASSUME NEW t \in Task, NEW d \in Delays, RunFromCallback(t, d)
      PROVE  NoneRepeats'
  <2>1. repeating' = [repeating EXCEPT ![t] = FALSE]
    BY <1>1 DEF RunFromCallback, Schedule
  <2>2. QED
    BY <2>1 DEF NoneRepeats, TypeOK
<1>2. CASE repeating' = repeating
  BY <1>2 DEF NoneRepeats
<1>3. QED
  BY <1>1, <1>2 DEF EspNext, Callbacks, RemoveFromCallback, RemoveTask,
     ExecutionTask, NothingToDo, FireHead, FireEvent, ArmTimer, EndOfFire,
     EndFire, TimerTick, EspTick, Tick, espVars, vars

(* A task run from a callback: it is posted if it becomes the head, and behind
   the head it leaves the head's time as it was. *)
LEMMA StrandedRun ==
  ASSUME EInv, NEW t \in Task, NEW d \in Delays, RunFromCallback(t, d)
  PROVE  NeverStranded'
<1>1. /\ t \notin Members /\ RunTask(t, d) /\ firing' = firing
      /\ PostIfFirst(t, d) /\ timer' = timer
  BY DEF RunFromCallback, Schedule, MayRun
<1>2. CASE GoesFirst(t, Later(Clamp(d)))
  BY <1>1, <1>2 DEF PostIfFirst, PostEvent, NeverStranded
<1>3. CASE ~ GoesFirst(t, Later(Clamp(d)))
  <2>1. head # NoTask /\ head' = head /\ posted' = posted
    BY <1>1, <1>3 DEF PostIfFirst, RunTask, LinkFirst, LinkBehind, GoesFirst
  <2>2. head \in Members /\ fireAt \in [Task -> Int] /\ head \in Task
    BY <2>1, ListTypes DEF EInv, IInv, TypeOK
  <2>3. fireAt' = [fireAt EXCEPT ![t] = Later(Clamp(d))]
    BY <1>1 DEF RunTask, LinkFirst, LinkBehind, Stamp
  <2>4. fireAt'[head'] = fireAt[head]
    BY <1>1, <2>1, <2>2, <2>3
  <2>5. QED
    BY <1>1, <2>1, <2>4 DEF EInv, NeverStranded
<1>4. QED
  BY <1>2, <1>3

(* A task taken off: the next head is due no earlier, for the list is in
   order, so the event or the timer on its way is good for it, too. *)
LEMMA StrandedRemove ==
  ASSUME EInv, NEW t \in Task, RemoveFromCallback(t)
  PROVE  NeverStranded'
<1>1. /\ Unlink(t) /\ firing' = firing /\ posted' = posted /\ timer' = timer
      /\ fireAt' = fireAt
  BY DEF RemoveFromCallback, RemoveTask, Unlink, sdkVars
<1>2. CASE head' = head
  BY <1>1, <1>2 DEF EInv, NeverStranded
<1>3. CASE head' # head
  <2>1. t \in Members /\ t = head /\ head' = next[head]
    BY <1>1, <1>3 DEF Unlink
  <2>2. head' # NoTask => fireAt[head] <= fireAt[head']
    BY <2>1 DEF EInv, IInv, ListIsSorted
  <2>3. head # NoTask
    BY <2>1, ListTypes, ConstantsOK DEF EInv, IInv
  <2>4. head' \in Task \cup {NoTask}
    BY <2>1, ListTypes DEF EInv, IInv, Links
  <2>5. /\ fireAt \in [Task -> Int] /\ head \in Task
        /\ timer \in Int
    BY <2>1, ListTypes, ConstantsOK DEF EInv, IInv, SdkTypes, Off
  <2>6. QED
    BY <1>1, <2>2, <2>3, <2>4, <2>5 DEF EInv, NeverStranded
<1>4. QED
  BY <1>2, <1>3

LEMMA EInvStep ==
  ASSUME Repeaters = {}, EInv, [EspNext]_espVars
  PROVE  EInv'
<1>1. IInv' /\ SdkTypes' /\ NoneRepeats'
  <2>1. [Next]_vars
    BY EspStep
  <2>2. TypeOK /\ IInv /\ SdkTypes /\ NoneRepeats
    BY DEF EInv, IInv
  <2>3. QED
    BY <2>1, <2>2, StepIInv, SdkTypesStep, NoneRepeatsStep
<1> SUFFICES NeverStranded'
  BY <1>1 DEF EInv
<1>2. ASSUME NEW t \in Task, NEW d \in Delays, RunFromCallback(t, d)
      PROVE  NeverStranded'
  BY <1>2, StrandedRun
<1>3. ASSUME NEW t \in Task, RemoveFromCallback(t) PROVE NeverStranded'
  BY <1>3, StrandedRemove
<1>4. CASE NothingToDo
  BY <1>4 DEF NothingToDo, vars, NeverStranded
<1>5. CASE FireHead
  BY <1>5 DEF FireHead, FireEvent, PopHead, NeverStranded
<1>6. CASE ArmTimer
  <2>1. /\ head \in Task /\ fireAt[head] \in -1 .. MaxTime
        /\ now \in 0 .. MaxTime
        /\ fireAt[head] - now > Slop
    BY <1>6 DEF ArmTimer, NextTimeToFire, EInv, IInv, TypeOK
  <2>2. timer' = fireAt[head] /\ timer' # Off
    BY <1>6, <2>1, ConstantsOK, EspConstantsOK
       DEF ArmTimer, NextTimeToFire, Later, Off
  <2>3. head' = head /\ fireAt' = fireAt
    BY <1>6 DEF ArmTimer, vars
  <2>4. QED
    BY <2>1, <2>2, <2>3 DEF NeverStranded
<1>7. CASE EndOfFire
  <2>1. firing \in Task /\ ~ repeating[firing]
    BY <1>7 DEF EndOfFire, EndFire, EInv, IInv, TypeOK, NoneRepeats
  <2>2. head' = head /\ posted' = (posted \/ head # NoTask)
    BY <1>7, <2>1 DEF EndOfFire, EndFire, listVars
  <2>3. QED
    BY <2>2 DEF NeverStranded
<1>8. CASE TimerTick
  BY <1>8 DEF TimerTick, PostEvent, NeverStranded
<1>9. CASE EspTick
  BY <1>9 DEF EspTick, Tick, listVars, sdkVars, EInv, NeverStranded
<1>10. CASE UNCHANGED espVars
  BY <1>10 DEF espVars, vars, sdkVars, EInv, NeverStranded
<1>11. QED
  BY <1>2, <1>3, <1>4, <1>5, <1>6, <1>7, <1>8, <1>9, <1>10
     DEF EspNext, Callbacks, ExecutionTask

(* Between callbacks, as long as no task repeats, a list that is not empty has
   an event queued or a timer armed in time. *)
THEOREM NeverLeftWithoutEvent ==
  ASSUME Repeaters = {} PROVE EspSpec => []NeverStranded
<1>1. EspInit => EInv
  <2> SUFFICES ASSUME EspInit PROVE EInv
    OBVIOUS
  <2>1. IInv
    BY InitIInv DEF EspInit
  <2>2. SdkTypes /\ NoneRepeats /\ NeverStranded
    BY DEF EspInit, Init, SdkTypes, NoneRepeats, NeverStranded
  <2>3. QED
    BY <2>1, <2>2 DEF EInv
<1>2. EInv /\ [EspNext]_espVars => EInv'
  BY EInvStep
<1>3. EInv => NeverStranded
  BY DEF EInv
<1>4. QED
  BY <1>1, <1>2, <1>3, PTL DEF EspSpec

-----------------------------------------------------------------------------
(* The application's tasks *)

(* What holds of the list and the runner, where "run" is not entered while a
   program runs.  The task that executes is off the list, which is what lets
   it run itself again. *)
AppInv ==
  /\ AppTypeOK
  /\ ListInv
  /\ firing \notin Members
  /\ RunnerIsScheduled
  /\ HeartbeatGoesOn
  /\ function = runs
  /\ running => runs > 0
  /\ \A r \in 1 .. MaxRuns :
       calls[r] = IF r > runs \/ (r = runs /\ running) THEN 0 ELSE 1

-----------------------------------------------------------------------------
(* The delays asked for are delays. *)
LEMMA DelaysAreNumbers ==
  /\ ProgramDelays \cup {0, WaitMs} \subseteq Int
  /\ DownMs \in Int /\ UpMs \in Int
  /\ Runner \in Task /\ Heart \in Task /\ Runner # Heart
  /\ NoTask \notin Task /\ \A t \in Task : t = Runner \/ t = Heart
<1>1. ProgramDelays \subseteq Nat /\ WaitMs \in Nat /\ DownMs \in Nat /\ UpMs \in Nat
  BY ApplicationConstantsOK
<1>2. ProgramDelays \cup {0, WaitMs} \subseteq Int
  BY <1>1
<1>3. /\ Runner \in Task /\ Heart \in Task /\ Runner # Heart
      /\ \A t \in Task : t = Runner \/ t = Heart
  BY ApplicationConstantsOK
<1>4. QED
  BY <1>1, <1>2, <1>3, ConstantsOK

LEMMA AppInitTypes == AppInit => AppTypeOK
<1> SUFFICES ASSUME AppInit PROVE AppTypeOK
  OBVIOUS
<1>1. Clamp(UpMs) \in 0 .. MaxDelay /\ Later(Clamp(UpMs)) \in 0 .. MaxTime
  BY DelaysAreNumbers, ConstantsOK DEF AppInit, Clamp, Later
<1>2. TypeOK
  BY <1>1, DelaysAreNumbers, ConstantsOK DEF AppInit, TypeOK
<1>3. /\ running \in BOOLEAN /\ terminate \in BOOLEAN
      /\ looks \in BOOLEAN /\ upbeat \in BOOLEAN
  BY DEF AppInit
<1>4. runs \in 0 .. MaxRuns /\ function \in 0 .. runs
  BY ApplicationConstantsOK DEF AppInit
<1>5. calls \in [1 .. MaxRuns -> Nat]
  BY DEF AppInit
<1>6. QED
  BY <1>2, <1>3, <1>4, <1>5 DEF AppTypeOK

(* A call of runOnce, whose task is not firing any more or not yet. *)
LEMMA RunOnceTypes ==
  ASSUME TypeOK, NEW t \in Task, NEW d \in Int, RunOnce(t, d),
         firing' \in Task \cup {NoTask}, now' = now
  PROVE  TypeOK'
BY RunTaskTypes DEF RunOnce, TypeOK

LEMMA NotRunTypes ==
  ASSUME TypeOK, NotRun, firing' \in Task \cup {NoTask}, now' = now
  PROVE  TypeOK'
BY DEF NotRun, listVars, TypeOK

(* Every action leaves the variables well typed. *)
LEMMA AppTypeStep == AppTypeOK /\ [AppNext]_allVars => AppTypeOK'
<1> SUFFICES ASSUME AppTypeOK, [AppNext]_allVars PROVE AppTypeOK'
  OBVIOUS
<1> USE DelaysAreNumbers
<1>0. /\ TypeOK /\ running \in BOOLEAN /\ terminate \in BOOLEAN
      /\ looks \in BOOLEAN /\ upbeat \in BOOLEAN /\ runs \in 0 .. MaxRuns /\ function \in 0 .. runs
      /\ calls \in [1 .. MaxRuns -> Nat] /\ MaxRuns \in Nat
  BY ApplicationConstantsOK DEF AppTypeOK
<1>1. CASE Stop
  BY <1>0, <1>1 DEF Stop, vars, TypeOK, AppTypeOK
<1>2. CASE Run
  <2>1. TypeOK'
    <3>1. RunOnce(Runner, 0) /\ firing' = firing /\ now' = now
      BY <1>2 DEF Run
    <3>2. firing \in Task \cup {NoTask}
      BY <1>0 DEF TypeOK
    <3>3. QED
      BY <1>0, <3>1, <3>2, RunOnceTypes
  <2>2. /\ running' \in BOOLEAN /\ terminate' \in BOOLEAN
        /\ looks' \in BOOLEAN /\ upbeat' \in BOOLEAN
    BY <1>0, <1>2 DEF Run
  <2>3. runs' \in 0 .. MaxRuns /\ function' \in 0 .. runs' /\ calls' = calls
    BY <1>0, <1>2 DEF Run
  <2>4. QED
    BY <1>0, <2>1, <2>2, <2>3 DEF AppTypeOK
<1>3. CASE Slice
  <2>1. CASE running /\ Goes
    <3>1. PICK d \in ProgramDelays \cup {0, WaitMs} : RunOnce(Runner, d)
      BY <2>1 DEF Goes
    <3>2. TypeOK'
      BY <1>0, <1>3, <3>1, RunOnceTypes DEF Slice
    <3>3. terminate' \in BOOLEAN /\ looks' \in BOOLEAN
      BY <1>0, <2>1 DEF Goes
    <3>4. QED
      BY <1>0, <1>3, <2>1, <3>2, <3>3 DEF Slice, Goes, AppTypeOK
  <2>2. CASE running /\ Ends
    <3>1. TypeOK'
      BY <1>0, <1>3, <2>2, NotRunTypes DEF Slice, Ends
    <3>2. calls' \in [1 .. MaxRuns -> Nat]
      <4>1. calls' = [calls EXCEPT ![function] = calls[function] + 1]
        BY <2>2 DEF Ends
      <4>2. \A r \in 1 .. MaxRuns : calls[r] + 1 \in Nat
        BY <1>0
      <4>3. QED
        BY <1>0, <4>1, <4>2
    <3>3. QED
      BY <1>0, <1>3, <2>2, <3>1, <3>2 DEF Slice, Ends, AppTypeOK
  <2>3. CASE ~ running
    <3>1. TypeOK'
      BY <1>0, <1>3, <2>3, NotRunTypes DEF Slice
    <3>2. QED
      BY <1>0, <1>3, <2>3, <3>1 DEF Slice, appVars, AppTypeOK
  <2>4. QED
    BY <1>3, <2>1, <2>2, <2>3 DEF Slice
<1>4. CASE Beat
  <2>1. PICK d \in Int : RunOnce(Heart, d)
    BY <1>4 DEF Beat
  <2>2. TypeOK'
    BY <1>0, <1>4, <2>1, RunOnceTypes DEF Beat
  <2>3. QED
    BY <1>0, <1>4, <2>2 DEF Beat, appVars, AppTypeOK
<1>5. CASE Fire
  <2>1. TypeOK'
    BY <1>0, <1>5 DEF Fire, FireEvent, PopHead, TypeOK
  <2>2. QED
    BY <1>0, <1>5, <2>1 DEF Fire, appVars, AppTypeOK
<1>6. CASE AppTick
  <2>1. TypeOK'
    BY <1>0, <1>6, ConstantsOK DEF AppTick, Tick, listVars, TypeOK
  <2>2. QED
    BY <1>0, <1>6, <2>1 DEF AppTick, appVars, AppTypeOK
<1>7. CASE UNCHANGED allVars
  BY <1>0, <1>7 DEF allVars, vars, appVars, TypeOK, AppTypeOK
<1>8. QED
  BY <1>1, <1>2, <1>3, <1>4, <1>5, <1>6, <1>7 DEF AppNext

(* The variables keep their types, whatever the runs. *)
THEOREM AppTypeCorrect == AppSpec => []AppTypeOK
BY AppInitTypes, AppTypeStep, PTL DEF AppSpec

-----------------------------------------------------------------------------
(* Initially the heartbeat is on the list, alone. *)
LEMMA AppInitInv == AppInit => AppInv
<1> SUFFICES ASSUME AppInit PROVE AppInv
  OBVIOUS
<1> USE DelaysAreNumbers
<1>1. AppTypeOK
  BY AppInitTypes
<1>2. head = Heart /\ next \in Links /\ \A t \in Task : next[t] = NoTask
  BY DEF AppInit, Links
<1>3. Members = {Heart}
  <2>1. Heart \in Members
    BY <1>2, ReachBasics DEF Members
  <2>2. {Heart} \in SUBSET Task /\ \A u \in {Heart} : next[u] = NoTask
    BY <1>2
  <2>3. Reach(head, next) \subseteq {Heart}
    BY <1>2, <2>2, ReachLeast
  <2>4. QED
    BY <2>1, <2>3 DEF Members
<1>4. ListInv
  BY <1>2, <1>3 DEF AppInit, ListInv, ListIsPath, ListIsSorted, NothingLost
<1>5. /\ firing \notin Members /\ RunnerIsScheduled /\ HeartbeatGoesOn
      /\ function = runs /\ (running => runs > 0)
  BY <1>3 DEF AppInit, RunnerIsScheduled, HeartbeatGoesOn
<1>6. \A r \in 1 .. MaxRuns :
        calls[r] = IF r > runs \/ (r = runs /\ running) THEN 0 ELSE 1
  BY DEF AppInit
<1>7. QED
  BY <1>1, <1>4, <1>5, <1>6 DEF AppInv

(* runOnce, for a task that is not on the list, puts it there. *)
LEMMA RunOnceInv ==
  ASSUME TypeOK, ListInv, NEW t \in Task, t \notin Members, NEW d \in Int,
         RunOnce(t, d)
  PROVE  ListInv' /\ Members' = Members \cup {t}
BY RunTaskInv DEF RunOnce

(* Every action keeps the invariant. *)
LEMMA StepAppInv ==
  ASSUME ~ RunsTwice, AppInv, [AppNext]_allVars
  PROVE  AppInv'
<1> USE DelaysAreNumbers
<1> DEFINE Called(r) == IF r > runs \/ (r = runs /\ running) THEN 0 ELSE 1
<1>0. /\ TypeOK /\ ListInv /\ firing \in Task \cup {NoTask}
      /\ head \in Task \cup {NoTask} /\ Members \subseteq Task
      /\ firing \notin Members
      /\ running <=> Runner \in Members \cup ({firing} \ {NoTask})
      /\ Heart \in Members \cup {firing}
  BY ListTypes DEF AppInv, AppTypeOK, TypeOK, RunnerIsScheduled, HeartbeatGoesOn
<1>t. /\ running \in BOOLEAN /\ runs \in 0 .. MaxRuns /\ MaxRuns \in Nat
      /\ calls \in [1 .. MaxRuns -> Nat]
      /\ function = runs /\ (running => runs > 0)
      /\ \A r \in 1 .. MaxRuns : calls[r] = Called(r)
  BY ApplicationConstantsOK DEF AppInv, AppTypeOK
<1>a. AppTypeOK'
  BY AppTypeStep DEF AppInv
<1> DEFINE Scheduled ==
             /\ ListInv' /\ firing' \notin Members'
             /\ running' <=> Runner \in Members' \cup ({firing'} \ {NoTask})
             /\ Heart \in Members' \cup {firing'}
           Counted ==
             /\ function' = runs' /\ (running' => runs' > 0)
             /\ \A r \in 1 .. MaxRuns : calls'[r] = Called(r)'
<1>b. SUFFICES Scheduled /\ Counted
  BY <1>a, <1>b DEF AppInv, RunnerIsScheduled, HeartbeatGoesOn
<1>c. ASSUME UNCHANGED <<running, function, runs, calls>>
      PROVE  Counted
  BY <1>t, <1>c
<1>1. CASE Stop
  <2>1. UNCHANGED <<running, function, runs, calls, listVars, firing>>
    BY <1>1 DEF Stop, vars, listVars
  <2>2. QED
    BY <1>0, <1>c, <2>1, ListUntouched
<1>2. CASE Run
  <2>1. firing = NoTask /\ firing' = NoTask /\ running' = TRUE /\ Runner \notin Members
    BY <1>0, <1>2 DEF Run
  <2>2. ListInv' /\ Members' = Members \cup {Runner}
    BY <1>0, <1>2, <2>1, RunOnceInv DEF Run
  <2>3. Scheduled
    BY <1>0, <2>1, <2>2
  <2>4. ~ running /\ runs' = runs + 1 /\ function' = runs + 1 /\ calls' = calls
    BY <1>2 DEF Run
  <2>5. Counted
    BY <1>t, <2>1, <2>4
  <2>6. QED
    BY <2>3, <2>5
<1>3. CASE Slice
  <2>1. firing = Runner /\ firing' = NoTask
    BY <1>3 DEF Slice
  <2>2. running /\ Runner \notin Members
    BY <1>0, <2>1
  <2>3. CASE Goes
    <3>1. PICK d \in ProgramDelays \cup {0, WaitMs} : RunOnce(Runner, d)
      BY <2>3 DEF Goes
    <3>2. ListInv' /\ Members' = Members \cup {Runner}
      BY <1>0, <2>2, <3>1, RunOnceInv
    <3>3. UNCHANGED <<running, function, runs, calls>>
      BY <2>3 DEF Goes
    <3>4. Scheduled
      BY <1>0, <2>1, <2>2, <3>2, <3>3
    <3>5. QED
      BY <1>c, <3>3, <3>4
  <2>4. CASE Ends
    <3>1. ListInv' /\ Members' = Members
      BY <1>0, <2>4, ListUntouched DEF Ends, NotRun
    <3>2. running' = FALSE /\ UNCHANGED <<function, runs>>
      BY <2>4 DEF Ends
    <3>3. Scheduled
      BY <1>0, <2>1, <2>2, <3>1, <3>2
    <3>4. calls' = [calls EXCEPT ![runs] = calls[runs] + 1]
      BY <1>t, <2>4 DEF Ends
    <3>5. Counted
      BY <1>t, <2>2, <3>2, <3>4
    <3>6. QED
      BY <3>3, <3>5
  <2>5. QED
    BY <1>3, <2>2, <2>3, <2>4 DEF Slice
<1>4. CASE Beat
  <2>1. firing = Heart /\ firing' = NoTask /\ Heart \notin Members
    BY <1>0, <1>4 DEF Beat
  <2>2. PICK d \in Int : RunOnce(Heart, d)
    BY <1>4 DEF Beat
  <2>3. ListInv' /\ Members' = Members \cup {Heart}
    BY <1>0, <2>1, <2>2, RunOnceInv
  <2>4. UNCHANGED <<running, function, runs, calls>>
    BY <1>4 DEF Beat, appVars
  <2>5. Scheduled
    BY <1>0, <2>1, <2>3, <2>4
  <2>6. QED
    BY <1>c, <2>4, <2>5
<1>5. CASE Fire
  <2>1. PopHead /\ UNCHANGED <<running, function, runs, calls>>
    BY <1>5 DEF Fire, FireEvent, appVars
  <2>2. head \in Members /\ firing = NoTask /\ firing' = head
    BY <1>0, <2>1, ListTypes DEF PopHead
  <2>3. ListInv' /\ Members' = Members \ {head}
    BY <1>0, <2>1, PopHeadInv
  <2>4. Scheduled
    BY <1>0, <2>1, <2>2, <2>3
  <2>5. QED
    BY <1>c, <2>1, <2>4
<1>6. CASE AppTick
  <2>1. UNCHANGED <<running, function, runs, calls, listVars, firing>>
    BY <1>6 DEF AppTick, Tick, appVars
  <2>2. QED
    BY <1>0, <1>c, <2>1, ListUntouched
<1>7. CASE UNCHANGED allVars
  <2>1. UNCHANGED <<running, function, runs, calls, listVars, firing>>
    BY <1>7 DEF allVars, vars, listVars, appVars
  <2>2. QED
    BY <1>0, <1>c, <2>1, ListUntouched
<1>8. QED
  BY <1>1, <1>2, <1>3, <1>4, <1>5, <1>6, <1>7 DEF AppNext

LEMMA AppInvariance ==
  ASSUME ~ RunsTwice PROVE AppSpec => []AppInv
<1>1. AppInv /\ [AppNext]_allVars => AppInv'
  BY StepAppInv
<1>2. QED
  BY <1>1, AppInitInv, PTL DEF AppSpec

-----------------------------------------------------------------------------
(* A program that runs has a slice coming, and the task of one that does not is
   off the list, if "run" is not entered while a program runs. *)
THEOREM RunnerStaysScheduled ==
  ASSUME ~ RunsTwice PROVE AppSpec => []RunnerIsScheduled
<1>1. AppInv => RunnerIsScheduled
  BY DEF AppInv
<1>2. QED
  BY <1>1, AppInvariance, PTL

(* The callback of every run that is over has been called exactly once, and
   that of the one that goes on not yet. *)
THEOREM CallbackIsCalledOnce ==
  ASSUME ~ RunsTwice PROVE AppSpec => []OneCallbackPerRun
<1>1. AppInv => OneCallbackPerRun
  BY ApplicationConstantsOK DEF AppInv, AppTypeOK, OneCallbackPerRun
<1>2. QED
  BY <1>1, AppInvariance, PTL

(* The heartbeat is always on the list or executing. *)
THEOREM HeartbeatAlwaysGoesOn ==
  ASSUME ~ RunsTwice PROVE AppSpec => []HeartbeatGoesOn
<1>1. AppInv => HeartbeatGoesOn
  BY DEF AppInv
<1>2. QED
  BY <1>1, AppInvariance, PTL

-----------------------------------------------------------------------------
(* The application's list can be read off as a queue, too, and what its two tasks
   do to it is what a user of the queue may do. *)
AppQueueInv == AppInv /\ \E q : Orders(q, Members, head, next, fireAt)

LEMMA AppQueueInitial == AppInit => AppQueueInv
<1> SUFFICES ASSUME AppInit PROVE AppQueueInv
  OBVIOUS
<1>1. AppInv /\ head = Heart /\ Heart \in Task /\ NoTask \notin Task
  BY AppInitInv, DelaysAreNumbers DEF AppInit
<1>2. scheduled = {Heart} /\ next[Heart] = NoTask /\ fireAt[Heart] = Later(Clamp(UpMs))
  BY <1>1 DEF AppInit
<1>3. Members = {Heart}
  BY <1>1, <1>2 DEF AppInv, ListInv, NothingLost
<1>4. Later(Clamp(UpMs)) \in Int
  BY <1>1, DelaysAreNumbers, LaterType, ConstantsOK DEF AppInv, AppTypeOK
<1>5. IsFiniteSet(Members) /\ Cardinality(Members) = 1
  BY <1>3, FS_Singleton
<1> DEFINE q == [i \in 1 .. 1 |-> Heart]
<1>6. q \in [1 .. 1 -> Members] /\ \A i \in 1 .. 1 : i = 1 /\ q[i] = Heart
  BY <1>3
<1> HIDE DEF q
<1>7. Orders(q, Members, head, next, fireAt)
  BY <1>1, <1>2, <1>3, <1>4, <1>5, <1>6 DEF Orders
<1> QED BY <1>1, <1>7 DEF AppQueueInv

LEMMA AppQueueStep ==
  ASSUME ~ RunsTwice, AppQueueInv, [AppNext]_allVars
  PROVE  AppQueueInv' /\ [Queue!Next]_Queue!vars
<1> SUFFICES /\ \E r : Orders(r, Members', head', next', fireAt')
             /\ Queue!Next \/ UNCHANGED Queue!vars
  BY StepAppInv DEF AppQueueInv
<1> USE DelaysAreNumbers
<1>1. /\ AppInv /\ TypeOK /\ ListInv /\ TypeOK' /\ firing \notin Members
      /\ running <=> Runner \in Members \cup ({firing} \ {NoTask})
  BY StepAppInv DEF AppQueueInv, AppInv, AppTypeOK, RunnerIsScheduled
<1>2. PICK q : Orders(q, Members, head, next, fireAt)
  BY DEF AppQueueInv
<1>3. ASSUME UNCHANGED <<head, next, fireAt>>
      PROVE  /\ \E r : Orders(r, Members', head', next', fireAt')
             /\ InOrder(head', next') = InOrder(head, next)
  BY <1>2, <1>3 DEF Members
<1>4. ASSUME NEW t \in Task, NEW d \in Int, RunOnce(t, d), t \notin Members
      PROVE  Queue!Enqueue(t) /\ \E r : Orders(r, Members', head', next', fireAt')
  <2>1. RunTask(t, d)
    BY <1>4 DEF RunOnce
  <2> QED BY <1>1, <1>2, <1>4, <2>1, RunTaskEnqueues
<1>5. ASSUME NEW t \in Task, NEW d \in Int, RunOnce(t, d),
             firing = t, firing' = NoTask, now' = now
      PROVE  Queue!Next /\ \E r : Orders(r, Members', head', next', fireAt')
  <2>1. t \notin Members /\ t # NoTask
    BY <1>1, <1>5
  <2>2. Queue!Enqueue(t) /\ \E r : Orders(r, Members', head', next', fireAt')
    BY <1>4, <1>5, <2>1
  <2>3. Queue!End
    BY <1>5, <2>1, <2>2 DEF Queue!End
  <2> QED BY <2>2, <2>3 DEF Queue!Next
<1>6. ASSUME NotRun, firing # NoTask, firing' = NoTask, now' = now
      PROVE  Queue!Next /\ \E r : Orders(r, Members', head', next', fireAt')
  <2>1. UNCHANGED <<head, next, fireAt>>
    BY <1>6 DEF NotRun, listVars
  <2>2. /\ \E r : Orders(r, Members', head', next', fireAt')
        /\ InOrder(head', next') = InOrder(head, next)
    BY <1>3, <2>1
  <2>3. Queue!End
    BY <1>6, <2>1, <2>2 DEF Queue!End
  <2> QED BY <2>2, <2>3 DEF Queue!Next
<1>7. CASE Stop \/ UNCHANGED allVars
  <2>1. UNCHANGED <<head, next, fireAt>> /\ firing' = firing /\ now' = now
    BY <1>7 DEF Stop, allVars, vars
  <2>2. /\ \E r : Orders(r, Members', head', next', fireAt')
        /\ InOrder(head', next') = InOrder(head, next)
    BY <1>3, <2>1
  <2> QED BY <2>1, <2>2 DEF Queue!vars
<1>8. CASE Run
  <2>1. RunOnce(Runner, 0) /\ Runner \notin Members /\ firing' = firing /\ now' = now
    BY <1>1, <1>8 DEF Run
  <2>2. Queue!Enqueue(Runner) /\ \E r : Orders(r, Members', head', next', fireAt')
    BY <1>4, <2>1
  <2>3. Queue!Request(Runner)
    BY <2>1, <2>2 DEF Queue!Request
  <2> QED BY <2>2, <2>3 DEF Queue!Next
<1>9. CASE Slice
  <2>1. firing = Runner /\ firing' = NoTask /\ now' = now /\ Runner # NoTask
    BY <1>9 DEF Slice
  <2>2. CASE running /\ Goes
    <3>1. PICK d \in ProgramDelays \cup {0, WaitMs} : RunOnce(Runner, d)
      BY <2>2 DEF Goes
    <3> QED BY <1>5, <2>1, <3>1
  <2>3. CASE ~ (running /\ Goes)
    <3>1. NotRun
      BY <1>9, <2>3 DEF Slice, Ends
    <3> QED BY <1>6, <2>1, <3>1
  <2> QED BY <2>2, <2>3
<1>10. CASE Beat
  <2>1. PICK d \in Int : RunOnce(Heart, d)
    BY <1>10 DEF Beat
  <2> QED BY <1>5, <1>10, <2>1 DEF Beat
<1>11. CASE Fire
  <2>1. Queue!Start /\ \E r : Orders(r, Members', head', next', fireAt')
    BY <1>1, <1>2, <1>11, FireStarts DEF Fire
  <2> QED BY <2>1 DEF Queue!Next
<1>12. CASE AppTick
  <2>1. UNCHANGED <<head, next, fireAt>> /\ firing' = firing /\ now' = now + 1
    BY <1>12 DEF AppTick, Tick, listVars
  <2>2. /\ \E r : Orders(r, Members', head', next', fireAt')
        /\ InOrder(head', next') = InOrder(head, next)
    BY <1>3, <2>1
  <2>3. Queue!Tick
    BY <2>1, <2>2 DEF Queue!Tick
  <2> QED BY <2>2, <2>3 DEF Queue!Next
<1> QED BY <1>7, <1>8, <1>9, <1>10, <1>11, <1>12 DEF AppNext

(* Whatever programs ask for, the run task and the heartbeat go through the list
   as through TimerQueue: each is in it once, and they start in due order, if "run"
   is not entered while a program runs. *)
THEOREM AppKeepsToTimerQueue ==
  ASSUME ~ RunsTwice PROVE AppSpec => [][Queue!Next]_Queue!vars
<1>1. AppQueueInv /\ [AppNext]_allVars => AppQueueInv' /\ [Queue!Next]_Queue!vars
  BY AppQueueStep
<1> QED BY <1>1, AppQueueInitial, PTL DEF AppSpec

=============================================================================

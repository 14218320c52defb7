--------------------------- MODULE EspTaskManager ---------------------------
(***************************************************************************)
(* The event loop of the ESP8266 build, on top of the SDK's system task    *)
(* and timer.  (src/esp/core/EspTaskManager.cpp, and the list operations   *)
(* of src/m8rscript/TaskManager.cpp)                                       *)
(*                                                                         *)
(* The SDK runs one callback at a time, each to its end: while a task of   *)
(* the list executes, nothing else runs but the clock.  Outside of it any  *)
(* callback (a socket, a file system, a startup timer) may put a task on   *)
(* the list or take one off.  The SDK's part is external: a post queue of  *)
(* one entry, which drops a post when it is full, and a one-shot timer,    *)
(* which is moved when it is armed again.                                  *)
(***************************************************************************)
EXTENDS TaskManager

CONSTANTS
  Repeaters,  \* the tasks that are run with runRepeating
  Slop        \* a task due within this is fired at once (5 in the code)

ASSUME EspConstantsOK == Repeaters \subseteq Task /\ Slop \in Nat

VARIABLES
  posted,  \* an event for executionTask is queued
  timer    \* when _executionTimer goes off (-1: it is not armed)

sdkVars == <<posted, timer>>
espVars == <<vars, sdkVars>>

Off == -1

-----------------------------------------------------------------------------
(* postEvent: if the queue is full there is an event on its way already. *)
PostEvent == posted' = TRUE

(* Faulty variant of PostIfFirst: a new head is trusted to the timer that is
   armed, if one is. *)
PostIfUnarmed(t, d) ==
  IF GoesFirst(t, Later(Clamp(d))) THEN posted' = (posted \/ timer = Off)
                                   ELSE posted' = posted

(* What runTask's two ways to end leave posted: prepareForNextEvent for a new
   head (it is on the list, so there is one), else nothing. *)
PostIfFirst(t, d) ==
  IF GoesFirst(t, Later(Clamp(d))) THEN PostEvent ELSE posted' = posted

(* Task::runOnce and runRepeating, from a callback or from the task that is
   executing. *)
RunFromCallback(t, d) ==
  /\ Schedule(t, d, t \in Repeaters /\ t # firing)
  /\ PostIfFirst(t, d)
  /\ timer' = timer

(* Task::remove and ~Task; the object that executes is not deleted. *)
RemoveFromCallback(t) ==
  /\ t # firing
  /\ RemoveTask(t)
  /\ UNCHANGED sdkVars

NextTimeToFire == IF head = NoTask THEN 0 ELSE fireAt[head]

(* executionTask with nothing to do *)
NothingToDo ==
  /\ posted /\ firing = NoTask
  /\ head = NoTask
  /\ posted' = FALSE
  /\ UNCHANGED <<vars, timer>>

(* executionTask fires the head: fireEvent up to task->execute(). *)
FireHead ==
  /\ posted
  /\ NextTimeToFire - now <= Slop
  /\ FireEvent
  /\ posted' = FALSE
  /\ timer' = timer

(* executionTask arms the timer for the head. *)
ArmTimer ==
  /\ posted /\ firing = NoTask
  /\ head # NoTask
  /\ NextTimeToFire - now > Slop
  /\ posted' = FALSE
  /\ timer' = Later(NextTimeToFire - now)
  /\ UNCHANGED vars

(* Faulty variant of EndOfFire: the next event is not prepared for. *)
EndWithoutPost ==
  /\ EndFire
  /\ UNCHANGED sdkVars

(* fireEvent after task->execute(): runTask posts for a repeating task that
   becomes the head, and prepareForNextEvent for what is on the list
   otherwise. *)
EndOfFire ==
  /\ EndFire
  /\ IF repeating[firing]
     THEN PostIfFirst(firing, msSet[firing])
     ELSE posted' = (posted \/ head # NoTask)
  /\ timer' = timer

(* executionTimerTick *)
TimerTick ==
  /\ timer # Off /\ now >= timer
  /\ firing = NoTask
  /\ timer' = Off
  /\ PostEvent
  /\ UNCHANGED vars

EspTick == Tick /\ UNCHANGED sdkVars

-----------------------------------------------------------------------------
EspInit == Init /\ posted = FALSE /\ timer = Off

ExecutionTask == NothingToDo \/ FireHead \/ ArmTimer

Callbacks ==
  \E t \in Task :
    RemoveFromCallback(t) \/ \E d \in Delays : RunFromCallback(t, d)

EspNext == ExecutionTask \/ EndOfFire \/ TimerTick \/ Callbacks \/ EspTick

(* The SDK runs the task it has an event for and the timers that are due, a
   task that executes returns, and the clock goes on. *)
EspFairness ==
  /\ WF_espVars(ExecutionTask)
  /\ WF_espVars(EndOfFire)
  /\ WF_espVars(TimerTick)
  /\ WF_espVars(EspTick)

EspSpec == EspInit /\ [][EspNext]_espVars
FairEspSpec == EspSpec /\ EspFairness

-----------------------------------------------------------------------------
EspTypeOK ==
  /\ TypeOK
  /\ posted \in BOOLEAN
  /\ timer \in {Off} \cup 0 .. MaxTime

(* "Assume an event is already scheduled" (runTask): between callbacks, a
   list that is not empty has an event queued, or a timer armed that goes off
   no later than its head is due. *)
NeverStranded ==
  head # NoTask /\ firing = NoTask =>
    posted \/ (timer # Off /\ timer <= fireAt[head])

(* Every task on the list starts, or is taken off. *)
EveryTaskStarts == \A t \in Task : t \in Members ~> firing = t \/ t \notin Members

=============================================================================

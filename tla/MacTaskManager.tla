--------------------------- MODULE MacTaskManager ---------------------------
(***************************************************************************)
(* The event loop of the Mac build: one event thread fires the tasks, any  *)
(* other thread puts tasks on the list.                                    *)
(* (src/mac/MacTaskManager.cpp, on top of src/m8rscript/TaskManager.cpp)   *)
(*                                                                         *)
(* The two meet in the list, which no lock protects, and in a condition    *)
(* variable, whose mutex is held for postEvent, for the check of line 50   *)
(* and at both waits, but not from one of them to the next.  The steps of  *)
(* the event thread are cut where another thread can come between, and a   *)
(* runTask of another thread where the event thread can: between finding   *)
(* the place of a task and linking it there.  The history variable         *)
(* overtaken tells whether it ever did so to any effect.                   *)
(*                                                                         *)
(* Left out: the destructor, which nothing calls, and Task::remove, which  *)
(* only the teardown of an application calls here (TaskManager and         *)
(* EspTaskManager have it).                                                *)
(***************************************************************************)
EXTENDS TaskManager

CONSTANTS
  Repeaters,  \* the tasks that are run with runRepeating
  Spurious    \* TRUE: the untimed wait, too, may end for no reason

ASSUME LoopConstantsOK ==
  Repeaters \subseteq Task /\ Spurious \in BOOLEAN

VARIABLES
  pc,        \* where the event thread is
  loopNow,   \* its local now (line 47)
  gap,       \* its local timeToNextEvent (line 58)
  deadline,  \* when the timed wait of line 65 ends
  caller,    \* the other thread: what it is in the middle of
  overtaken  \* history: the event thread has changed the list at the very
             \* place that the other thread was about to link a task to

loopVars == <<pc, loopNow, gap, deadline>>
macVars == <<vars, loopVars, caller, overtaken>>

(* Between two calls; about to link a task behind prev, or first if there is
   no prev; and about to post the event. *)
Idle == [step |-> "idle"]
Posting == [step |-> "post"]
Linking ==
  [step : {"link"}, task : Task, prev : Task \cup {NoTask}, last : BOOLEAN]

(* The pointer that the other thread is about to change, _head or the _next of
   prev, is as it was when it looked. *)
PlaceKept ==
  caller.step = "link" =>
    IF caller.prev = NoTask THEN head' = head
    ELSE next'[caller.prev] = next[caller.prev]

-----------------------------------------------------------------------------
(* Line 47 *)
ReadClock ==
  /\ pc = "top"
  /\ loopNow' = now
  /\ pc' = "check"
  /\ UNCHANGED <<vars, gap, deadline, caller, overtaken>>

(* Faulty variant of CheckEmpty: an empty list is not waited for. *)
CheckNothing ==
  /\ pc = "check"
  /\ pc' = "decide"
  /\ UNCHANGED <<vars, loopNow, gap, deadline, caller, overtaken>>

(* Lines 49-56, the mutex held.  After the wait the list is not looked at
   again. *)
CheckEmpty ==
  /\ pc = "check"
  /\ pc' = IF head = NoTask THEN "wait" ELSE "decide"
  /\ UNCHANGED <<vars, loopNow, gap, deadline, caller, overtaken>>

NextTimeToFire == IF head = NoTask THEN 0 ELSE fireAt[head]

(* Faulty variant of Decide: what is overdue is slept for, too. *)
DecideToSleep ==
  /\ pc = "decide"
  /\ pc' = "gap"
  /\ gap' = NextTimeToFire - loopNow
  /\ UNCHANGED <<vars, loopNow, deadline, caller, overtaken>>

(* Lines 58-59 *)
Decide ==
  /\ pc = "decide"
  /\ IF NextTimeToFire <= loopNow
     THEN pc' = "fire" /\ gap' = 0
     ELSE pc' = "gap" /\ gap' = NextTimeToFire - loopNow
  /\ UNCHANGED <<vars, loopNow, deadline, caller, overtaken>>

(* Line 65, into the wait: it is the time left that was worked out, so the
   wait starts to count here. *)
Sleep ==
  /\ pc = "gap"
  /\ pc' = "sleep"
  /\ deadline' = Later(gap)
  /\ gap' = 0
  /\ UNCHANGED <<vars, loopNow, caller, overtaken>>

(* Faulty variant of TimeOut: any end of the wait is taken for a timeout. *)
AnyWakeup ==
  /\ pc = "sleep"
  /\ pc' = "fire"
  /\ deadline' = 0
  /\ UNCHANGED <<vars, loopNow, gap, caller, overtaken>>

(* Line 65, out of the wait with status timeout *)
TimeOut ==
  /\ pc = "sleep"
  /\ now >= deadline
  /\ pc' = "fire"
  /\ deadline' = 0
  /\ UNCHANGED <<vars, loopNow, gap, caller, overtaken>>

(* A wait on a condition variable may end for no reason.  The timed one goes
   on at the top; the other has no loop around it that looks again. *)
WakeUp ==
  /\ pc \in {"sleep"} \cup (IF Spurious THEN {"wait"} ELSE {})
  /\ pc' = IF pc = "sleep" THEN "top" ELSE "decide"
  /\ deadline' = 0
  /\ UNCHANGED <<vars, loopNow, gap, caller, overtaken>>

(* Lines 60 and 71: fireEvent up to task->execute().  Its assert(_head) is
   the property FiresATask. *)
Fire ==
  /\ pc = "fire"
  /\ PopHead
  /\ overtaken' = (overtaken \/ (caller.step = "link" /\ caller.prev = head))
  /\ pc' = "run"
  /\ UNCHANGED <<repeating, now, loopNow, gap, deadline, caller>>

(* task->execute() runs itself or another task.  Its post finds nobody
   waiting: the one thread that waits is this one. *)
RunFromTask(t, d) ==
  /\ pc = "run"
  /\ caller.step = "link" => caller.task # t
  /\ Schedule(t, d, t \in Repeaters /\ t # firing)
  /\ overtaken' = (overtaken \/ ~ PlaceKept)
  /\ UNCHANGED <<loopVars, caller>>

(* fireEvent after task->execute(); its post finds nobody waiting either. *)
EndOfFire ==
  /\ pc = "run"
  /\ EndFire
  /\ overtaken' = (overtaken \/ ~ PlaceKept)
  /\ pc' = "top"
  /\ UNCHANGED <<loopNow, gap, deadline, caller>>

-----------------------------------------------------------------------------
(* Another thread calls runTask: it fills in the task and finds its place. *)
FindPlace(t, d) ==
  /\ caller = Idle
  /\ MayRun(t, t \in Repeaters)
  /\ t # firing
  /\ repeating' = [repeating EXCEPT ![t] = t \in Repeaters]
  /\ msSet' = [msSet EXCEPT ![t] = Clamp(d)]
  /\ fireAt' = [fireAt EXCEPT ![t] = Later(Clamp(d))]
  /\ next' = [next EXCEPT ![t] = NoTask]
  /\ \E p \in IF GoesFirst(t, Later(Clamp(d)))
              THEN {NoTask} ELSE StopsAt(t, Later(Clamp(d))) :
       caller' = [step |-> "link", task |-> t, prev |-> p,
                  last |-> NoTask = IF p = NoTask THEN head ELSE next[p]]
  /\ UNCHANGED <<head, firing, now, scheduled, loopVars, overtaken>>

(* Faulty variants of LinkInPlace: the rest of the list is dropped behind a
   new head; a new head is not posted. *)
LinkWithoutRest ==
  /\ caller.step = "link"
  /\ scheduled' = scheduled \cup {caller.task}
  /\ IF caller.prev = NoTask
     THEN head' = caller.task /\ next' = next /\ caller' = Posting
     ELSE /\ next' = [next EXCEPT ![caller.task] = next[caller.prev],
                                  ![caller.prev] = caller.task]
          /\ caller' = Idle
          /\ head' = head
  /\ UNCHANGED <<fireAt, msSet, repeating, firing, now, loopVars, overtaken>>

LinkWithoutPost ==
  /\ caller.step = "link"
  /\ scheduled' = scheduled \cup {caller.task}
  /\ IF caller.prev = NoTask
     THEN head' = caller.task /\ next' = [next EXCEPT ![caller.task] = head]
     ELSE /\ next' = [next EXCEPT ![caller.task] = next[caller.prev],
                                  ![caller.prev] = caller.task]
          /\ head' = head
  /\ caller' = Idle
  /\ UNCHANGED <<fireAt, msSet, repeating, firing, now, loopVars, overtaken>>

(* runTask links it there.  A new head is posted: Posting. *)
LinkInPlace ==
  /\ caller.step = "link"
  /\ LET t == caller.task
         p == caller.prev
     IN /\ scheduled' = scheduled \cup {t}
        /\ IF p = NoTask
           THEN /\ head' = t
                /\ next' = [next EXCEPT ![t] = IF caller.last THEN NoTask ELSE head]
                /\ caller' = Posting
           ELSE /\ head' = head
                /\ next' = [next EXCEPT ![t] = IF caller.last THEN NoTask
                                               ELSE next[p],
                                        ![p] = t]
                /\ caller' = Idle
  /\ UNCHANGED <<fireAt, msSet, repeating, firing, now, loopVars, overtaken>>

(* prepareForNextEvent and postEvent: the thread is notified if it waits.  (A
   timed wait that is over by then may report a timeout instead: TimeOut.) *)
Post ==
  /\ caller = Posting
  /\ caller' = Idle
  /\ \/ /\ head # NoTask /\ pc = "wait"
        /\ pc' = "decide"
        /\ UNCHANGED deadline
     \/ /\ head # NoTask /\ pc = "sleep"
        /\ pc' = "top"
        /\ deadline' = 0
     \/ /\ head = NoTask \/ pc \notin {"wait", "sleep"}
        /\ UNCHANGED <<pc, deadline>>
  /\ UNCHANGED <<vars, loopNow, gap, overtaken>>

MacTick == Tick /\ UNCHANGED <<loopVars, caller, overtaken>>

-----------------------------------------------------------------------------
MacInit ==
  /\ Init
  /\ pc = "top"
  /\ loopNow = 0
  /\ gap = 0
  /\ deadline = 0
  /\ caller = Idle
  /\ overtaken = FALSE

RunTasks == \E t \in Task, d \in Delays : RunFromTask(t, d)

Loop ==
  \/ ReadClock \/ CheckEmpty \/ Decide \/ Sleep \/ TimeOut \/ Fire \/ EndOfFire

Calls == \E t \in Task, d \in Delays : FindPlace(t, d)

MacNext == Loop \/ WakeUp \/ RunTasks \/ Calls \/ LinkInPlace \/ Post \/ MacTick

(* Both threads get to run, a task that executes returns, a runTask that was
   called returns, and the clock goes on. *)
MacFairness ==
  /\ WF_macVars(Loop)
  /\ WF_macVars(LinkInPlace)
  /\ WF_macVars(Post)
  /\ WF_macVars(MacTick)

MacSpec == MacInit /\ [][MacNext]_macVars
FairMacSpec == MacSpec /\ MacFairness

-----------------------------------------------------------------------------
MacTypeOK ==
  /\ TypeOK
  /\ pc \in {"top", "check", "wait", "decide", "gap", "sleep", "fire", "run"}
  /\ loopNow \in 0 .. MaxTime
  /\ gap \in 0 .. MaxTime
  /\ deadline \in 0 .. MaxTime
  /\ caller \in {Idle, Posting} \cup Linking
  /\ overtaken \in BOOLEAN

(* fireEvent's assert(_head): neither the check that the first wait skips nor
   the one that the timed wait does not make lets the thread go and fire a
   task when there is none. *)
FiresATask == pc = "fire" => head # NoTask

(* The thread never waits without a limit while a task is on the list, but
   for the moment between the linking of the task and the post. *)
NeverStranded == pc = "wait" => head = NoTask \/ caller = Posting

(* No task is lost or brought back, until the event thread has changed the
   list at the place where another thread was about to link a task: what the
   two do to other parts of the list at the same time does no harm. *)
LostOnlyIfOvertaken == ~ overtaken => NothingLost

(* No task starts before its time, stale as the loop's clock may be, whatever
   became the head during the wait and whatever the event thread does to other
   parts of the list while a task is linked. *)
NeverEarly == [][Fire /\ ~ overtaken => now >= fireAt[head]]_macVars

(* Every task on the list starts, if nothing takes it off before and no place
   on the list is overtaken. *)
EveryTaskStarts == \A t \in Task : t \in Members ~> firing = t \/ overtaken

(* "Post an event now.  When event occurs, call fireEvent" (TaskManager.h):
   once a call of runTask is over, the loop does not go on to sleep past the
   moment the head is due. *)
NeverOversleeps ==
  pc = "sleep" /\ caller = Idle /\ head # NoTask =>
    deadline <= fireAt[head] \/ deadline <= now

=============================================================================

---------------------------- MODULE TaskManager ----------------------------
(***************************************************************************)
(* The timed task list every platform's event loop runs on.                *)
(* (src/m8rscript/TaskManager.h, src/m8rscript/TaskManager.cpp)            *)
(*                                                                         *)
(* Tasks are linked through their own _next field, in the order in which   *)
(* they are to fire.  The list is modelled as the code has it: a head and  *)
(* one successor per task, so that a wrong insertion can lose a task or    *)
(* tie a knot.  A loop over the list is the least set of tasks closed      *)
(* under its step (Reach), which is exact for a list with a knot, too.     *)
(*                                                                         *)
(* Here a task fires whenever the environment wants it to; when it fires   *)
(* is the business of the platform loops (MacTaskManager, EspTaskManager), *)
(* which reuse the list operations below.                                  *)
(***************************************************************************)
EXTENDS Integers

CONSTANTS
  Task,      \* the Task objects
  NoTask,    \* the null Task pointer
  Delays,    \* the delays callers ask for, in ms
  MinDelay,  \* a delay shorter than this is none (5 in the code)
  MaxDelay,  \* a longer delay is cut to this (6000000 in the code)
  MaxTime    \* bound: instants from MaxTime on are not told apart

ASSUME ConstantsOK ==
  /\ NoTask \notin Task
  /\ Delays \subseteq Int
  /\ MinDelay \in Nat
  /\ MaxDelay \in Nat
  /\ MinDelay <= MaxDelay
  /\ MaxTime \in Nat

VARIABLES
  head,       \* _head
  next,       \* _next of every task
  fireAt,     \* _msTimeToFire of every task (-1: never set)
  msSet,      \* _msSet of every task
  repeating,  \* _repeating of every task
  firing,     \* the task fireEvent has taken off the list and is executing
  now,        \* what msNow() returns
  scheduled   \* history: tasks run and since then neither fired nor removed

listVars == <<head, next, fireAt, msSet, scheduled>>
vars == <<head, next, fireAt, msSet, repeating, firing, now, scheduled>>

-----------------------------------------------------------------------------
(* What a loop "for (t = h; t; t = succ[t])" visits: the least set of tasks
   that holds h and is closed under succ. *)
Reach(h, succ) ==
  {t \in Task : \A S \in SUBSET Task :
     /\ h # NoTask => h \in S
     /\ \A u \in S : succ[u] # NoTask => succ[u] \in S
     => t \in S}

Members == Reach(head, next)

(* Faulty variant of Clamp: a long delay is not cut. *)
ClampUncut(delay) == IF delay < MinDelay THEN 0 ELSE delay

(* The delay runTask really uses, and the instant it leads to. *)
Clamp(delay) ==
  IF delay > MaxDelay THEN MaxDelay ELSE IF delay < MinDelay THEN 0 ELSE delay

Later(d) == IF now + d > MaxTime THEN MaxTime ELSE now + d

-----------------------------------------------------------------------------
(* Faulty variants of GoesFirst: the head's time is not looked at; a task goes
   before those with its own time. *)
GoesFirstIfEmpty(t, at) == head = NoTask

GoesBeforeEquals(t, at) ==
  IF head = NoTask THEN TRUE ELSE head # t /\ at <= fireAt[head]

(* runTask's loop.  It stops in front of the first task that fires later
   than the new one (the new one has its new time and no successor by then),
   or behind the last task. *)
GoesFirst(t, at) ==
  IF head = NoTask THEN TRUE ELSE head # t /\ at < fireAt[head]

Steps(t, at) ==
  [u \in Task |->
     IF u = t \/ next[u] = NoTask THEN NoTask
     ELSE IF next[u] # t /\ at < fireAt[next[u]] THEN NoTask ELSE next[u]]

StopsAt(t, at) == {p \in Reach(head, Steps(t, at)) : Steps(t, at)[p] = NoTask}

Stamp(t, delay) ==
  /\ msSet' = [msSet EXCEPT ![t] = Clamp(delay)]
  /\ fireAt' = [fireAt EXCEPT ![t] = Later(Clamp(delay))]
  /\ scheduled' = scheduled \cup {t}

(* Faulty variant of LinkFirst: the old list is not linked to the new head. *)
LinkFirstAlone(t, delay) ==
  /\ GoesFirst(t, Later(Clamp(delay)))
  /\ head' = t
  /\ next' = [next EXCEPT ![t] = NoTask]
  /\ Stamp(t, delay)

(* runTask puts t in front of the list: the branches that go on to
   prepareForNextEvent. *)
LinkFirst(t, delay) ==
  /\ GoesFirst(t, Later(Clamp(delay)))
  /\ head' = t
  /\ next' = [next EXCEPT ![t] = head]
  /\ Stamp(t, delay)

(* Faulty variant of LinkBehind: the two assignments are swapped. *)
LinkBehindSwapped(t, delay) ==
  /\ ~ GoesFirst(t, Later(Clamp(delay)))
  /\ \E p \in StopsAt(t, Later(Clamp(delay))) :
       next' = [next EXCEPT ![p] = t, ![t] = t]
  /\ head' = head
  /\ Stamp(t, delay)

(* runTask puts t behind another task and returns: "assume an event is
   already scheduled". *)
LinkBehind(t, delay) ==
  /\ ~ GoesFirst(t, Later(Clamp(delay)))
  /\ \E p \in StopsAt(t, Later(Clamp(delay))) :
       next' = [next EXCEPT ![t] = next[p], ![p] = t]
  /\ head' = head
  /\ Stamp(t, delay)

RunTask(t, delay) == LinkFirst(t, delay) \/ LinkBehind(t, delay)

(* removeTask: a task that is not on the list is no error. *)
Unlink(t) ==
  /\ scheduled' = scheduled \ {t}
  /\ UNCHANGED <<fireAt, msSet>>
  /\ \/ /\ t \notin Members
        /\ UNCHANGED <<head, next>>
     \/ /\ t \in Members /\ t = head
        /\ head' = next[t]
        /\ next' = next
     \/ /\ t \in Members /\ t # head
        /\ \E p \in Members : /\ next[p] = t
                              /\ next' = [next EXCEPT ![p] = next[t]]
        /\ head' = head

(* Faulty variant of PopHead: the task is taken off after it has executed. *)
PopHeadLater ==
  /\ head # NoTask
  /\ firing = NoTask
  /\ firing' = head
  /\ UNCHANGED listVars

(* fireEvent up to task->execute() *)
PopHead ==
  /\ head # NoTask
  /\ firing = NoTask
  /\ firing' = head
  /\ head' = next[head]
  /\ next' = [next EXCEPT ![head] = NoTask]
  /\ scheduled' = scheduled \ {head}
  /\ UNCHANGED <<fireAt, msSet>>

-----------------------------------------------------------------------------
(* The callers' side of the contract: nothing in runTask looks whether the
   task is on the list already, so its callers must not run a task that is.
   A task that executes is off the list and may run itself again, but not as
   a repeating one, for fireEvent is going to put it back in that case. *)
MayRun(t, rep) == t \notin Members /\ (t = firing => ~ rep)

(* Task::runOnce and Task::runRepeating *)
Schedule(t, delay, rep) ==
  /\ MayRun(t, rep)
  /\ repeating' = [repeating EXCEPT ![t] = rep]
  /\ RunTask(t, delay)
  /\ UNCHANGED <<firing, now>>

(* Task::remove and ~Task *)
RemoveTask(t) ==
  /\ Unlink(t)
  /\ UNCHANGED <<repeating, firing, now>>

FireEvent == PopHead /\ UNCHANGED <<repeating, now>>

(* fireEvent after task->execute() *)
EndFire ==
  /\ firing # NoTask
  /\ firing' = NoTask
  /\ IF repeating[firing] THEN RunTask(firing, msSet[firing])
                          ELSE UNCHANGED listVars
  /\ UNCHANGED <<repeating, now>>

Tick ==
  /\ now < MaxTime
  /\ now' = now + 1
  /\ UNCHANGED <<listVars, repeating, firing>>

Init ==
  /\ head = NoTask
  /\ next = [t \in Task |-> NoTask]
  /\ fireAt = [t \in Task |-> -1]
  /\ msSet = [t \in Task |-> 0]
  /\ repeating = [t \in Task |-> FALSE]
  /\ firing = NoTask
  /\ now = 0
  /\ scheduled = {}

Next ==
  \/ \E t \in Task, d \in Delays, rep \in BOOLEAN : Schedule(t, d, rep)
  \/ \E t \in Task : RemoveTask(t)
  \/ FireEvent
  \/ EndFire
  \/ Tick

Spec == Init /\ [][Next]_vars

-----------------------------------------------------------------------------
TypeOK ==
  /\ head \in Task \cup {NoTask}
  /\ next \in [Task -> Task \cup {NoTask}]
  /\ fireAt \in [Task -> -1 .. MaxTime]
  /\ msSet \in [Task -> 0 .. MaxDelay]
  /\ repeating \in [Task -> BOOLEAN]
  /\ firing \in Task \cup {NoTask}
  /\ now \in 0 .. MaxTime
  /\ scheduled \in SUBSET Task

(* The links form one path that ends: nothing points back at the head, and
   no task is the successor of two.  (A task reached from the head that met
   neither condition would close a loop runTask and removeTask spin in.) *)
ListIsPath ==
  /\ \A t \in Members : next[t] # NoTask => next[t] # head
  /\ \A t, u \in Members : next[t] = next[u] /\ next[t] # NoTask => t = u

(* The list is in firing order, which is what lets a loop look at its head
   alone. *)
ListIsSorted ==
  \A t \in Members : next[t] # NoTask => fireAt[t] <= fireAt[next[t]]

(* No operation drops, or brings back, a task other than its own: what was
   run and neither fired nor removed is on the list, and nothing else is. *)
NothingLost == Members = scheduled

(* A task that fireEvent is going to put back is not on the list yet. *)
RepeaterOffList ==
  firing # NoTask /\ repeating[firing] => firing \notin Members

=============================================================================

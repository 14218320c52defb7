---------------------------- MODULE Application ----------------------------
(***************************************************************************)
(* The application's two tasks: the one that runs the program in slices,   *)
(* with the run and stop commands that control it, and the heartbeat.      *)
(* (src/m8rscript/Application.h and .cpp, "run" and "stop" of Shell.cpp,   *)
(* and what continueExecution of ExecutionUnit.cpp may return)             *)
(*                                                                         *)
(* A callback (a shell command) and the execution of a task come one after *)
(* the other, as on the ESP8266.  The module uses the list of TaskManager, *)
(* where a task fires at any time, but not the calls of that module: what  *)
(* those must not do, run a task that is on the list, is what is in        *)
(* question here.                                                          *)
(***************************************************************************)
EXTENDS TaskManager

CONSTANTS
  Runner, Heart,   \* _runTask and _heartbeatTask
  ProgramDelays,   \* the delays programs ask for
  WaitMs,          \* the runner's delay while it waits for an event (50)
  DownMs, UpMs,    \* the heartbeat's two delays (50 and 2950)
  RunsTwice,       \* TRUE: "run" is also entered while a program runs
  MaxRuns          \* bound: how often a program is run

ASSUME ApplicationConstantsOK ==
  /\ Task = {Runner, Heart} /\ Runner # Heart
  /\ ProgramDelays \subseteq Nat
  /\ {WaitMs, DownMs, UpMs} \subseteq Nat
  /\ RunsTwice \in BOOLEAN
  /\ MaxRuns \in Nat

VARIABLES
  running,    \* MyRunTask::_running
  terminate,  \* _terminate of the execution unit
  looks,      \* the program's next slice comes to a test of _terminate: it has
              \* 16 instructions or more, or comes to a return or to its end
  function,   \* MyRunTask::_function: the run whose callback it is
  upbeat,     \* MyHeartbeatTask::_upbeat
  runs,       \* history: the number of runs
  calls       \* history: how often the callback of each run was called

appVars == <<running, terminate, looks, function, runs, calls>>
allVars == <<vars, appVars, upbeat>>

(* A call of runOnce. *)
RunOnce(t, d) ==
  /\ repeating' = [repeating EXCEPT ![t] = FALSE]
  /\ RunTask(t, d)

NotRun == UNCHANGED <<listVars, repeating>>

-----------------------------------------------------------------------------
(* The command "stop", and a "run" whose file does not load: Application::
   load has stopped the program that runs by then. *)
Stop ==
  /\ firing = NoTask
  /\ running
  /\ terminate' = TRUE
  /\ UNCHANGED <<vars, running, looks, function, runs, calls, upbeat>>

(* Faulty variant of Run: a stopped program may be run again before it has
   noticed. *)
RunAfterStop ==
  /\ firing = NoTask
  /\ runs < MaxRuns
  /\ ~ running \/ terminate
  /\ runs' = runs + 1
  /\ function' = runs + 1
  /\ running' = TRUE
  /\ terminate' = FALSE
  /\ looks' \in BOOLEAN
  /\ RunOnce(Runner, 0)
  /\ UNCHANGED <<firing, now, calls, upbeat>>

(* The command "run", and the run of the main program at startup: load, which
   stops the program that runs; startExecution, which clears the stop; and
   runOnce, whether the task is on the list or not. *)
Run ==
  /\ firing = NoTask
  /\ runs < MaxRuns
  /\ RunsTwice \/ ~ running
  /\ runs' = runs + 1
  /\ function' = runs + 1
  /\ running' = TRUE
  /\ terminate' = FALSE
  /\ looks' \in BOOLEAN
  /\ RunOnce(Runner, 0)
  /\ UNCHANGED <<firing, now, calls, upbeat>>

(* Faulty variant of Goes: a program that waits for an event is left to the
   event to run it again. *)
GoesUnlessWaiting ==
  /\ running
  /\ ~ terminate
  /\ \/ \E d \in ProgramDelays \cup {0} : RunOnce(Runner, d)
     \/ NotRun
  /\ UNCHANGED appVars

(* Faulty variant of Goes: the stop is looked for where a slice ends by
   itself, and not between its instructions. *)
GoesWhileDelaying ==
  /\ running
  /\ \/ \E d \in ProgramDelays : RunOnce(Runner, d)
     \/ ~ terminate /\ looks /\ \E d \in {0, WaitMs} : RunOnce(Runner, d)
  /\ looks' \in BOOLEAN
  /\ UNCHANGED <<running, terminate, function, runs, calls>>

(* continueExecution returns a delay, or, behind a test of _terminate, a yield
   (0) or the wait for an event. The instructions are counted anew in each
   slice, so one that asks for a delay early does not see that it is stopped.
   Ten errors are a stop, too, which a delay may follow at once. *)
Goes ==
  /\ running
  /\ \/ \E d \in ProgramDelays :
          /\ ~ (terminate /\ looks)
          /\ RunOnce(Runner, d)
          /\ terminate' \in {terminate, TRUE}
     \/ \E d \in {0, WaitMs} :
          /\ looks /\ ~ terminate
          /\ RunOnce(Runner, d)
          /\ terminate' = terminate
  /\ looks' \in BOOLEAN
  /\ UNCHANGED <<running, function, runs, calls>>

(* Faulty variant of Ends: the stop is taken for the end. *)
EndsOnceMore ==
  /\ running
  /\ calls' = [calls EXCEPT ![function] = @ + 1]
  /\ running' = ~ terminate
  /\ terminate' \in {terminate, TRUE}
  /\ NotRun
  /\ UNCHANGED <<looks, function, runs>>

(* continueExecution returns Finished or Terminated, the latter also for ten
   errors or a stack out of balance: the callback is called. *)
Ends ==
  /\ running
  /\ calls' = [calls EXCEPT ![function] = @ + 1]
  /\ running' = FALSE
  /\ terminate' \in {terminate, TRUE}
  /\ NotRun
  /\ UNCHANGED <<looks, function, runs>>

(* MyRunTask::execute *)
Slice ==
  /\ firing = Runner
  /\ firing' = NoTask
  /\ IF running THEN Goes \/ Ends ELSE NotRun /\ UNCHANGED appVars
  /\ UNCHANGED <<now, upbeat>>

(* Faulty variant of Beat: the heartbeat's task is run on the upbeat only. *)
BeatOnce ==
  /\ firing = Heart
  /\ firing' = NoTask
  /\ upbeat' = ~ upbeat
  /\ IF upbeat THEN RunOnce(Heart, DownMs) ELSE NotRun
  /\ UNCHANGED <<now, appVars>>

(* MyHeartbeatTask::execute, but for the LED *)
Beat ==
  /\ firing = Heart
  /\ firing' = NoTask
  /\ upbeat' = ~ upbeat
  /\ RunOnce(Heart, IF upbeat THEN DownMs ELSE UpMs)
  /\ UNCHANGED <<now, appVars>>

Fire == FireEvent /\ UNCHANGED <<appVars, upbeat>>
AppTick == Tick /\ UNCHANGED <<appVars, upbeat>>

-----------------------------------------------------------------------------
(* The heartbeat has executed once, in its constructor. *)
AppInit ==
  /\ head = Heart
  /\ next = [t \in Task |-> NoTask]
  /\ now = 0
  /\ fireAt = [t \in Task |-> IF t = Heart THEN Later(Clamp(UpMs)) ELSE -1]
  /\ msSet = [t \in Task |-> IF t = Heart THEN Clamp(UpMs) ELSE 0]
  /\ repeating = [t \in Task |-> FALSE]
  /\ firing = NoTask
  /\ scheduled = {Heart}
  /\ running = FALSE
  /\ terminate = FALSE
  /\ looks = FALSE
  /\ function = 0
  /\ upbeat = TRUE
  /\ runs = 0
  /\ calls = [r \in 1 .. MaxRuns |-> 0]

AppNext == Stop \/ Run \/ Slice \/ Beat \/ Fire \/ AppTick

(* The platform's loop fires the tasks, tasks return, the clock goes on. *)
AppFairness ==
  /\ WF_allVars(Fire)
  /\ WF_allVars(Slice)
  /\ WF_allVars(Beat)
  /\ WF_allVars(AppTick)

AppSpec == AppInit /\ [][AppNext]_allVars
FairAppSpec == AppSpec /\ AppFairness

-----------------------------------------------------------------------------
AppTypeOK ==
  /\ TypeOK
  /\ running \in BOOLEAN /\ terminate \in BOOLEAN
  /\ looks \in BOOLEAN /\ upbeat \in BOOLEAN
  /\ runs \in 0 .. MaxRuns
  /\ function \in 0 .. runs
  /\ calls \in [1 .. MaxRuns -> Nat]

(* A program that runs has a slice coming, whatever its last slice returned;
   and the task of one that does not is off the list, so that the next run
   does not put it there twice. *)
RunnerIsScheduled == running <=> Runner \in Members \cup ({firing} \ {NoTask})

(* The callback of every run but the one that goes on has been called, once. *)
OneCallbackPerRun ==
  \A r \in 1 .. runs : calls[r] = IF r = runs /\ running THEN 0 ELSE 1

(* The heartbeat goes on, whatever programs do. *)
HeartbeatGoesOn == Heart \in Members \cup {firing}

(* A stopped program ends, unless none of the slices it has left looks. *)
StopEnds == <>[](running /\ terminate) => <>[] ~ looks

=============================================================================

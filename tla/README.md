# A verification of m8rscript

m8rscript is a small JavaScript-like language for embedded boards. Its runtime
(`src/m8rscript`) is a cooperative multitasking system: a list of timed tasks, an
application that runs a program in slices, and a virtual machine that calls
functions and handles events, with a collector of its objects, a compiler and a shell.
It is ported to the ESP8266 (`src/esp`) and to the Mac
(`src/mac`). This directory holds TLA+ specifications of the parts in which timing,
order and bookkeeping decide whether the system works, the TLC configurations that
check them, and proofs checked by TLAPS. Paths below are relative to `src/`.

## 1. Inventory

| Component | State | Operations | Talks to |
|---|---|---|---|
| Task list, `m8rscript/TaskManager.*` | `_head`; `_next`, `_msTimeToFire`, `_msSet`, `_repeating` per task | `runOnce`, `runRepeating`, `remove`, `fireEvent` | the platform's loop through `postEvent`; tasks through `execute` |
| Mac loop, `mac/MacTaskManager.*` | event thread, condition variable and its mutex | the loop, `postEvent` | the list, from a thread of its own |
| ESP loop, `esp/core/EspTaskManager.*` | SDK post queue of one entry, one timer | `executionTask`, `executionTimerTick`, `postEvent` | the list, from SDK callbacks |
| Application, `m8rscript/Application.*` | run task (`_running`, `_function`), heartbeat (`_upbeat`), program | `load`, `run`, `stop`, the two `execute` | shell, task list, execution unit |
| Execution unit, `m8rscript/ExecutionUnit.*` | `_stack`, `_callRecords`, `_pc`, `_eventQueue`, `_executingEvent`, `_numEventListeners`, `_terminate` | `startExecution`, `continueExecution`, `fireEvent`, `runNextEvent`, listening | run task, native functions, sockets and lookups |
| Functions, closures, `Function.*`, `Closure.*` | code, formal parameters, open and closed up values | `call`, `newUpValue`, `upValueStackIndex`, `closeUpValues` | execution unit |
| Objects and collector, `Object.*`, `Program.*`, `Value.*` | `_objectStore`, `_stringStore`, `_staticObjects`, marks, `gcState` and three counters | `gc`, `gcMark`, property access | execution unit, delegates |
| Containers, `Containers.h`, `Atom.*` | stack, map, pool, strings, atom table | insertion, search, sharing | everything |
| Shell, `Shell.*` | `_state`, `_binary`, `_file`, `_directoryEntry` | `received`, `sendComplete`, commands | application, file system, TCP |
| Sockets, `TCP.*`, `UDP.*`, `IPAddr.*` and the platforms' | `_clients` with `_sending` and `_buffer` each, delegates, lookups | connect, accept, send, disconnect, lookup | execution unit's events, shell |
| Compiler, `Parser.*`, `ParseEngine.*`, `Scanner.*` | `_parseStack`, `_nextReg` and `_minReg` per function, code, labels | `push`, `pop`, `swap`, `bake`, the emit functions, backpatching | program |
| ESP system, `esp/core/Esp.cpp`, `MDNSResponder.*` | startup state, user data in flash, clock | Wi-Fi events, startup, microsecond clock | application |
| File systems, GPIO, simulator | | thin layers over a vendored or host service | |

What is hard here, and what each component must get right:

* *Task list.* Intrusive links that no function checks. The list must stay one finite
  path in firing order that holds what was run and not yet fired, whatever is run,
  removed or repeated, also from inside a task that executes.
* *Loops.* A task behind another one is linked without any event, on the assumption that
  one is on its way. The loop must not be left without an event while a task waits,
  must not fire early because of a stale timer, nor late because of a stale clock.
  On the Mac two threads share the list without a lock.
* *Application.* A run, a stop and the end of a program meet in any order; the callback
  of a run is called once; the task is on the list exactly while a program runs; the
  heartbeat shares the list and must survive.
* *Execution unit.* Calls may pass fewer or more arguments than there are parameters,
  and events call functions between two instructions. What a return pops must be what
  the call has put there, and the code behind a call takes one result. Events arrive at
  any time and are kept in one flat vector.
* *Closures.* A captured variable is a place on the stack while its function runs and a
  copy afterwards, and all closures that capture it, and the function itself, must see
  the same one.
* *Collector.* It works in eight steps with the program running in between, has no write
  barrier, and marks arrays only if a flag says so. What is reachable must survive, also
  what only an open lookup holds; what is not must go, though the calls that decide when
  to begin are counted in a byte.
* *Compiler.* Registers are given back by counting, in the order the parse stack happens
  to have; an operand must survive until the instruction that reads it.
* *Shell and sockets.* The shell sends one message for each acknowledgement it hears of,
  so an answer that nobody asks for, or a handler that says nothing, ends the exchange.
  Data arrives in any chunks and at any moment; connections come, go and fill the table;
  a piece sent while another is under way waits in a buffer.

`PROJECT.json` lists every component with its status and every hazard with its line and
the properties that watch it.

## 2. Modules

| Module | Models | Uses |
|---|---|---|
| `TaskManager` | the list: head, one link per task, due times, the task that executes | |
| `TimerQueue` | what the list promises: a queue of tasks in due order, first come first served | |
| `TaskQueue` | the refinement mapping: the linked list, read off, is `TimerQueue`'s queue | both |
| `MCTaskManager` | small instance | `TaskQueue` |
| `MacTaskManager` | event thread and a calling thread, cut where the two can interleave | `TaskManager` |
| `EspTaskManager` | `executionTask`, timer and post queue | `TaskManager` |
| `Application` | run task, heartbeat, run and stop commands | `TaskManager` |
| `ExecutionUnit` | frames, calls, returns, slices, events, listeners | |
| `MCExecutionUnit` | small instance: three shapes of functions | `ExecutionUnit` |
| `Closure` | frames and the up values that point into them | |
| `GarbageCollector` | stores, references, roots, and the steps of a collection | |
| `ParseStack` | the parse stack, the next register, and every emit function | |
| `EspTCP` | the table of clients, lwIP's control blocks behind it | |
| `Shell` | the shell's handlers as functions of the shell: what they send and what becomes of it | |
| `ShellServer` | connections, shells and the peers that use them | `EspTCP`, `Shell` |
| `MCShellServer` | small instance: the tokens text is made of | `ShellServer` |
| `TaskManagerProofs` | theorems about the list, and that it implements `TimerQueue` | `TaskQueue` |
| `EspApplicationProofs` | theorems about the ESP8266 loop and the application | `EspTaskManager`, `Application`, `TaskManagerProofs` |
| `ShellServerProofs` | theorems about the connections, and about the shells and peers over them | `ShellServer` |
| `MacTaskManagerProofs`, `ExecutionUnitProofs`, `ClosureProofs`, `GarbageCollectorProofs`, `ParseStackProofs` | theorems | the modules they are named after |

`TaskManager` keeps the list as the code does, as a head and a `next` per task, so that
a wrong insertion really loses tasks or ties a knot. The loop of `runTask` is not
unrolled: `StopsAt` is the task where it stops, found in the least set closed under the
loop's step (`Reach`). `LinkFirst` is the two branches that go on to
`prepareForNextEvent`, `LinkBehind` the two that return. `fireEvent` is two actions,
`FireEvent` before and `EndFire` after `task->execute()`, since the task may run itself
and others in between. `scheduled` is a history variable: what has been run and since
then neither fired nor removed. `runTask` does not look whether its task is on the list;
`MayRun` states what its callers owe it. `Application` uses the list without that guard,
because whether its callers keep to it is the question there.

`MacTaskManager` gives each place where the event thread can be overtaken a value of
`pc`; `loopNow`, `gap` and `deadline` are the thread's locals. A call of `runTask` from
another thread is two steps, `FindPlace` and `LinkInPlace`, and a third, `Post`. No lock
protects the list, so the event thread fires, links and puts back tasks between the first
two as it likes; the link is then made at the place found before, as the code does, however
wrong it has become. The history variable `overtaken` is set when that happens: when
the pointer that the caller is about to change, `_head` or the `_next` of the task before, has
changed since it looked, or that task is fired. The timed wait may always end for no reason
(`WakeUp`), which is harmless; the untimed one does so with `Spurious = TRUE`.

`EspTaskManager` treats each SDK callback as one step, which the SDK guarantees. The
post queue holds one event and drops a second; arming the timer again moves it.

`Application` leaves out what a slice computes: `continueExecution` returns a delay, a
yield, a wait or the end. `looks` says whether the next slice comes to a test of
`_terminate`: the instructions between two tests are counted anew in each slice, so one that
asks for a delay before the sixteenth does not see a stop. Every slice may be of either kind.

`ExecutionUnit` keeps the role of each value on the stack (the program's variable, a
local, a result) and not the value. A function is the number of its parameters and
locals; its code is any sequence of calls, each followed by taking the result, and
returns. The event queue is flat as in the code, beside a history `events` of what has
been fired. `open` are the lookups and sockets that will answer or close, `listeners` the
code's count of them, which a start sets to 0, and `inherited` a history: how many were open
at that moment and will count the number down below it.

`Closure` replaces what a variable holds by the variable itself: each place on the stack
names the variable it belongs to. Each up value keeps as a history the variable it found when
it was made (`of`) and those the program's text says it stands for (`for`). The code treats
the first two alike and fails the third: `UpValuesKeepVariables` compares an up value with
`of` over its life, `CapturesFindVariables` `of` with `for`, and `ClosuresSeeVariables` what
the closure and the function see. Functions are nested in any way, since a call is of any
function made so far, known by the calls around it, and by whom it is called is free.

`GarbageCollector` keeps of an object what it refers to. `active` is what
`ExecutionUnit::gcMark` marks, `pending` the static objects of open lookups, `hidden`
what other variables hold that no mark follows: `_this`, `_function`, the call records,
an application's `_program`, what a `_proto` or `_iterator` refers to. Marking is the
least set closed under the references (`Reach`). A step of the program is one value moved
or one object made; the collector's steps are the cases of the switch in `Object::gc`, and
a forced call is `force`, during which the program stands still.

`ParseStack` works on the stack of types the compiler keeps. An entry also carries the
registers and locals its value depends on and whether they still hold it (`ok`): writing
a register spoils the entries that depend on it, and an instruction that reads a spoiled
one makes `intact` false. Any sequence of operations a stack allows is taken, which
includes all that the grammar produces.

`EspTCP` has one action per handler lwIP calls and per call a delegate makes. Data is a
sequence of tokens; `said` and `wire` are histories of what the delegate has sent and
what lwIP was given since the peer last read. What lwIP does is external and modelled
as far as the handlers see it: `tcp_close` inside the receive handler resets the
connection and throws away what it holds; a peer acknowledges what it was sent in parts, and,
after it has closed its side, also late; a control block is used again; no handler is
told of a reset, because none is registered. `Faults` says whether acknowledgements in parts
(`"partialAcks"`), late ones (`"lateAcks"`) and resets (`"resets"`) happen, and whether
`tcp_write` may fail (`"writeFails"`), after which the data is gone.

`Shell` is a translation of the handlers into functions: a shell, what it sends and
whether the connection stays. On the ESP8266 `open` never answers with a null pointer, so a
get or put of a file that cannot be opened goes on with a file that fails (`Bad`). `lost`, a
history, holds what nothing points to any more and nobody has deleted: the directory that
every `erase` opens, a file or directory that is assigned over, or what a peer leaves open
that goes in the middle of a transfer. The file system is taken to be mounted.
`ShellServer` sends those messages through `EspTCP` (`due`,
`Say`) before anything else happens, as the handler does before it returns. Its peers
are the simulator's `sendCommand` and `addFile`, with more commands than it uses.

The faulty variants beside some definitions (their comments begin "Faulty variant")
are used by no specification. Each of them must make TLC find the property it is meant for
violated; which one belongs to which property is in `PROJECT.json`, "mutants".

## 3. Runs

| Run | Checks | Bounds |
|---|---|---|
| `task_list` | types, one path, order, nothing lost, repeating task off the list, refinement of `TimerQueue` | three tasks, delays 1 (counts as none), 2 and 9 (cut to 3), four instants |
| `mac_loop` | types, `FiresATask` (the assertion in `fireEvent`), `NeverStranded`, `LostOnlyIfOvertaken`, `NeverEarly`, `EveryTaskStarts` | two tasks, one repeating, delays 0, 1, 3, five instants |
| `esp_loop` | types, `NeverStranded`, `EveryTaskStarts` | two tasks run once, delays 0, 2, 5, six instants, slop 1 |
| `application` | types, `RunnerIsScheduled`, `OneCallbackPerRun`, `HeartbeatGoesOn`, `StopEnds` | three runs, one after the other |
| `vm_events` | types, `StackIsAccounted`, `ResultOnTop`, `QueueHoldsEvents`, `WaitsForSomebody` | three shapes of functions, up to two arguments, two nested calls, two events, two listeners; event functions call native functions only |
| `vm_return` | `ResultOnTop`, violated | the same but one listener, event functions call script functions |
| `closures` | types, `UpValuesKeepVariables` | two locals, one of them a parameter, up to two arguments, three calls, three up values |
| `closure_live` | `ClosuresSeeVariables`, violated | one local, one call, one up value |
| `collector` | types, `NothingInUseIsFreed`, `ForcedLeavesNoGarbage`, `GarbageGoes` | an object, an array and a string; begins at the second new object, the first new string or the first call |
| `compiler` | types, `OperandsIntact`, `RegistersReturned` | any sequence of the modelled emit functions but for worked-out indices and cases and assignments to a local named before; stack of four, one local, six registers, numbers modulo 16 |
| `compile_case` | `SwitchValueStays`, violated | the same; `"cases"` |
| `shell` | types, `StreamInOrder`, `SlotsAreServed`, `FilesAreClosed`, `AnswerIsWhole`, `AnswerComes` | one slot, two control blocks, a send buffer of two tokens, files of up to three tokens read by two, puts of up to two lines; acknowledgements in parts and late |

Three tasks are enough for a first, a middle and a last one with one to insert or
remove at each place. Two are enough for the loops: one on the list and one that
overtakes it, is put behind it or takes its place. In `vm_events` the three shapes with
0 to 2 arguments are called with too few, just enough and too many, at every depth. Two
listeners in `vm_events` are one of the program that was stopped and one of its successor, which
is where the count goes wrong. Three calls in `closures` give variables up to three functions
out, siblings, and a function called again after it has returned. Three cells in `collector`
give every way the two stores
can refer to each other; a longer chain is reached at once by `Reach`, and the proof covers
any number. Four entries in `compiler` are the three operands of the widest operation and one
below them that must survive it. In `shell` the second control block is the next peer
of a slot whose connection lwIP still has, and one turned away by a full table; files of
0 to 3 tokens are empty, short of, equal to and above the piece that is read; messages of one
to three tokens fill a send buffer of two, fit into what an acknowledgement of one leaves
free, or are put behind others that wait in the client's buffer.

*Time.* The clock stops at `MaxTime`, and due times are cut there: instants from then on
are not told apart, and a task due then or later is due at `MaxTime`. This keeps the
order of due times (later never becomes earlier) and lets every task come due. What it
hides is the wrap of the 32-bit millisecond clock after 24.8 days.

*Fairness.* `EveryTaskStarts` and `StopEnds` assume weak fairness of the loop's steps
(the thread runs; the SDK delivers its event and its timer), of a call of `runTask` that
has begun, of the return of a task that executes, and of the clock. `GarbageGoes`
assumes that `gc` is called again and again, as every slice of a program begins with it
(`ExecutionUnit.cpp:377`). `WaitsForSomebody` assumes that the run task goes on with the
program and that a slice at the end of the code does there what there is to do, as
`continueExecution` does before it returns. `AnswerComes` assumes that a handler sends what it
has to send,
and that what is on its way arrives and is acknowledged; that anybody asks, connects or
leaves is not assumed, nor that a program does anything. Nothing is assumed of callers:
that anybody runs, removes or stops anything is never assumed. On the Mac a task that repeats
or is run again and again cannot keep another one from starting within the bounded clock,
because equals are served in the order they came; `EveryTaskStarts` asks for it until a
caller has been overtaken.

*Symmetry* of the tasks is used in `task_list`, which checks no liveness.

## 4. What the runs found

Three runs show the code doing other than a comment or a test of it says. `PROJECT.json`
quotes the lines.

* `vm_return`: a function called by an event's function leaves no result for its caller.
* `closure_live`: a return closes the variables of the function it returns *to*. A
  function that calls anything after its variable has been captured goes on with a
  variable of its own, which the closure does not see.
* `compile_case`: where both the value of a switch and a case have to be loaded, the
  comparison's result is written over the switch's value.

Four more properties are stated of the code as it stands, are false of it, and belong to no run;
each can be added to the configuration in brackets:

* `CapturesFindVariables` (`closures`): a function captures by counting callers, so when another
  than the one around it has called it, it captures a variable of that one; and the index of a
  captured local leaves out the shift for arguments that are too many.
* `AcksFindSenders` (`shell`): an acknowledgement of a part, with nothing buffered, ends
  `_sending`; the acknowledgement of the rest then fails `assert(_sending)` of `Client::sent`.
* `AcksFindClients` (`shell`): data acknowledged after the peer has closed finds no slot, and
  an assertion of `sent` fails (`EspTCP.cpp:137`).
* `NeverOversleeps` (`mac_loop`): the time to sleep comes from a clock read before the loop waited
  for work, and a notification just before the timed wait is lost.

`shell` goes on where an assertion of `sent` fails, as a build without assertions does. There
neither does harm: peers acknowledge in parts and late, and leave in the middle of a transfer.

Three properties name the case in which the code fails them, and hold in every other, with the
case allowed to happen:

* `overtaken` (`mac_loop`): the list has no lock. When the event thread changes the pointer
  that another thread is about to write, a task is lost: it is linked behind one that
  has just been fired. Without the condition `LostOnlyIfOvertaken`, `NeverEarly` and
  `EveryTaskStarts` fail.
* `looks` (`application`): a loop of fewer than 16 instructions around `delay()` never notices
  "stop" (`ExecutionUnit.cpp:356-379`). Without the condition `StopEnds` fails.
* `inherited` (`vm_events`): the count of listeners is set to 0 at a start, and the answers to
  what the program before was waiting for take it below. Without the condition
  `WaitsForSomebody` fails: a program waits at its end for nobody.

Other passing runs are checked under conditions, each a constant with a name. What
happens without it can be seen by changing the constant in the configuration:

| Constant | Value | What fails, and why |
|---|---|---|
| `Spurious` | `TRUE` | `FiresATask`: the untimed wait of the Mac loop has no predicate, so a spurious wakeup leads into `assert(_head)` |
| `Repeaters` of the ESP8266 | one task | `NeverStranded`: a repeating task that goes back behind another posts no event. No caller uses `runRepeating` today |
| `RunsTwice` | `TRUE` | `HeartbeatGoesOn`: "run" entered while a program runs puts the queued run task on the list again and drops the heartbeat |
| `HandlersCall` | `TRUE` | `ResultOnTop`, as in `vm_return` |
| `Careless` of the collector | `"hidden"` | `NothingInUseIsFreed`: what only the variables behind `hidden` hold is freed |
| | `"appends"` | the same: an element appended to an array that needed no marking is not marked |
| | `"answers"` | the same: a lookup's answer between `MarkActive` and `MarkStatic` moves its function out of sight of both |
| `Programs` of `ParseStack` | `"indices"` | `OperandsIntact`: an index that was worked out has its register given back, and the next one taken overwrites the object's or its own |
| | `"assignments"` | the same: a local named before, in the same expression, is assigned |
| | `"long"` | `RegistersReturned`: nothing keeps the next register from passing below 0, after which it is not among the registers |
| `Faults` of `EspTCP` | `"writeFails"` | `StreamInOrder`, `SlotsAreServed`, `AnswerComes`: what `tcp_write` did not take is lost, and the client waits for an acknowledgement of nothing |
| | `"resets"` | `StreamInOrder`: lwIP reuses the control block of a reset connection, which a slot still holds |
| `Careless` of the server | `"hurries"` | `AnswerIsWhole`, `FilesAreClosed`: commands typed ahead of the prompt |
| | `"joins"` | `AnswerIsWhole`: a command in one segment with what follows is taken to have it for its arguments |
| | `"splits"` | `FilesAreClosed`: four characters of Base64 in two segments are decoded apart, and a segment that ends with a line ends the put |
| | `"wholeBuffers"` | `AnswerIsWhole`: a text file of a multiple of the buffer's size is followed by the whole buffer once more |
| | `"failingText"` | `FilesAreClosed`: a text file whose reading fails stays open |

What nothing points to any more is counted in `lost`. `FilesAreClosed` asks that no get, put
or listing adds to it, and leaves out three entries, which the code adds in every run: the
directory `erase` goes through is never deleted (`Shell.cpp:324`), one for each `erase`; so is
the object, without a handle, that a text `get` of a missing file leaves; and the ESP8266 never
reports `Disconnected`, so the shell of a peer that leaves in the middle of a transfer is leaked
with what it has open.

An event's function that is `delay` itself is excluded, too: `runNextEvent` would not pop its
arguments. And the program itself does not return: the compiler accepts a return at its
top level, where `RET` finds no call record. Nor does an object refer to itself by way of
others: `gcMark` does not look whether it has been there and descends for ever.

## 5. Proofs

Every theorem holds for every set of tasks (a finite or an infinite one), all delays,
any `MinDelay`, `MaxDelay`, `MaxTime` and `Slop`; for every set of objects, strings and
arrays and any thresholds of the collector; for any number of connections, control blocks
and any send buffer; for files of any size, puts of any length and any buffer they are read
into; for functions of any size, any number of arguments, any depth of calls and any number
of events and up values; for any number of registers and locals and a parse stack of any
height. The assumptions are the named ones about the constants' types (`ConstantsOK`,
`LoopConstantsOK`, `EspConstantsOK`, `ApplicationConstantsOK`, `ExecutionUnitConstantsOK`,
`ClosureConstantsOK`, `CollectorConstantsOK`, `ParseStackConstantsOK`, `EspTCPConstantsOK`,
`ShellConstantsOK`, `ServerConstantsOK`, and `TokensOK`: what shells and peers send is
among the tokens) and what the third column names. The conditions are those under which
the passing runs are checked; section 4 says what happens without each.

| Theorem | Statement | Condition |
|---|---|---|
| **`TaskManagerProofs`** | | |
| `TypeCorrect` | `Spec => []TypeOK` | |
| `ListStaysAPath` | `Spec => []ListIsPath` | |
| `ListStaysSorted` | `Spec => []ListIsSorted` | |
| `NoTaskIsLost` | `Spec => []NothingLost` | |
| `RepeatersStayOff` | `Spec => []RepeaterOffList` | |
| `ListImplementsTimerQueue` | `Spec => ImplementsTimerQueue` | |
| **`EspApplicationProofs`** | | |
| `EspImplementsTaskList` | `EspSpec => Spec` | |
| `EspLosesNothing` | `EspSpec => []NothingLost` | |
| `EspImplementsTimerQueue` | `EspSpec => ImplementsTimerQueue` | |
| `EspTypeCorrect` | `EspSpec => []EspTypeOK` | |
| `NeverLeftWithoutEvent` | `EspSpec => []NeverStranded` | no task repeats |
| `AppTypeCorrect` | `AppSpec => []AppTypeOK` | |
| `RunnerStaysScheduled` | `AppSpec => []RunnerIsScheduled` | `RunsTwice = FALSE` |
| `CallbackIsCalledOnce` | `AppSpec => []OneCallbackPerRun` | `RunsTwice = FALSE` |
| `HeartbeatAlwaysGoesOn` | `AppSpec => []HeartbeatGoesOn` | `RunsTwice = FALSE` |
| `AppKeepsToTimerQueue` | `AppSpec => [][Queue!Next]_Queue!vars` | `RunsTwice = FALSE` |
| **`MacTaskManagerProofs`** | | |
| `MacTypeCorrect` | `MacSpec => []MacTypeOK` | |
| `AssertionHolds` | `MacSpec => []FiresATask` | `Spurious = FALSE` |
| `NeverWaitsForNothing` | `MacSpec => []NeverStranded` | |
| `NothingStartsEarly` | `MacSpec => NeverEarly` | `Spurious = FALSE` |
| `NothingIsLostUnlessOvertaken` | `MacSpec => []LostOnlyIfOvertaken` | |
| **`ExecutionUnitProofs`** | | |
| `QueueIsWhole` | `Spec => []QueueHoldsEvents` | |
| `StackAccounted` | `Spec => []StackIsAccounted` | `HandlersCall = FALSE` |
| `ResultIsOnTop` | `Spec => []ResultOnTop` | `HandlersCall = FALSE` |
| `UnitTypeCorrect` | `Spec => []TypeOK` | `HandlersCall = FALSE` |
| **`ClosureProofs`** | | |
| `ClosureTypeCorrect` | `Spec => []ClosureTypeOK` | |
| `UpValuesKeepTheirs` | `Spec => []UpValuesKeepVariables` | |
| **`GarbageCollectorProofs`** | | |
| `TypeCorrect` | `Spec => []TypeOK` | |
| `CollectorIsSafe` | `Spec => []NothingInUseIsFreed` | `Careless = {}` |
| `ForcedIsThorough` | `Spec => ForcedLeavesNoGarbage` | `Careless = {}` |
| **`ParseStackProofs`** | | |
| `ParseStackTypes` | `Spec => []TypeOK` | |
| `RegistersAreReturned` | `Spec => []RegistersReturned` | `"long"` not in `Programs` |
| `OperandsAreIntact` | `Spec => []OperandsIntact` | `Programs = {}` |
| `SwitchValueLasts` | `Spec => SwitchValueStays` | `Programs = {}` |
| **`ShellServerProofs`** | | |
| `SlotsAreAlwaysServed` | `TcpSpec => []SlotsAreServed` | no `"resets"`, `"writeFails"` |
| `StreamIsInOrder` | `TcpSpec => []StreamInOrder` | no `"resets"`, `"writeFails"` |
| `ServerImplementsTcp` | `ServerSpec => TcpSpec` | no `"resets"`, `"writeFails"` |
| `ServerTypes` | `ServerSpec => []ServerTypeOK` | no `"resets"`, `"writeFails"` |
| `FilesAreAlwaysClosed` | `ServerSpec => []FilesAreClosed` | the same, and no `"hurries"`, `"splits"`, `"failingText"` |
| `AnswersAreWhole` | `ServerSpec => []AnswerIsWhole` | the same, and `Careless = {}` |

*The list.* The invariant `IInv` is the conjunction of `TypeOK`, `ListIsPath`,
`ListIsSorted`, `NothingLost` and `RepeaterOffList`. None of the last four is inductive
alone: an insertion keeps the list a path only if its task is not on the list, which for
a repeating task is `RepeaterOffList`; it keeps the order only where `StopsAt` stops,
which `StopPoint` derives from the order before. `Reach` is a least fixed point, so each
change of the links has a lemma (`ReachLinkFirst`, `ReachLinkBehind`, `ReachPop`,
`ReachUnlink`) that shows a set closed under the new links and, for the other inclusion,
contained in every closed set. No induction over the list is needed.

*The timer queue.* `ListImplementsTimerQueue` needs a queue to map the list to. `QueueInv`
adds to `IInv` that there is a sequence of the list's tasks, each once, in the order of the
links and of the due times (`Orders`); there is only one (`OneOrder`: of two such sequences,
the tasks on which they agree are closed under the links, so they are all), which makes it
the one the mapping `InOrder` chooses. A step then is shown on the sequence: a task linked in
is put where `StopsAt` is (`RunTaskEnqueues`), one removed is left out (`RemoveCancels`), and
the head is the first (`FireStarts`). `TimerQueue` says where a task goes by what is due
before and behind it; that the code looks for this place from the front is the list's affair.

*The ESP8266 loop* takes no step that the list's specification does not allow
(`EspStep`), so `IInv` and the timer queue carry over. `NeverStranded` then needs the order of the list
where the head is removed: the next head is due no earlier, so the timer armed for the
old one is early enough. Where a repeating task is put back the step fails, and that is
what `Repeaters` shows in section 4.

*The Mac loop.* Once the thread has seen a task, or has been notified of one, there is one until
the thread itself takes it (`MacInv`), whether or not a caller has been overtaken. What else is
proved of the list holds until one has:
`ListInOrder` is the list's invariant `IInv` and `PlaceFound`, which says of a caller between
its two steps what the one step of `TaskManager` knows at once: that its task is off the list
and that the place it found is the right one for the task's due time. The lemmas `FireKeepsPlace` and
`RunKeepsPlace` show that this survives what the event thread does elsewhere on the list: the
head is fired in front of the place, or a task is linked before or behind it without touching
its pointer, so that it still is where the due times say (the found task is due no later, the
next one later). `FirstInv` and `BehindInv` then carry `IInv` over the link. `NothingStartsEarly`
adds what the thread has worked out (`InTime`: the head is due by the end of the sleep,
however old `loopNow` is).

*The application* uses the list without the guard `MayRun`, so its invariant `AppInv` has
to bring that guard along: the task that executes is off the list, and the run task is
on the list or executes exactly while a program runs. With that every `runOnce` is of a
task that is off the list, and the list stays a path (`ListInv`). The callbacks are
counted along with `function = runs`: the run that goes on is the last one begun.
`AppQueueInv` joins `AppInv` to `Orders`, so that the steps on the list are those of the timer
queue here, too, though not from its initial state: an application begins with the
heartbeat on the list.

*The execution unit.* `StackIsAccounted` follows from `FramesFit`, which says the same
level by level. A return keeps it because `FrameSize` is what a start has put there
(`Sizes`, `Started`), for too few and too many arguments alike. Which of the two forms
of return applies is decided by one flag for all calls, so `FramesFit` needs
`EventsAreShallow`: an event's function is entered from the end of the program, over an
empty call stack, and calls nothing; this is where `HandlersCall` comes in. What a
started function finds on the stack as arguments comes out of the flat queue, for which
`QueueInv` keeps the place at which each event begins. `QueueHoldsEvents`
follows: between two such places lie the event's function, `this`, the count and that many
arguments.

*The closures.* `UpValuesKeepTheirs` rests on the frames being adjacent and filling the stack
(`Bounded`), on no variable having two places (`PlacesDiffer`), since calls are numbered, and on
no place having two up values (`SlotsDiffer`). A return drops the frame on top, and closes
whatever points into it and also what points into the frame below: too much, as `closure_live`
shows, but never too little, so that no open up value is left to point at what the next call
puts there. What the proof does not need is that a capture finds the right variable.

*The collector.* `NothingInUseIsFreed` is not inductive: the sweep frees what is not
marked, so the marks must cover what is in use whenever a sweep is next (`AllMarked`), and
between the two marking steps what the execution unit reaches (`ActiveMarked`). No store
or load can break that, since what the program moves is already reached from `active`
(`NothingComesIntoUse`), new cells are born marked, and only answers to lookups add to it,
which is why they are kept out of that one moment. `FlagsOK` makes the marking follow every
reference, so that it computes `Reach` (`WalkedIsRefs`). `Reach` is a least fixed point, and
the lemmas about it (it holds the roots, follows the references, is the least such set, is
monotone) replace induction over paths. `ForcedLeavesNoGarbage` adds that during a forced
collection nothing else is marked.

*The compiler.* An operation is a function of the compiler's configuration (`Current`), so
the invariants are stated of one and each emit function has a lemma. `RegistersInv` counts:
every register is free, held by an entry of the stack, or kept by `emitDeref` for good
(`Counted`), as long as no function has needed too many. `RegistersReturned` is the case of
an empty stack. That an operand is intact (`OperandsInv`) does not follow from counts,
since registers are given back in the order the stack happens to have: what an
entry depends on must lie beyond the registers that are free and also beyond those that
will be when everything above it has been popped, and no register is held by two (`Clear`).
To swap two entries breaks that if the lower is a register and the upper depends on one. The code swaps before and after it
bakes an entry and mostly swaps back or pops both; where it does not, `"indices"` and
`"cases"` have to be excluded. `"assignments"` would let a local be written on which an entry depends. `SwitchValueLasts` says that the case in `compile_case` is
the only way to spoil a switch's value.

*The connections.* `TcpInv` says that slots and open control blocks correspond one to one and
that data is unacknowledged while `_sending` is true, which it is while the buffer holds any.
That `_sending` is true while data is unacknowledged is what an acknowledgement in parts
breaks, and is not needed. The stream is in order
because the buffer holds all that was said and not written, each acknowledgement
moves a prefix of it to the wire, and a slot is empty when it is taken; what a closed connection
still has acknowledged finds no slot.

*The server.* `ServerImplementsTcp` holds because a shell says something only while its slot
is in use (`ServerInv`), so that each message is a `send` that `EspTCP` allows; what is
proved of the connections carries over. `FilesAreAlwaysClosed` follows the states of the
shell (`FileInv`): a file is open only in the state that uses it (`Shut`), and in a state that
goes on by itself something is unacknowledged, so that no command can arrive and open another.
This needs a put to end in the segment it is meant to (`Inbound`), which `"splits"` would deny.
`AnswersAreWhole` needs to know how far each shell is (`AnswerInv`): its command is on its way
(`Commanded`), a part of a put has arrived and the file holds the data of that part
(`Putting`), a listing or a file has been sent up to where it is read (`Listing`, `Getting`),
or the answer is complete and ends with the prompt, whether or not it has been sent (`Ended`).
What was said before and what is still to be said are looked at together, since
acknowledgements may come between them. That a text file never ends with a piece of
a whole buffer comes from asking for no file whose size `EvenSize` holds of, which
`"wholeBuffers"` would allow.

*In place of induction.* Sequences and links are read by no recursion in these proofs. Least
elements of finite sets of numbers, sets closed under a step, and the least such set do what
an induction would do elsewhere; the tokens of one kind in a message (`OfKind`) are numbered
by how many there are up to each.

Every invariant, action property and refinement the passing runs check is stated by a
theorem. Only model-checked is liveness (`EveryTaskStarts` of both loops, `StopEnds`,
`WaitsForSomebody`, `GarbageGoes`, `AnswerComes`), which needs fairness and `ENABLED` and so is out of the
prover's reach. What the three violated runs show is a counterexample and needs no proof.

## 6. Not modelled

* Values, arithmetic, the grammar, the scanner, JSON and streams are sequential data
  conversions that tests cover better; so are `Map`, `Pool`, `String` and the atom table.
  Of the compiler, jumps and their labels, deferred code, nested functions and references
  with `.value` are left out.
* File systems and GPIO registers are I/O. Startup of the ESP8266 and its user data run
  once and in order.
* UDP, outgoing connections and the Mac's socket threads: their delegates' effect on the
  execution unit is in `ExecutionUnit`, their tables are not modelled.
* Loading a program, the `main` file and the name checks of the application.
* The wrap of the clock after 24.8 days, and the move of the stack in memory.
* `mac/m8r/main.cpp` and `mac/m8rsim/Simulator.cpp` no longer match the application's
  constructor. `esp/core-save`, `esp/core-sming` and the SDK are old copies or third-party;
  they are most of the lines under `src/`.

## 7. Plan

1. Proofs: that the Mac loop keeps to `TimerQueue` until a caller is overtaken. Its `runTask` stamps a task
   before it links it, so the mapping has to hide the due time of a task that is not on
   the list yet.
2. The Mac's socket threads over `Shell`, whose data arrives in larger pieces.
3. Backpatching and deferred code of the compiler.
4. A wrapping clock for the list.

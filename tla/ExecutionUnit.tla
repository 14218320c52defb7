--------------------------- MODULE ExecutionUnit ---------------------------
(***************************************************************************)
(* The execution unit's stack of values, its call records and its queue of *)
(* events.  (src/m8rscript/ExecutionUnit.h and .cpp, Stack of Containers.h,*)
(* call of Function.cpp and Closure.cpp)                                   *)
(*                                                                         *)
(* A script function is the shape of its frame: how many formal parameters *)
(* and how many locals (the parameters among them).  Its code is any order *)
(* of calls, each of which is followed by taking the result off the stack, *)
(* as the compiler has it, and of returns.  Of a value only its role is    *)
(* kept.  Events come from delegates of sockets and of name lookups.       *)
(***************************************************************************)
EXTENDS Integers, SequencesExt

CONSTANTS
  Function,      \* script functions: [formal, locals]
  MainLocals,    \* localSize of the program, whose code is the top level
  MaxArgs,       \* bound: arguments of a call or an event
  MaxDepth,      \* bound: call records
  MaxQueue,      \* bound: events in the queue
  MaxListeners,  \* 2^32 - 1 in the code: _numEventListeners wraps behind it
  HandlersCall   \* TRUE: an event's function calls script functions

ASSUME ExecutionUnitConstantsOK ==
  /\ Function \subseteq [formal : Nat, locals : Nat]
  /\ \A f \in Function : f.formal <= f.locals
  /\ MainLocals \in Nat /\ MaxArgs \in Nat /\ MaxDepth \in Nat \ {0}
  /\ MaxQueue \in Nat /\ MaxListeners \in Nat
  /\ HandlersCall \in BOOLEAN

VARIABLES
  stack,           \* _stack, with the role of each value
  frame,           \* its _frame: how many values lie below the frame
  func,            \* _function
  actual,          \* _actualParamCount
  records,         \* _callRecords
  pc,              \* at a call's result, at the program's END, or elsewhere
  phase,           \* in a slice, between slices, or the program is over
  queue,           \* _eventQueue, flat: function, this, count, arguments
  executingEvent,  \* _executingEvent
  listeners,       \* _numEventListeners
  open,            \* lookups and sockets that are going to stop listening
  inherited,       \* history: how many were open when the program was started
  events           \* history: the events not handled yet

stackVars == <<stack, frame, func, actual, records, pc>>
eventVars == <<queue, executingEvent, events>>
listenVars == <<listeners, open, inherited>>
vars == <<stackVars, phase, eventVars, listenVars>>

Main == [formal |-> 0, locals |-> MainLocals]
Native == [native |-> TRUE]

Copies(n, role) == [i \in 1 .. n |-> role]
Extra(n, m) == IF n > m THEN n - m ELSE 0

(* How many arguments exceed the parameters (_localOffset), and what a frame
   takes on the stack. *)
LocalOffset(f, n) == Extra(n, f.formal)
FrameSize(f, n) == f.locals + LocalOffset(f, n)

Running == phase = "slice"

-----------------------------------------------------------------------------
(* Faulty variant of StartFunction: parameters that are not passed get no
   place. *)
StartWithoutMissing(f, n, s, back) ==
  /\ records' = Append(records, [func |-> func, frame |-> frame,
                                 params |-> actual, pc |-> back])
  /\ func' = f
  /\ actual' = n
  /\ frame' = Len(s) - n
  /\ stack' = s \o Copies(f.locals - f.formal, "local")
  /\ pc' = "code"

(* startFunction and setLocalFrame, the n arguments being on the stack s. *)
StartFunction(f, n, s, back) ==
  /\ records' = Append(records, [func |-> func, frame |-> frame,
                                 params |-> actual, pc |-> back])
  /\ func' = f
  /\ actual' = n
  /\ frame' = Len(s) - n
  /\ stack' = s \o Copies(f.locals - f.formal + Extra(f.formal, n), "local")
  /\ pc' = "code"

(* PUSH of the arguments and CALL, CALLPROP or NEW of a script function *)
CallScript(f, n) ==
  /\ Running /\ pc = "code"
  /\ Len(records) < MaxDepth
  /\ HandlersCall \/ ~ executingEvent
  /\ StartFunction(f, n, stack \o Copies(n, "local"), "result")
  /\ UNCHANGED <<phase, eventVars, listenVars>>

(* Faulty variant of CallNative: nothing is pushed for a function that
   returns nothing. *)
CallNativePushingNone ==
  /\ Running /\ pc = "code"
  /\ stack' \in {stack, Append(stack, "result")}
  /\ pc' = "result"
  /\ phase' \in {"slice", "between"}
  /\ UNCHANGED <<frame, func, actual, records, eventVars, listenVars>>

(* CALL of a native function: its arguments and what it returned are popped,
   and one result is pushed.  A delay ends the slice. *)
CallNative ==
  /\ Running /\ pc = "code"
  /\ stack' = Append(stack, "result")
  /\ pc' = "result"
  /\ phase' \in {"slice", "between"}
  /\ UNCHANGED <<frame, func, actual, records, eventVars, listenVars>>

(* POP of the result *)
TakeResult ==
  /\ Running /\ pc = "result"
  /\ stack' = Front(stack)
  /\ pc' = "code"
  /\ UNCHANGED <<frame, func, actual, records, phase, eventVars, listenVars>>

(* Faulty variants of Return: the arguments beyond the parameters are left on
   the stack; the result of an event's function is pushed, too; the arguments
   are popped as if none of them had its place among the locals. *)
ReturnLeavingExtra ==
  /\ Running /\ pc = "code" /\ records # <<>>
  /\ LET back == Last(records)
         left == SubSeq(stack, 1, Len(stack) - func.locals)
     IN /\ stack' = IF executingEvent THEN left ELSE Append(left, "result")
        /\ frame' = back.frame /\ func' = back.func
        /\ actual' = back.params /\ pc' = back.pc
  /\ records' = Front(records)
  /\ executingEvent' = FALSE
  /\ UNCHANGED <<phase, queue, events, listenVars>>

ReturnAlwaysPushing ==
  /\ Running /\ pc = "code" /\ records # <<>>
  /\ LET back == Last(records)
         left == SubSeq(stack, 1, Len(stack) - FrameSize(func, actual))
     IN /\ stack' = Append(left, "result")
        /\ frame' = back.frame /\ func' = back.func
        /\ actual' = back.params /\ pc' = back.pc
  /\ records' = Front(records)
  /\ executingEvent' = FALSE
  /\ UNCHANGED <<phase, queue, events, listenVars>>

ReturnPoppingActual ==
  /\ Running /\ pc = "code" /\ records # <<>>
  /\ LET back == Last(records)
         left == SubSeq(stack, 1, Len(stack) - func.locals - actual)
     IN /\ stack' = IF executingEvent THEN left ELSE Append(left, "result")
        /\ frame' = back.frame /\ func' = back.func
        /\ actual' = back.params /\ pc' = back.pc
  /\ records' = Front(records)
  /\ executingEvent' = FALSE
  /\ UNCHANGED <<phase, queue, events, listenVars>>

(* RET, with or without a value, and END of a function: the frame is popped,
   and the result is pushed unless "we were executing an event".  (The program
   itself does not return: it would fail RET's assertion on its records.) *)
Return ==
  /\ Running /\ pc = "code" /\ records # <<>>
  /\ LET back == Last(records)
         left == SubSeq(stack, 1, Len(stack) - FrameSize(func, actual))
     IN /\ stack' = IF executingEvent THEN left ELSE Append(left, "result")
        /\ frame' = back.frame /\ func' = back.func
        /\ actual' = back.params /\ pc' = back.pc
  /\ records' = Front(records)
  /\ executingEvent' = FALSE
  /\ UNCHANGED <<phase, queue, events, listenVars>>

-----------------------------------------------------------------------------
(* The end of the program's code, the stack having been found in order
   (validateFrame); if it were not, "internal error" is one more Terminate. *)
AtEnd ==
  /\ Running /\ pc \in {"code", "end"} /\ records = <<>>
  /\ frame = 0 /\ Len(stack) = MainLocals

(* END with no event: the program waits for one if somebody listens. *)
NoEvent ==
  /\ AtEnd
  /\ queue = <<>>
  /\ pc' = "end"
  /\ phase' = IF listeners > 0 THEN "between" ELSE "over"
  /\ UNCHANGED <<stack, frame, func, actual, records, eventVars, listenVars>>

(* Faulty variant of TakeEvent: the arguments are left in the queue. *)
TakeEventHeader ==
  /\ queue # <<>>
  /\ queue' = SubSeq(queue, 4, Len(queue))
  /\ executingEvent' = TRUE
  /\ events' = Tail(events)

(* runNextEvent takes the first event off the queue. *)
TakeEvent ==
  /\ queue # <<>>
  /\ queue' = SubSeq(queue, 4 + queue[3], Len(queue))
  /\ executingEvent' = TRUE
  /\ events' = Tail(events)

(* ... and calls a script function, which goes on from here. *)
ScriptEvent ==
  /\ AtEnd
  /\ TakeEvent
  /\ queue[1] \in Function
  /\ StartFunction(queue[1], queue[3], stack \o SubSeq(queue, 4, 3 + queue[3]),
                   "end")
  /\ UNCHANGED <<phase, listenVars>>

(* ... or a native function, whose arguments and values it pops; after an
   error it leaves the arguments there, and the program is over.  (No event's
   function is delay itself, whose arguments would stay on the stack.) *)
NativeEvent ==
  /\ AtEnd
  /\ TakeEvent
  /\ queue[1] = Native
  /\ \/ /\ phase' = IF listeners > 0 THEN "between" ELSE "over"
        /\ stack' = stack
     \/ /\ phase' = "over"
        /\ stack' = stack \o SubSeq(queue, 4, 3 + queue[3])
  /\ pc' = "end"
  /\ UNCHANGED <<frame, func, actual, records, listenVars>>

(* The run task calls continueExecution again. *)
NextSlice ==
  /\ phase = "between"
  /\ phase' = "slice"
  /\ UNCHANGED <<stackVars, eventVars, listenVars>>

(* The program is stopped, has made ten errors, or has come to its end with the
   stack out of order. *)
Terminate ==
  /\ Running
  /\ phase' = "over"
  /\ stack' = <<>>
  /\ UNCHANGED <<frame, func, actual, records, pc, eventVars, listenVars>>

-----------------------------------------------------------------------------
(* fireEvent *)
PutEvent(f, n) ==
  /\ Len(events) < MaxQueue
  /\ queue' = queue \o <<f, "this", n>> \o Copies(n, "local")
  /\ events' = Append(events, [func |-> f, nargs |-> n])

(* A socket's event, at any time *)
SocketEvent(f, n) ==
  /\ open > 0
  /\ PutEvent(f, n)
  /\ UNCHANGED <<stackVars, phase, executingEvent, listenVars>>

(* startEventListening: the program opens a socket or looks up a name. *)
Listen ==
  /\ Running /\ pc = "code"
  /\ open < MaxListeners
  /\ listeners' = (listeners + 1) % (MaxListeners + 1)
  /\ open' = open + 1
  /\ UNCHANGED <<stackVars, phase, eventVars, inherited>>

(* Faulty variant of Answer: an answer leaves the listener counted. *)
AnswerStillListening(f, n) ==
  /\ open > 0
  /\ PutEvent(f, n)
  /\ open' = open - 1
  /\ UNCHANGED <<stackVars, phase, executingEvent, listeners, inherited>>

(* The answer to a lookup: its event, and stopEventListening *)
Answer(f, n) ==
  /\ open > 0
  /\ PutEvent(f, n)
  /\ open' = open - 1
  /\ listeners' = (listeners - 1) % (MaxListeners + 1)
  /\ UNCHANGED <<stackVars, phase, executingEvent, inherited>>

(* stopEventListening: a socket's delegate is deleted. *)
Close ==
  /\ open > 0
  /\ open' = open - 1
  /\ listeners' = (listeners - 1) % (MaxListeners + 1)
  /\ UNCHANGED <<stackVars, phase, eventVars, inherited>>

(* startExecution: whoever is still open answers to the new program. *)
StartExecution ==
  /\ phase = "over"
  /\ stack' = Copies(MainLocals, "main")
  /\ frame' = 0
  /\ func' = Main
  /\ actual' = 0
  /\ records' = <<>>
  /\ pc' = "code"
  /\ phase' = "slice"
  /\ queue' = <<>>
  /\ executingEvent' = FALSE
  /\ listeners' = 0
  /\ events' = <<>>
  /\ open' = open
  /\ inherited' = open

Init ==
  /\ stack = Copies(MainLocals, "main")
  /\ frame = 0
  /\ func = Main
  /\ actual = 0
  /\ records = <<>>
  /\ pc = "code"
  /\ phase = "slice"
  /\ queue = <<>>
  /\ executingEvent = FALSE
  /\ listeners = 0
  /\ open = 0
  /\ inherited = 0
  /\ events = <<>>

Next ==
  \/ \E f \in Function, n \in 0 .. MaxArgs : CallScript(f, n)
  \/ CallNative \/ TakeResult \/ Return
  \/ NoEvent \/ ScriptEvent \/ NativeEvent
  \/ NextSlice \/ Terminate \/ StartExecution
  \/ Listen \/ Close
  \/ \E f \in Function \cup {Native}, n \in 0 .. MaxArgs :
       SocketEvent(f, n) \/ Answer(f, n)

Spec == Init /\ [][Next]_vars

(* The run task goes on with the program, and a slice that has come to the end
   of the code does there what there is to do. *)
FairSpec ==
  /\ Spec
  /\ WF_vars(NextSlice)
  /\ WF_vars(NoEvent \/ ScriptEvent \/ NativeEvent)

-----------------------------------------------------------------------------
Role == {"main", "local", "result"}

TypeOK ==
  /\ stack \in Seq(Role)
  /\ frame \in 0 .. Len(stack) \/ phase = "over"
  /\ func \in Function \cup {Main}
  /\ actual \in 0 .. MaxArgs
  /\ Len(records) <= MaxDepth
  /\ pc \in {"code", "result", "end"}
  /\ phase \in {"slice", "between", "over"}
  /\ executingEvent \in BOOLEAN
  /\ {listeners, open, inherited} \subseteq 0 .. MaxListeners

(* Everything on the stack belongs to a frame: what lies below the frame of a
   function is the frame of its caller, and on top there is a call's result
   or nothing.  So no return leaves a value behind or takes one too many, and
   "internal error" at the program's end (validateFrame) is never reported. *)
StackIsAccounted ==
  phase # "over" =>
    LET Level(i) == IF i = Len(records)
                    THEN [func |-> func, frame |-> frame, params |-> actual]
                    ELSE records[i + 1]
        Top(i) == IF i = Len(records)
                  THEN Len(stack) - (IF pc = "result" THEN 1 ELSE 0)
                  ELSE Level(i + 1).frame
    IN \A i \in 0 .. Len(records) :
         Top(i) = Level(i).frame + FrameSize(Level(i).func, Level(i).params)

(* "Call/new is an expression.  It needs to leave one item on the stack": the
   code behind a call takes the call's own result. *)
ResultOnTop == phase # "over" /\ pc = "result" => Last(stack) = "result"

(* The flat queue is always made of whole events, in the order in which they
   were fired. *)
QueueHoldsEvents ==
  LET n == Len(events)
      Flat(e) == <<e.func, "this", e.nargs>> \o Copies(e.nargs, "local")
  IN \E at \in [1 .. n + 1 -> 1 .. Len(queue) + 1] :
       /\ at[1] = 1 /\ at[n + 1] = Len(queue) + 1
       /\ \A k \in 1 .. n :
            /\ at[k + 1] = at[k] + Len(Flat(events[k]))
            /\ SubSeq(queue, at[k], at[k + 1] - 1) = Flat(events[k])

(* A program that waits at its end for ever waits for somebody who is open,
   unless it was started while somebody of the program before it was: their
   answers take the count below zero. *)
WaitsForSomebody ==
  <>[](phase # "over" /\ pc = "end") => []<>(open > 0 \/ inherited > 0)

=============================================================================

----------------------------- MODULE TimerQueue -----------------------------
(***************************************************************************)
(* What the task list promises its users: tasks start one at a time, in    *)
(* the order of their due times, first come first served among equals, and *)
(* each request starts its task once.                                      *)
(***************************************************************************)
EXTENDS Integers, Sequences

CONSTANTS Task, NoTask, MaxDelay, MaxTime

VARIABLES
  queue,    \* the waiting tasks, in the order they will start
  due,      \* when each task is due
  running,  \* the task that has started and not ended
  clock

vars == <<queue, due, running, clock>>

Waiting == {queue[i] : i \in DOMAIN queue}

(* t joins behind everybody due no later than itself, before everybody due
   later. *)
Enqueue(t) ==
  /\ t \notin Waiting
  /\ \E at \in clock .. MaxTime, ahead \in 0 .. Len(queue) :
       /\ at <= clock + MaxDelay
       /\ \A i \in 1 .. ahead : due[queue[i]] <= at
       /\ \A i \in ahead + 1 .. Len(queue) : due[queue[i]] > at
       /\ queue' = SubSeq(queue, 1, ahead) \o <<t>>
                                           \o SubSeq(queue, ahead + 1, Len(queue))
       /\ due' = [due EXCEPT ![t] = at]

Request(t) == Enqueue(t) /\ UNCHANGED <<running, clock>>

Cancel(t) ==
  /\ \E i \in DOMAIN queue :
       /\ queue[i] = t
       /\ queue' = SubSeq(queue, 1, i - 1) \o SubSeq(queue, i + 1, Len(queue))
  /\ UNCHANGED <<due, running, clock>>

Start ==
  /\ queue # <<>>
  /\ running = NoTask
  /\ running' = Head(queue)
  /\ queue' = Tail(queue)
  /\ UNCHANGED <<due, clock>>

(* A task that ends may ask to be started again. *)
End ==
  /\ running # NoTask
  /\ running' = NoTask
  /\ Enqueue(running) \/ UNCHANGED <<queue, due>>
  /\ clock' = clock

Tick ==
  /\ clock' = clock + 1
  /\ UNCHANGED <<queue, due, running>>

Init ==
  /\ queue = <<>>
  /\ due = [t \in Task |-> -1]
  /\ running = NoTask
  /\ clock = 0

Next ==
  \/ \E t \in Task : Request(t) \/ Cancel(t)
  \/ Start
  \/ End
  \/ Tick

Spec == Init /\ [][Next]_vars

=============================================================================

----------------------------- MODULE TaskQueue -----------------------------
(* The task list as an implementation of the timer queue: the queue is the
   list, read off from its head. *)
EXTENDS TaskManager, Sequences, FiniteSets

(* q goes from the head h along the links n to the end. *)
Follows(q, h, n) ==
  /\ h = IF q = <<>> THEN NoTask ELSE q[1]
  /\ \A i \in DOMAIN q : n[q[i]] = IF i = Len(q) THEN NoTask ELSE q[i + 1]

InOrder(h, n) ==
  LET tasks == Reach(h, n)
  IN CHOOSE q \in [1 .. Cardinality(tasks) -> tasks] : Follows(q, h, n)

Queue == INSTANCE TimerQueue
           WITH queue <- InOrder(head, next), due <- fireAt,
                running <- firing, clock <- now

(* The linked list implements the timer queue: tasks start in due order,
   first come first served among equals, once per request. *)
ImplementsTimerQueue == Queue!Spec

=============================================================================

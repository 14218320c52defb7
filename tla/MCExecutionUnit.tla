-------------------------- MODULE MCExecutionUnit --------------------------
(* Small instances of the execution unit. *)
EXTENDS ExecutionUnit

(* No parameter and no local; one parameter and a local behind it; two
   parameters.  With up to two arguments each is called with too few, too many
   and just enough. *)
Shapes == {[formal |-> 0, locals |-> 0], [formal |-> 1, locals |-> 2],
           [formal |-> 2, locals |-> 2]}

=============================================================================

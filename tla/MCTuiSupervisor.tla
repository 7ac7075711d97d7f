--------------------------- MODULE MCTuiSupervisor ---------------------------
(* Instances of TuiSupervisor: two tasks staged for one pane.                *)
EXTENDS TuiSupervisor

NoFaults == [type |-> 0, unstage |-> 0, reset |-> 0, stop |-> 0, refusal |-> 0, loop |-> 0,
             error |-> 0, again |-> 0]

\* A console's worker: nobody types, the session is replaced between tasks.
Attended == [NoFaults EXCEPT !.reset = 1, !.error = 1]
\* Somebody types a prompt of their own.
Typed == [NoFaults EXCEPT !.type = 1, !.loop = 1]
\* A stage is released.
Released == [NoFaults EXCEPT !.unstage = 1, !.refusal = 1, !.again = 1]
\* The supervisor is stopped.
Stopped == [NoFaults EXCEPT !.stop = 1]

PassFaults == {Attended, Typed, Released, Stopped}
ReleaseOnly == {Released}
==============================================================================

--------------------------- MODULE MCSessionLock ---------------------------
(* Model-checking instance of SessionLock: five clients and a queue of     *)
(* three, so that the queue fills up while a callback runs.                *)
EXTENDS SessionLock

=============================================================================

-------------------------- MODULE MCMessageQueue ---------------------------
(***************************************************************************)
(* Model checking MessageQueue on its own: a queue of two messages.        *)
(***************************************************************************)
EXTENDS MessageQueue

MCCapacity == 2

\* Enough to fill the queue, to have one being dispatched and one being put,
\* and to see one more after a reconnect.
MCMaxMessages == 5
=============================================================================

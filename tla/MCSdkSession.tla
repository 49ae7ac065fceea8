--------------------------- MODULE MCSdkSession -----------------------------
(***************************************************************************)
(* Model checking SdkSession: one or two objects of the middleware, a      *)
(* queue of two messages, and a second session for what the first leaves.  *)
(***************************************************************************)
EXTENDS SdkSession

CONSTANTS h1, h2

MCOneHandle == {h1}
MCTwoHandles == {h1, h2}
MCCapacity == 2
MCMaxMessages == 3
MCFewMessages == 2
MCMaxSessions == 2
MCMaxHttpRetries == 2
=============================================================================

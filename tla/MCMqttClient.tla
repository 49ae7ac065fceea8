--------------------------- MODULE MCMqttClient -----------------------------
(***************************************************************************)
(* Model checking MqttClient on its own: the two objects the middleware    *)
(* has room for, and loops of two turns.                                   *)
(***************************************************************************)
EXTENDS MqttClient

CONSTANTS h1, h2

MCHandles == {h1, h2}
MCMaxConnRetries == 2
MCMaxSubscribeRetries == 2
=============================================================================

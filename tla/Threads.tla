------------------------------ MODULE Threads ------------------------------
(***************************************************************************)
(* The two FreeRTOS tasks that execute the SDK's code.                     *)
(*                                                                         *)
(* app is the program point of the application task: it calls the public   *)
(* API (iotconnect.h) and runs every function of the SDK except the        *)
(* callbacks.  rx is the program point of the MQTT middleware's task: it   *)
(* runs mqtt_event_callback() and everything that calls.  Each module owns *)
(* the labels of the functions it models, and hands control over by moving *)
(* a program point to a label of another module.                           *)
(***************************************************************************)
VARIABLES app, rx

\* The application task goes from one program point to another.
AppGoto(from, to) == app = from /\ app' = to /\ UNCHANGED rx

\* The middleware's task goes from one program point to another.
RxGoto(from, to) == rx = from /\ rx' = to /\ UNCHANGED app
=============================================================================

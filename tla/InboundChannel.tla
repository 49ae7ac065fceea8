-------------------------- MODULE InboundChannel ---------------------------
(***************************************************************************)
(* What the message queue of iotc_mqtt_mq.c promises, with no threads, no  *)
(* memory and no FreeRTOS queue: a bounded, lossy FIFO between the broker  *)
(* and the application.  A message that arrives is decided upon once: it   *)
(* is accepted behind the messages already pending, or rejected.  Pending  *)
(* messages leave from the front only: delivered to the application, at    *)
(* most once each, or discarded by a flush.                                *)
(***************************************************************************)
EXTENDS Naturals, Sequences

CONSTANTS Depth,        \* how many accepted messages may be pending
          MaxMessages   \* bound on the messages that arrive

VARIABLES arrived,      \* messages are numbered in order of arrival: 1..arrived
          undecided,    \* is message number arrived neither accepted nor rejected yet
          pending,      \* accepted, neither delivered nor discarded
          delivered     \* the messages the application has seen

channelVars == <<arrived, undecided, pending, delivered>>

Init == /\ arrived = 0
        /\ undecided = FALSE
        /\ pending = <<>>
        /\ delivered = {}

Arrive == /\ ~undecided
          /\ arrived < MaxMessages
          /\ arrived' = arrived + 1
          /\ undecided' = TRUE
          /\ UNCHANGED <<pending, delivered>>

Accept == /\ undecided
          /\ Len(pending) < Depth
          /\ pending' = Append(pending, arrived)
          /\ undecided' = FALSE
          /\ UNCHANGED <<arrived, delivered>>

Reject == /\ undecided
          /\ undecided' = FALSE
          /\ UNCHANGED <<arrived, pending, delivered>>

Deliver == /\ pending # <<>>
           /\ Head(pending) \notin delivered
           /\ delivered' = delivered \union {Head(pending)}
           /\ pending' = Tail(pending)
           /\ UNCHANGED <<arrived, undecided>>

Discard == /\ pending # <<>>
           /\ pending' = Tail(pending)
           /\ UNCHANGED <<arrived, undecided, delivered>>

Next == Arrive \/ Accept \/ Reject \/ Deliver \/ Discard

Spec == Init /\ [][Next]_channelVars
=============================================================================

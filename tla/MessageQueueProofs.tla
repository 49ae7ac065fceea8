------------------------- MODULE MessageQueueProofs -------------------------
(***************************************************************************)
(* MessageQueue for every Capacity and MaxMessages: IInv is inductive, and *)
(* with it the type invariant, the order of delivery, the account of the   *)
(* heap and the bound on stale messages hold in every behaviour.           *)
(*                                                                         *)
(* What concerns the messages is proved of any steps of the kinds that     *)
(* MessageStep lists, whoever takes them, so that the proofs about         *)
(* SdkSession can use it for applications that MessageQueue does not know. *)
(***************************************************************************)
EXTENDS MessageQueue, SequenceTheorems, TLAPS

\* What the elements of a queue are after a put.
LEMMA AppendElements ==
    ASSUME NEW S, NEW s \in Seq(S), NEW e \in S
    PROVE  /\ Append(s, e) \in Seq(S)
           /\ Len(Append(s, e)) = Len(s) + 1
           /\ \A i \in 1..Len(s) : Append(s, e)[i] = s[i]
           /\ Append(s, e)[Len(s) + 1] = e
           /\ {Append(s, e)[i] : i \in 1..Len(Append(s, e))}
                = {s[i] : i \in 1..Len(s)} \union {e}
<1>1. /\ Append(s, e) \in Seq(S)
      /\ Len(Append(s, e)) = Len(s) + 1
      /\ \A i \in 1..Len(s) : Append(s, e)[i] = s[i]
      /\ Append(s, e)[Len(s) + 1] = e
      /\ Len(s) \in Nat
  OBVIOUS
<1>2. 1..(Len(s) + 1) = 1..Len(s) \union {Len(s) + 1}
  BY <1>1
<1> QED
  BY <1>1, <1>2

\* What the elements of a queue are after a get.
LEMMA TailElements ==
    ASSUME NEW S, NEW s \in Seq(S), s # <<>>
    PROVE  /\ Head(s) \in S
           /\ Head(s) = s[1]
           /\ 1 \in 1..Len(s)
           /\ Tail(s) \in Seq(S)
           /\ Len(Tail(s)) = Len(s) - 1
           /\ \A i \in 1..Len(Tail(s)) : Tail(s)[i] = s[i + 1] /\ i + 1 \in 1..Len(s)
           /\ {s[i] : i \in 1..Len(s)} = {Tail(s)[i] : i \in 1..Len(Tail(s))} \union {Head(s)}
<1>1. /\ Head(s) \in S
      /\ Head(s) = s[1]
      /\ Tail(s) \in Seq(S)
      /\ Len(Tail(s)) = Len(s) - 1
      /\ \A i \in 1..Len(Tail(s)) : Tail(s)[i] = s[i + 1]
      /\ Len(s) \in Nat \ {0}
  BY HeadTailProperties, EmptySeq
<1>2. \A i \in 1..Len(Tail(s)) : i + 1 \in 1..Len(s)
  BY <1>1
<1>3. ASSUME NEW j \in 1..Len(s), j # 1
      PROVE  j - 1 \in 1..Len(Tail(s)) /\ s[j] = Tail(s)[j - 1]
  <2>1. j - 1 \in 1..Len(Tail(s)) /\ (j - 1) + 1 = j
    BY <1>1, <1>3
  <2>2. Tail(s)[j - 1] = s[(j - 1) + 1]
    BY <1>1, <2>1
  <2> QED
    BY <2>1, <2>2
<1>4. {s[i] : i \in 1..Len(s)} \subseteq {Tail(s)[i] : i \in 1..Len(Tail(s))} \union {Head(s)}
  <2> SUFFICES ASSUME NEW j \in 1..Len(s)
               PROVE  s[j] \in {Tail(s)[i] : i \in 1..Len(Tail(s))} \union {Head(s)}
    OBVIOUS
  <2> QED
    BY <1>1, <1>3
<1>5. {Tail(s)[i] : i \in 1..Len(Tail(s))} \union {Head(s)} \subseteq {s[i] : i \in 1..Len(s)}
  BY <1>1, <1>2
<1> QED
  BY <1>1, <1>2, <1>4, <1>5

\* An empty queue.
LEMMA NoElements ==
    ASSUME NEW q, q = <<>>
    PROVE  /\ q \in Seq(1..MaxMessages)
           /\ Len(q) = 0
           /\ Len(q) <= Capacity
           /\ {q[i] : i \in 1..Len(q)} = {}
<1>1. q \in Seq(1..MaxMessages) /\ Len(q) = 0
  BY EmptySeq
<1>2. 0 <= Capacity
  BY CapacityAssumption
<1>3. 1..0 = {}
  OBVIOUS
<1> QED
  BY <1>1, <1>2, <1>3

-----------------------------------------------------------------------------
(* Where messages are: the variables of MessageQueue that hold them.       *)

MessagesOK == /\ cyQueue \in Seq(1..MaxMessages)
              /\ Len(cyQueue) <= Capacity
              /\ heap \subseteq 1..MaxMessages
              /\ rxMsg \in 0..MaxMessages
              /\ appMsg \in 0..MaxMessages
              /\ received \in 0..MaxMessages
              /\ delivered \subseteq 1..MaxMessages

\* The other variables.
ControlOK == /\ app \in AppPoints
             /\ rx \in RxPoints
             /\ queueState \in {"absent", "ready", "deleted"}
             /\ isInitialized \in BOOLEAN
             /\ clientMsgCb \in BOOLEAN

LEMMA TypeParts == TypeOK <=> MessagesOK /\ ControlOK
  BY DEF TypeOK, QueueTypeOK, MessagesOK, ControlOK

-----------------------------------------------------------------------------
(* The two ways in which the contents of the queue change.                 *)

LEMMA PutQueued ==
    ASSUME MessagesOK, Numbered, PutMessage
    PROVE  /\ cyQueue' \in Seq(1..MaxMessages)
           /\ Len(cyQueue') = Len(cyQueue) + 1
           /\ \A i \in 1..Len(cyQueue) : cyQueue'[i] = cyQueue[i]
           /\ cyQueue'[Len(cyQueue) + 1] = rxMsg
           /\ Queued' = Queued \union {rxMsg}
<1>1. rxMsg \in 1..MaxMessages
  BY DEF Numbered, MessagesOK, PutMessage, RxGoto, InFlight
<1> QED
  BY <1>1, AppendElements DEF MessagesOK, PutMessage, Queued

LEMMA TakeQueued ==
    ASSUME MessagesOK, cyQueue # <<>>, cyQueue' = Tail(cyQueue)
    PROVE  /\ cyQueue' \in Seq(1..MaxMessages)
           /\ Len(cyQueue') = Len(cyQueue) - 1
           /\ Head(cyQueue) = cyQueue[1]
           /\ 1 \in 1..Len(cyQueue)
           /\ \A i \in 1..Len(cyQueue') : cyQueue'[i] = cyQueue[i + 1] /\ i + 1 \in 1..Len(cyQueue)
           /\ Queued = Queued' \union {Head(cyQueue)}
<1>1. cyQueue \in Seq(1..MaxMessages)
  BY DEF MessagesOK
<1>2. /\ Tail(cyQueue) \in Seq(1..MaxMessages)
      /\ Len(Tail(cyQueue)) = Len(cyQueue) - 1
      /\ Head(cyQueue) = cyQueue[1]
      /\ 1 \in 1..Len(cyQueue)
      /\ \A i \in 1..Len(Tail(cyQueue)) :
            Tail(cyQueue)[i] = cyQueue[i + 1] /\ i + 1 \in 1..Len(cyQueue)
      /\ {cyQueue[i] : i \in 1..Len(cyQueue)}
            = {Tail(cyQueue)[i] : i \in 1..Len(Tail(cyQueue))} \union {Head(cyQueue)}
  BY <1>1, TailElements
<1>3. Queued' = {Tail(cyQueue)[i] : i \in 1..Len(Tail(cyQueue))}
  BY DEF Queued
<1> QED
  BY <1>2, <1>3 DEF Queued

\* The message taken is older than those it leaves behind.
LEMMA HeadIsOldest ==
    ASSUME MessagesOK, InOrder, cyQueue # <<>>, cyQueue' = Tail(cyQueue)
    PROVE  \A n \in Queued' : Head(cyQueue) < n
<1>1. SUFFICES ASSUME NEW i \in 1..Len(cyQueue')
               PROVE  Head(cyQueue) < cyQueue'[i]
  BY DEF Queued
<1>2. Len(cyQueue) \in Nat
  BY DEF MessagesOK
<1>3. /\ Head(cyQueue) = cyQueue[1] /\ 1 \in 1..Len(cyQueue)
      /\ cyQueue'[i] = cyQueue[i + 1] /\ i + 1 \in 1..Len(cyQueue)
      /\ Len(cyQueue') = Len(cyQueue) - 1
  BY TakeQueued
<1> QED
  BY <1>2, <1>3 DEF InOrder

\* What it leaves behind keeps its order.
LEMMA TailInOrder ==
    ASSUME MessagesOK, InOrder, cyQueue # <<>>, cyQueue' = Tail(cyQueue)
    PROVE  \A i, j \in 1..Len(cyQueue') : i < j => cyQueue'[i] < cyQueue'[j]
<1>1. SUFFICES ASSUME NEW i \in 1..Len(cyQueue'), NEW j \in 1..Len(cyQueue'), i < j
               PROVE  cyQueue'[i] < cyQueue'[j]
  OBVIOUS
<1>2. /\ cyQueue'[i] = cyQueue[i + 1] /\ i + 1 \in 1..Len(cyQueue)
      /\ cyQueue'[j] = cyQueue[j + 1] /\ j + 1 \in 1..Len(cyQueue)
  BY TakeQueued
<1>3. i + 1 < j + 1
  BY <1>1
<1>4. cyQueue[i + 1] < cyQueue[j + 1]
  BY <1>2, <1>3 DEF InOrder
<1> QED
  BY <1>2, <1>4

-----------------------------------------------------------------------------
(* The steps, for the invariants that speak of messages.  Only seven kinds *)
(* touch a variable these read; the rest move a program point.             *)

\* A message arrives at the inbound function.
Arrives == /\ rx \notin InFlight /\ rx' \in InFlight \ {"mq.put"}
           /\ UNCHANGED app
           /\ NewMessage

\* client_msg_cb returns to the loop, or disconnects.
DispatchStep == DispatchTo("poll.get") \/ DispatchTo("disc.flush1")

FlushPoints == {"disc.flush1", "disc.flush2", "fini.flush1"}

FlushStep == \E at \in FlushPoints : FlushOne(at)

\* Steps that leave all messages where they are and start no handling of one.
Quiet == /\ UNCHANGED <<cyQueue, heap, rxMsg, appMsg, received, delivered>>
         /\ app' = "poll.dispatch" => app = "poll.dispatch"
         /\ app = "poll.dispatch" => app' = "poll.dispatch"
         /\ rx' \in InFlight => rx \in InFlight
         /\ rx = "mq.put" <=> rx' = "mq.put"

\* InitQueue() and DeleteQueue() change a queue that is empty.
EmptyQueue == /\ cyQueue = <<>> /\ cyQueue' = <<>>
              /\ app \in {"none", "fini.delete"}
              /\ app' # "poll.dispatch"
              /\ UNCHANGED <<rx, heap, rxMsg, appMsg, received, delivered>>

MessageStep == \/ Arrives \/ CreateMessage \/ PutMessage \/ PutTimeout
               \/ GetMessage \/ DispatchStep
               \/ FlushStep \/ Quiet \/ EmptyQueue

-----------------------------------------------------------------------------
(* Messages have their types, and the queue its limit.                     *)

LEMMA MessagesStep ==
    ASSUME MessagesOK, Numbered, MessageStep
    PROVE  MessagesOK'
<1> USE MaxMessagesAssumption, CapacityAssumption DEF InFlight
<1>1. CASE Arrives
  BY <1>1 DEF Arrives, NewMessage, MessagesOK
<1>2. CASE CreateMessage
  <2>1. rxMsg \in 1..MaxMessages
    BY <1>2 DEF CreateMessage, RxGoto, Numbered, MessagesOK
  <2> QED
    BY <1>2, <2>1 DEF CreateMessage, MessagesOK
<1>3. CASE PutMessage
  <2>1. /\ cyQueue' \in Seq(1..MaxMessages)
        /\ Len(cyQueue') = Len(cyQueue) + 1
        /\ Len(cyQueue) \in Nat
    BY <1>3, PutQueued DEF MessagesOK
  <2> QED
    BY <1>3, <2>1 DEF PutMessage, MessagesOK
<1>4. CASE PutTimeout
  BY <1>4 DEF PutTimeout, MessagesOK
<1>5. CASE GetMessage
  <2>1. /\ cyQueue' \in Seq(1..MaxMessages)
        /\ Len(cyQueue') = Len(cyQueue) - 1
        /\ Len(cyQueue) \in Nat
        /\ Head(cyQueue) \in 1..MaxMessages
    BY <1>5, TakeQueued, TailElements DEF GetMessage, MessagesOK
  <2> QED
    BY <1>5, <2>1 DEF GetMessage, MessagesOK
<1>6. CASE DispatchStep
  <2>1. appMsg \in 1..MaxMessages
    BY <1>6 DEF DispatchStep, DispatchTo, AppGoto, Numbered, MessagesOK
  <2>2. /\ appMsg' = 0 /\ delivered' = delivered \union {appMsg}
        /\ UNCHANGED <<cyQueue, heap, rxMsg, received>>
    BY <1>6 DEF DispatchStep, DispatchTo, NoMsg
  <2> QED
    BY <2>1, <2>2 DEF MessagesOK
<1>7. CASE FlushStep
  <2>1. PICK at \in FlushPoints : FlushOne(at)
    BY <1>7 DEF FlushStep
  <2>2. /\ cyQueue' \in Seq(1..MaxMessages)
        /\ Len(cyQueue') = Len(cyQueue) - 1
        /\ Len(cyQueue) \in Nat
    BY <2>1, TakeQueued DEF FlushOne, MessagesOK
  <2>3. heap' \subseteq 1..MaxMessages
    BY <2>1 DEF FlushOne, MessagesOK
  <2> QED
    BY <2>1, <2>2, <2>3 DEF FlushOne, MessagesOK
<1>8. CASE Quiet
  BY <1>8 DEF Quiet, MessagesOK
<1>9. CASE EmptyQueue
  <2>1. cyQueue' \in Seq(1..MaxMessages) /\ Len(cyQueue') <= Capacity
    BY <1>9, NoElements DEF EmptyQueue
  <2> QED
    BY <1>9, <2>1 DEF EmptyQueue, MessagesOK
<1> QED
  BY <1>1, <1>2, <1>3, <1>4, <1>5, <1>6, <1>7, <1>8, <1>9 DEF MessageStep

-----------------------------------------------------------------------------
(* Messages are numbered by their arrival.                                 *)

LEMMA NumberedStep ==
    ASSUME MessagesOK, Numbered, MessageStep
    PROVE  Numbered'
<1> USE DEF InFlight
<1>0. /\ received \in Nat /\ rxMsg \in Nat /\ appMsg \in Nat
      /\ Queued \union delivered \subseteq 1..received
  BY MaxMessagesAssumption DEF MessagesOK, Numbered
<1>1. CASE Arrives
  <2>1. received' = received + 1 /\ rxMsg' = received + 1
    BY <1>1 DEF Arrives, NewMessage
  <2>2. 1..received \subseteq 1..received'
    BY <1>0, <2>1
  <2>3. Queued' = Queued /\ UNCHANGED <<app, appMsg, delivered>>
    BY <1>1 DEF Arrives, NewMessage, Queued
  <2> QED
    BY <1>0, <2>1, <2>2, <2>3 DEF Numbered
<1>2. CASE CreateMessage \/ PutTimeout
  <2>1. Queued' = Queued /\ UNCHANGED <<app, appMsg, rxMsg, received, delivered>>
    BY <1>2 DEF CreateMessage, PutTimeout, RxGoto, Queued
  <2> QED
    BY <1>2, <2>1 DEF Numbered, CreateMessage, PutTimeout, RxGoto
<1>3. CASE PutMessage
  <2>1. Queued' = Queued \union {rxMsg}
    BY <1>3, PutQueued
  <2>2. rxMsg \in 1..received
    BY <1>3 DEF PutMessage, RxGoto, Numbered
  <2> QED
    BY <1>3, <2>1, <2>2 DEF Numbered, PutMessage, RxGoto
<1>4. CASE GetMessage
  <2>1. Queued = Queued' \union {Head(cyQueue)}
    BY <1>4, TakeQueued DEF GetMessage
  <2> QED
    BY <1>4, <2>1 DEF Numbered, GetMessage, AppGoto
<1>5. CASE DispatchStep
  <2>1. Queued' = Queued /\ delivered' = delivered \union {appMsg} /\ appMsg \in 1..received
    BY <1>5 DEF DispatchStep, DispatchTo, AppGoto, Numbered, Queued
  <2> QED
    BY <1>5, <2>1 DEF Numbered, DispatchStep, DispatchTo, AppGoto
<1>6. CASE FlushStep
  <2>1. PICK at \in FlushPoints : FlushOne(at)
    BY <1>6 DEF FlushStep
  <2>2. Queued = Queued' \union {Head(cyQueue)}
    BY <2>1, TakeQueued DEF FlushOne
  <2> QED
    BY <2>1, <2>2 DEF Numbered, FlushOne, AppGoto, FlushPoints
<1>7. CASE Quiet
  <2>1. Queued' = Queued
    BY <1>7 DEF Quiet, Queued
  <2> QED
    BY <1>7, <2>1 DEF Numbered, Quiet
<1>8. CASE EmptyQueue
  <2>1. Queued' = {}
    BY <1>8, NoElements DEF EmptyQueue, Queued
  <2> QED
    BY <1>8, <2>1 DEF Numbered, EmptyQueue
<1> QED
  BY <1>1, <1>2, <1>3, <1>4, <1>5, <1>6, <1>7, <1>8 DEF MessageStep

-----------------------------------------------------------------------------
(* Messages stay in the order of their arrival.                            *)

LEMMA InOrderStep ==
    ASSUME MessagesOK, Numbered, InOrder, MessageStep
    PROVE  InOrder'
<1> USE DEF InFlight
<1>0. /\ received \in Nat /\ rxMsg \in Nat /\ appMsg \in Nat /\ Len(cyQueue) \in Nat
      /\ Queued \union delivered \subseteq 1..received
      /\ \A i \in 1..Len(cyQueue) : cyQueue[i] \in Nat /\ cyQueue[i] \in Queued
  BY MaxMessagesAssumption DEF MessagesOK, Numbered, Queued
<1>1. CASE Arrives
  <2>1. received' = received + 1 /\ rxMsg' = received + 1
    BY <1>1 DEF Arrives, NewMessage
  <2>2. Queued' = Queued /\ UNCHANGED <<app, appMsg, delivered, cyQueue>>
    BY <1>1 DEF Arrives, NewMessage, Queued
  <2>3. \A m \in delivered \union Queued : m < rxMsg'
    BY <1>0, <2>1
  <2>4. app = "poll.dispatch" => appMsg < rxMsg'
    BY <1>0, <2>1 DEF Numbered
  <2> QED
    BY <2>2, <2>3, <2>4 DEF InOrder
<1>2. CASE CreateMessage \/ PutTimeout
  <2>1. Queued' = Queued /\ UNCHANGED <<app, appMsg, rxMsg, received, delivered, cyQueue>>
    BY <1>2 DEF CreateMessage, PutTimeout, RxGoto, Queued
  <2>2. rx' \in InFlight => rx \in InFlight
    BY <1>2 DEF CreateMessage, PutTimeout, RxGoto
  <2> QED
    BY <2>1, <2>2 DEF InOrder
<1>3. CASE PutMessage
  <2>1. /\ Len(cyQueue') = Len(cyQueue) + 1
        /\ \A i \in 1..Len(cyQueue) : cyQueue'[i] = cyQueue[i]
        /\ cyQueue'[Len(cyQueue) + 1] = rxMsg
        /\ Queued' = Queued \union {rxMsg}
    BY <1>3, PutQueued
  <2>2. /\ rx = "mq.put" /\ rx' \notin InFlight
        /\ UNCHANGED <<app, appMsg, delivered>>
    BY <1>3 DEF PutMessage, RxGoto
  <2>3. \A m \in delivered \union Queued : m < rxMsg
    BY <2>2 DEF InOrder
  <2>4. ASSUME NEW i \in 1..Len(cyQueue'), NEW j \in 1..Len(cyQueue'), i < j
        PROVE  cyQueue'[i] < cyQueue'[j]
    <3>1. i \in 1..Len(cyQueue) /\ cyQueue'[i] = cyQueue[i]
      BY <1>0, <2>1, <2>4
    <3>2. CASE j \in 1..Len(cyQueue)
      BY <2>1, <2>4, <3>1, <3>2 DEF InOrder
    <3>3. CASE j = Len(cyQueue) + 1
      BY <1>0, <2>1, <2>3, <3>1, <3>3
    <3> QED
      BY <1>0, <2>1, <3>2, <3>3
  <2>5. \A m \in delivered', n \in Queued' : m < n
    BY <2>1, <2>2, <2>3 DEF InOrder
  <2>6. app' = "poll.dispatch" => /\ \A m \in delivered' : m < appMsg'
                                 /\ \A n \in Queued' : appMsg' < n
    BY <2>1, <2>2 DEF InOrder
  <2> QED
    BY <2>2, <2>4, <2>5, <2>6 DEF InOrder
<1>4. CASE GetMessage
  <2>1. /\ Len(cyQueue') = Len(cyQueue) - 1
        /\ \A i \in 1..Len(cyQueue') : cyQueue'[i] = cyQueue[i + 1] /\ i + 1 \in 1..Len(cyQueue)
        /\ Queued = Queued' \union {Head(cyQueue)}
        /\ \A n \in Queued' : Head(cyQueue) < n
    BY <1>4, TakeQueued, HeadIsOldest DEF GetMessage
  <2>2. /\ appMsg' = Head(cyQueue) /\ app' = "poll.dispatch"
        /\ UNCHANGED <<rx, rxMsg, delivered>>
    BY <1>4 DEF GetMessage, AppGoto
  <2>3. \A i, j \in 1..Len(cyQueue') : i < j => cyQueue'[i] < cyQueue'[j]
    BY <1>4, TailInOrder DEF GetMessage
  <2>4. /\ \A m \in delivered', n \in Queued' : m < n
        /\ \A m \in delivered' : m < appMsg'
        /\ \A n \in Queued' : appMsg' < n
    BY <2>1, <2>2 DEF InOrder
  <2>5. rx' \in InFlight => /\ \A m \in delivered' \union Queued' : m < rxMsg'
                            /\ appMsg' < rxMsg'
    BY <2>1, <2>2 DEF InOrder
  <2> QED
    BY <2>3, <2>4, <2>5 DEF InOrder
<1>5. CASE DispatchStep
  <2>1. /\ app = "poll.dispatch" /\ app' # "poll.dispatch"
        /\ delivered' = delivered \union {appMsg}
        /\ Queued' = Queued /\ UNCHANGED <<rx, rxMsg, cyQueue>>
    BY <1>5 DEF DispatchStep, DispatchTo, AppGoto, Queued
  <2> QED
    BY <2>1 DEF InOrder
<1>6. CASE FlushStep
  <2>1. PICK at \in FlushPoints : FlushOne(at)
    BY <1>6 DEF FlushStep
  <2>2. /\ Len(cyQueue') = Len(cyQueue) - 1
        /\ \A i \in 1..Len(cyQueue') : cyQueue'[i] = cyQueue[i + 1] /\ i + 1 \in 1..Len(cyQueue)
        /\ Queued = Queued' \union {Head(cyQueue)}
    BY <2>1, TakeQueued DEF FlushOne
  <2>3. app' # "poll.dispatch" /\ UNCHANGED <<rx, rxMsg, delivered>>
    BY <2>1 DEF FlushOne, AppGoto, FlushPoints
  <2>4. \A i, j \in 1..Len(cyQueue') : i < j => cyQueue'[i] < cyQueue'[j]
    BY <2>1, TailInOrder DEF FlushOne
  <2> QED
    BY <2>2, <2>3, <2>4 DEF InOrder
<1>7. CASE Quiet
  <2>1. Queued' = Queued
    BY <1>7 DEF Quiet, Queued
  <2> QED
    BY <1>7, <2>1 DEF InOrder, Quiet
<1>8. CASE EmptyQueue
  <2>1. Queued' = {} /\ Queued = {} /\ Len(cyQueue') = 0
    BY <1>8, NoElements DEF EmptyQueue, Queued
  <2>2. 1..Len(cyQueue') = {}
    BY <2>1
  <2> QED
    BY <1>8, <2>1, <2>2 DEF InOrder, EmptyQueue
<1> QED
  BY <1>1, <1>2, <1>3, <1>4, <1>5, <1>6, <1>7, <1>8 DEF MessageStep

-----------------------------------------------------------------------------
(* The account of the heap.  That a freed copy has only one owner is where *)
(* the order of the messages is needed: it tells them apart.               *)

LEMMA HeapExactStep ==
    ASSUME MessagesOK, Numbered, InOrder, HeapExact, MessageStep
    PROVE  HeapExact'
<1> USE DEF InFlight
<1>0. /\ received \in Nat /\ rxMsg \in Nat /\ appMsg \in Nat
      /\ \A n \in Queued \union delivered : n \in Nat
  BY MaxMessagesAssumption DEF MessagesOK, Numbered
<1>1. CASE Arrives
  <2>1. Queued' = Queued /\ UNCHANGED <<app, appMsg, delivered, heap>>
    BY <1>1 DEF Arrives, NewMessage, Queued
  <2>2. rx # "mq.put" /\ rx' # "mq.put"
    BY <1>1 DEF Arrives
  <2> QED
    BY <2>1, <2>2 DEF HeapExact
<1>2. CASE CreateMessage
  <2>1. Queued' = Queued /\ UNCHANGED <<app, appMsg, rxMsg, delivered>> /\ rx = "mq.create"
    BY <1>2 DEF CreateMessage, RxGoto, Queued
  <2>2. \/ rx' = "mq.put" /\ heap' = heap \union {rxMsg}
        \/ rx' = "rx.done" /\ heap' = heap
    BY <1>2 DEF CreateMessage, RxGoto
  <2> QED
    BY <2>1, <2>2 DEF HeapExact
<1>3. CASE PutTimeout
  <2>1. /\ Queued' = Queued /\ UNCHANGED <<app, appMsg, delivered>>
        /\ rx = "mq.put" /\ rx' = "rx.done" /\ heap' = heap \ {rxMsg}
    BY <1>3 DEF PutTimeout, RxGoto, Queued
  <2>2. /\ rxMsg \notin Queued /\ rxMsg \notin delivered
        /\ app = "poll.dispatch" => appMsg # rxMsg
    BY <1>0, <2>1 DEF InOrder
  <2> QED
    BY <2>1, <2>2 DEF HeapExact
<1>4. CASE PutMessage
  <2>1. /\ Queued' = Queued \union {rxMsg} /\ UNCHANGED <<app, appMsg, delivered, heap>>
        /\ rx = "mq.put" /\ rx' = "rx.done"
    BY <1>4, PutQueued DEF PutMessage, RxGoto
  <2> QED
    BY <2>1 DEF HeapExact
<1>5. CASE GetMessage
  <2>1. /\ Queued = Queued' \union {Head(cyQueue)}
        /\ UNCHANGED <<rx, rxMsg, delivered, heap>> /\ appMsg' = Head(cyQueue)
        /\ app = "poll.get" /\ app' = "poll.dispatch"
    BY <1>5, TakeQueued DEF GetMessage, AppGoto
  <2> QED
    BY <2>1 DEF HeapExact
<1>6. CASE DispatchStep
  <2>1. /\ app = "poll.dispatch" /\ app' # "poll.dispatch"
        /\ delivered' = delivered \union {appMsg}
        /\ Queued' = Queued /\ UNCHANGED <<rx, rxMsg, heap>>
    BY <1>6 DEF DispatchStep, DispatchTo, AppGoto, Queued
  <2> QED
    BY <2>1 DEF HeapExact
<1>7. CASE FlushStep
  <2>1. PICK at \in FlushPoints : FlushOne(at)
    BY <1>7 DEF FlushStep
  <2>2. /\ Queued = Queued' \union {Head(cyQueue)}
        /\ \A n \in Queued' : Head(cyQueue) < n
    BY <2>1, TakeQueued, HeadIsOldest DEF FlushOne
  <2>3. /\ app # "poll.dispatch" /\ app' # "poll.dispatch"
        /\ UNCHANGED <<rx, rxMsg, delivered>> /\ heap' = heap \ {Head(cyQueue)}
    BY <2>1 DEF FlushOne, AppGoto, FlushPoints
  <2>4. /\ Head(cyQueue) \notin Queued' /\ Head(cyQueue) \notin delivered
        /\ rx = "mq.put" => Head(cyQueue) # rxMsg
    <3>1. Head(cyQueue) \in Queued /\ Head(cyQueue) \in Nat
      BY <1>0, <2>2
    <3>2. /\ \A m \in delivered : m < Head(cyQueue)
          /\ rx = "mq.put" => Head(cyQueue) < rxMsg
      BY <3>1 DEF InOrder
    <3> QED
      BY <1>0, <2>2, <3>1, <3>2
  <2> QED
    BY <2>2, <2>3, <2>4 DEF HeapExact
<1>8. CASE Quiet
  <2>1. Queued' = Queued
    BY <1>8 DEF Quiet, Queued
  <2> QED
    BY <1>8, <2>1 DEF HeapExact, Quiet
<1>9. CASE EmptyQueue
  <2>1. Queued' = {} /\ Queued = {}
    BY <1>9, NoElements DEF EmptyQueue, Queued
  <2> QED
    BY <1>9, <2>1 DEF HeapExact, EmptyQueue
<1> QED
  BY <1>1, <1>2, <1>3, <1>4, <1>5, <1>6, <1>7, <1>8, <1>9 DEF MessageStep

-----------------------------------------------------------------------------
(* All that concerns the messages.                                         *)

Messages == MessagesOK /\ Numbered /\ InOrder /\ HeapExact

LEMMA MessagesInvStep ==
    ASSUME Messages, MessageStep
    PROVE  Messages'
  BY MessagesStep, NumberedStep, InOrderStep, HeapExactStep DEF Messages

-----------------------------------------------------------------------------
(* The steps of the module on its own are of these kinds.                  *)

LEMMA StepKinds ==
    ASSUME Deregistered, [Next]_vars
    PROVE  MessageStep
<1> USE DEF Quiet, EmptyQueue, InFlight, mqVars, AppGoto, RxGoto, FlushPoints
<1>1. CheckInbound => Quiet
  BY DEF CheckInbound
<1>2. InboundReturn \/ GetTimeout \/ ProcessCall => Quiet
  BY DEF InboundReturn, GetTimeout, ProcessCall, ProcessEnter
<1>3. OpenSession \/ Registered => Quiet
  BY DEF OpenSession, Registered, Register
<1>4. InitQueue("none", TRUE, "off") \/ InitQueue("none", FALSE, "none") => EmptyQueue
  BY DEF InitQueue, Deregistered
<1>5. DisconnectCall \/ DeinitCall \/ CloseSession => Quiet
  BY DEF DisconnectCall, DeinitCall, CloseSession
<1>6. /\ FlushDone("disc.flush1", "disc.clear") \/ FlushDone("disc.flush2", "disc.close") => Quiet
      /\ FlushDone("fini.flush1", "fini.clear") \/ FlushDone("fini.flush2", "fini.delete") => Quiet
  BY DEF FlushDone
<1>7. ClearCallback("disc.clear", "disc.flush2") \/ ClearCallback("fini.clear", "fini.flush2")
        => Quiet
  BY DEF ClearCallback
<1>8. DeleteQueue("fini.delete", "none") => EmptyQueue
  BY DEF DeleteQueue, Deregistered, Closing
<1>9. UNCHANGED vars => Quiet
  BY DEF vars
<1>10. FlushOne("disc.flush1") \/ FlushOne("disc.flush2") \/ FlushOne("fini.flush1")
         => FlushStep
  BY DEF FlushStep
<1> HIDE DEF Quiet, EmptyQueue, InFlight, mqVars, AppGoto, RxGoto, FlushPoints
<1>11. Inbound => CreateMessage \/ PutMessage \/ PutTimeout \/ Quiet
  BY <1>1, <1>2 DEF Inbound
<1>12. ProcessCall \/ Process \/ GetTimeout => GetMessage \/ DispatchStep \/ Quiet
  BY <1>2 DEF Process, DispatchStep
<1>13. SetUp \/ OpenSession \/ Registered => Quiet \/ EmptyQueue
  BY <1>3, <1>4 DEF SetUp
<1>14. DisconnectCall \/ Disconnect => Quiet \/ FlushStep
  BY <1>5, <1>6, <1>7, <1>10 DEF Disconnect
<1>15. DeinitCall \/ Deinit => Quiet \/ EmptyQueue \/ FlushStep
  BY <1>5, <1>6, <1>7, <1>8, <1>10 DEF Deinit
<1>16. Receive => Arrives
  BY DEF Receive, Arrives, RxGoto, InFlight
<1> QED
  BY <1>9, <1>11, <1>12, <1>13, <1>14, <1>15, <1>16 DEF Next, MessageStep

LEMMA ControlStep ==
    ASSUME ControlOK, [Next]_vars
    PROVE  ControlOK'
<1> USE DEF ControlOK, AppPoints, RxPoints, InFlight, Polling, Disconnecting, Closing, mqVars,
            AppGoto, RxGoto
<1>1. CASE Receive \/ Inbound
  BY <1>1 DEF Receive, NewMessage, Inbound, CheckInbound, CreateMessage, PutMessage, PutTimeout,
              InboundReturn
<1>2. CASE SetUp \/ OpenSession \/ Registered
  BY <1>2 DEF SetUp, OpenSession, Registered, InitQueue, Register
<1>3. CASE ProcessCall \/ Process \/ GetTimeout
  BY <1>3 DEF ProcessCall, ProcessEnter, Process, GetMessage, GetTimeout, DispatchTo
<1>4. CASE DisconnectCall \/ Disconnect
  BY <1>4 DEF DisconnectCall, Disconnect, FlushOne, FlushDone, ClearCallback, CloseSession
<1>5. CASE DeinitCall \/ Deinit
  BY <1>5 DEF DeinitCall, Deinit, FlushOne, FlushDone, ClearCallback, DeleteQueue
<1>6. CASE UNCHANGED vars
  BY <1>6 DEF vars
<1> QED
  BY <1>1, <1>2, <1>3, <1>4, <1>5, <1>6 DEF Next

-----------------------------------------------------------------------------
(* Control: where the tasks can be when the callback is not registered.    *)

LEMMA DeregisteredStep ==
    ASSUME TypeOK, Deregistered, AtMostOneStale, [Next]_vars
    PROVE  Deregistered' /\ AtMostOneStale'
<1> USE DEF Deregistered, AtMostOneStale, Closing, Polling
<1>0. Len(cyQueue) \in Nat /\ (cyQueue = <<>> => Len(cyQueue) = 0)
  BY DEF TypeOK, QueueTypeOK
<1>1. CASE Receive
  BY <1>1 DEF Receive, RxGoto, NewMessage, SessionOpen, Polling, Disconnecting
<1>2. CASE CheckInbound \/ CreateMessage \/ PutTimeout \/ InboundReturn
  BY <1>2 DEF CheckInbound, CreateMessage, PutTimeout, InboundReturn, RxGoto, mqVars
<1>3. CASE PutMessage
  <2>1. Len(cyQueue') = Len(cyQueue) + 1
    BY <1>3, AppendElements DEF PutMessage, TypeOK, QueueTypeOK
  <2> QED
    BY <1>0, <1>3, <2>1 DEF PutMessage, RxGoto
<1>4. CASE GetMessage \/ GetTimeout \/ ProcessCall \/ DispatchStep
  BY <1>4 DEF GetMessage, GetTimeout, ProcessCall, ProcessEnter, DispatchStep, DispatchTo, AppGoto, mqVars
<1>5. CASE SetUp \/ OpenSession \/ Registered
  <2>1. cyQueue' = <<>> => Len(cyQueue') = 0
    BY NoElements
  <2> QED
    BY <1>5, <2>1 DEF SetUp, OpenSession, Registered, InitQueue, Register, AppGoto, mqVars
<1>6. CASE DisconnectCall \/ DeinitCall \/ CloseSession
  BY <1>6 DEF DisconnectCall, DeinitCall, CloseSession, AppGoto, mqVars
<1>7. CASE FlushStep
  BY <1>7 DEF FlushStep, FlushPoints, FlushOne, AppGoto
<1>8. CASE \/ FlushDone("disc.flush1", "disc.clear") \/ FlushDone("disc.flush2", "disc.close")
           \/ FlushDone("fini.flush1", "fini.clear") \/ FlushDone("fini.flush2", "fini.delete")
  BY <1>0, <1>8 DEF FlushDone, AppGoto, mqVars
<1>9. CASE ClearCallback("disc.clear", "disc.flush2") \/ ClearCallback("fini.clear", "fini.flush2")
  BY <1>9 DEF ClearCallback, AppGoto
<1>10. CASE DeleteQueue("fini.delete", "none")
  BY <1>10 DEF DeleteQueue, AppGoto
<1>11. CASE UNCHANGED vars
  BY <1>11 DEF vars, mqVars
<1>12. FlushOne("disc.flush1") \/ FlushOne("disc.flush2") \/ FlushOne("fini.flush1")
         => FlushStep
  BY DEF FlushStep, FlushPoints
<1> HIDE DEF Deregistered, AtMostOneStale
<1> QED
  BY <1>1, <1>2, <1>3, <1>4, <1>5, <1>6, <1>7, <1>8, <1>9, <1>10, <1>11, <1>12
     DEF Next, Inbound, Process, DispatchStep, Disconnect, Deinit

-----------------------------------------------------------------------------
(* The theorems.                                                           *)

LEMMA InitIInv == Init => IInv
<1> SUFFICES ASSUME Init PROVE IInv
  OBVIOUS
<1>1. /\ cyQueue \in Seq(1..MaxMessages) /\ Len(cyQueue) = 0 /\ Len(cyQueue) <= Capacity
      /\ cyQueue = <<>> /\ Queued = {}
  BY NoElements DEF Init, MqInit, Queued
<1>2. /\ app = "none" /\ rx = "idle" /\ queueState = "absent"
      /\ isInitialized = FALSE /\ clientMsgCb = FALSE
      /\ heap = {} /\ delivered = {} /\ rxMsg = 0 /\ appMsg = 0 /\ received = 0
  BY DEF Init, MqInit, NoMsg
<1>3. TypeOK
  <2>1. 0 \in 0..MaxMessages
    BY MaxMessagesAssumption
  <2> QED
    BY <1>1, <1>2, <2>1 DEF TypeOK, QueueTypeOK, AppPoints, RxPoints, InFlight
<1>4. Numbered /\ HeapExact
  BY <1>1, <1>2 DEF Numbered, HeapExact, InFlight
<1>5. InOrder
  <2>1. 1..Len(cyQueue) = {}
    BY <1>1
  <2> QED
    BY <1>1, <1>2, <2>1 DEF InOrder, InFlight
<1>6. Deregistered /\ AtMostOneStale
  BY <1>1, <1>2 DEF Deregistered, AtMostOneStale, Polling
<1> QED
  BY <1>3, <1>4, <1>5, <1>6 DEF IInv

\* The strengthening of the invariants is inductive: one lemma for each of its
\* parts.
LEMMA StepIInv == IInv /\ [Next]_vars => IInv'
<1> SUFFICES ASSUME IInv, [Next]_vars PROVE IInv'
  OBVIOUS
<1>1. Messages' /\ ControlOK'
  BY StepKinds, MessagesInvStep, ControlStep, TypeParts DEF IInv, Messages
<1>2. TypeOK'
  BY <1>1 DEF TypeOK, QueueTypeOK, MessagesOK, ControlOK, Messages
<1> QED
  BY <1>1, <1>2, DeregisteredStep DEF IInv, Messages

\* Whatever the two tasks do, every variable keeps its type and the queue
\* never holds more than queue_size messages.
THEOREM TypeCorrect == Spec => []TypeOK
<1>1. IInv => TypeOK
  BY DEF IInv
<1> QED
  BY InitIInv, StepIInv, <1>1, PTL DEF Spec

\* The application sees the messages in the order of their arrival and none
\* of them twice, across any number of sessions.
THEOREM OrderedDelivery == Spec => []InOrder
<1>1. IInv => InOrder
  BY DEF IInv
<1> QED
  BY InitIInv, StepIInv, <1>1, PTL DEF Spec

\* The allocated copies are exactly those that the queue, a task or the
\* application holds: none is lost track of and none is freed twice.
THEOREM HeapAccount == Spec => []HeapExact
<1>1. IInv => HeapExact
  BY DEF IInv
<1> QED
  BY InitIInv, StepIInv, <1>1, PTL DEF Spec

\* However the put of one message and the two flushes of a disconnect
\* interleave, at most one message of a session outlives it.
THEOREM OneStaleMessage == Spec => []AtMostOneStale
<1>1. IInv => AtMostOneStale
  BY DEF IInv
<1> QED
  BY InitIInv, StepIInv, <1>1, PTL DEF Spec

-----------------------------------------------------------------------------
(* The refinement.  Every step of the two tasks is a step of the bounded   *)
(* lossy FIFO or leaves it alone.                                          *)

\* The message on its way in is the last one that arrived.
Newest == rx \in InFlight => rxMsg = received

LEMMA NewestStep ==
    ASSUME Newest, MessageStep
    PROVE  Newest'
<1> USE DEF Newest, InFlight
<1>1. CASE Arrives
  BY <1>1 DEF Arrives, NewMessage
<1>2. CASE CreateMessage \/ PutMessage \/ PutTimeout
  BY <1>2 DEF CreateMessage, PutMessage, PutTimeout, RxGoto
<1>3. CASE GetMessage \/ DispatchStep
  BY <1>3 DEF GetMessage, DispatchStep, DispatchTo, AppGoto
<1>4. CASE FlushStep
  BY <1>4 DEF FlushStep, FlushOne, AppGoto
<1>5. CASE Quiet \/ EmptyQueue
  BY <1>5 DEF Quiet, EmptyQueue
<1> QED
  BY <1>1, <1>2, <1>3, <1>4, <1>5 DEF MessageStep

\* A message in front of a queue: what comes off first, and what is put behind.
LEMMA InFront ==
    ASSUME NEW S, NEW q \in Seq(S), NEW m \in S
    PROVE  /\ <<m>> \o q \in Seq(S)
           /\ Len(<<m>> \o q) = Len(q) + 1
           /\ <<m>> \o q # <<>>
           /\ Head(<<m>> \o q) = m
           /\ Tail(<<m>> \o q) = q
           /\ \A e \in S : Append(<<m>> \o q, e) = <<m>> \o Append(q, e)
  OBVIOUS

Pending == IF app = "poll.dispatch" THEN <<appMsg>> \o cyQueue ELSE cyQueue

LEMMA PendingType ==
    ASSUME MessagesOK, Numbered
    PROVE  /\ cyQueue \in Seq(1..MaxMessages)
           /\ app = "poll.dispatch" => appMsg \in 1..MaxMessages
           /\ Len(Pending) \in Nat /\ Len(Pending) <= Capacity + 1
<1>1. /\ cyQueue \in Seq(1..MaxMessages) /\ Len(cyQueue) \in Nat
      /\ Len(cyQueue) <= Capacity
      /\ app = "poll.dispatch" => appMsg \in 1..MaxMessages
  BY DEF MessagesOK, Numbered
<1> QED
  BY <1>1, InFront, CapacityAssumption DEF Pending

\* A step of MessageQueue, seen as a step of InboundChannel.
LEMMA StepImplements ==
    ASSUME Messages, Newest, MessageStep
    PROVE  [Channel!Next]_(Channel!channelVars)
<1> DEFINE stutter == UNCHANGED <<received, rx \in InFlight, Pending, delivered>>
           arrive == /\ rx \notin InFlight /\ rx' \in InFlight
                     /\ received < MaxMessages /\ received' = received + 1
                     /\ UNCHANGED <<Pending, delivered>>
           accept == /\ rx \in InFlight /\ rx' \notin InFlight
                     /\ Len(Pending) < Capacity + 1
                     /\ Pending' = Append(Pending, received)
                     /\ UNCHANGED <<received, delivered>>
           reject == /\ rx \in InFlight /\ rx' \notin InFlight
                     /\ UNCHANGED <<received, Pending, delivered>>
           deliver == /\ Pending # <<>> /\ Head(Pending) \notin delivered
                      /\ delivered' = delivered \union {Head(Pending)}
                      /\ Pending' = Tail(Pending)
                      /\ UNCHANGED <<received, rx \in InFlight>>
           discard == /\ Pending # <<>> /\ Pending' = Tail(Pending)
                      /\ UNCHANGED <<received, rx \in InFlight, delivered>>
<1>0. MessagesOK /\ Numbered /\ InOrder
  BY DEF Messages
<1>1. CASE Arrives
  <2>1. arrive
    BY <1>1 DEF Arrives, NewMessage, Pending
  <2> QED
    BY <2>1 DEF Channel!Next, Channel!Arrive, Pending
<1>2. CASE CreateMessage
  <2>1. stutter \/ reject
    BY <1>2 DEF CreateMessage, RxGoto, Pending, InFlight
  <2> QED
    BY <2>1 DEF Channel!Next, Channel!Reject, Channel!channelVars, Pending
<1>3. CASE PutTimeout
  <2>1. reject
    BY <1>3 DEF PutTimeout, RxGoto, Pending, InFlight
  <2> QED
    BY <2>1 DEF Channel!Next, Channel!Reject, Pending
<1>4. CASE PutMessage
  <2>1. /\ rx = "mq.put" /\ rx' = "rx.done" /\ UNCHANGED <<app, appMsg, received, delivered>>
        /\ Len(cyQueue) < Capacity /\ cyQueue' = Append(cyQueue, rxMsg)
    BY <1>4 DEF PutMessage, RxGoto
  <2>2. rxMsg = received /\ rxMsg \in 1..MaxMessages
    BY <1>0, <2>1 DEF Newest, InFlight, Numbered, MessagesOK
  <2>3. Pending' = Append(Pending, received) /\ Len(Pending) < Capacity + 1
    <3>1. /\ cyQueue \in Seq(1..MaxMessages) /\ Len(cyQueue) \in Nat
          /\ app = "poll.dispatch" => appMsg \in 1..MaxMessages
      BY <1>0, PendingType
    <3>2. CASE app = "poll.dispatch"
      BY <2>1, <2>2, <3>1, <3>2, InFront, CapacityAssumption DEF Pending
    <3>3. CASE app # "poll.dispatch"
      BY <2>1, <2>2, <3>1, <3>3, CapacityAssumption DEF Pending
    <3> QED
      BY <3>2, <3>3
  <2>4. accept
    BY <2>1, <2>3 DEF InFlight
  <2> QED
    BY <2>4 DEF Channel!Next, Channel!Accept, Pending
<1>5. CASE GetMessage
  <2>1. /\ app = "poll.get" /\ app' = "poll.dispatch" /\ UNCHANGED <<rx, received, delivered>>
        /\ cyQueue # <<>> /\ appMsg' = Head(cyQueue) /\ cyQueue' = Tail(cyQueue)
    BY <1>5 DEF GetMessage, AppGoto
  <2>2. <<Head(cyQueue)>> \o Tail(cyQueue) = cyQueue
    BY <1>0, <2>1 DEF MessagesOK
  <2>3. stutter
    BY <2>1, <2>2 DEF Pending
  <2> QED
    BY <2>3 DEF Channel!channelVars, Pending
<1>6. CASE DispatchStep
  <2>1. /\ app = "poll.dispatch" /\ app' # "poll.dispatch" /\ UNCHANGED <<rx, received, cyQueue>>
        /\ delivered' = delivered \union {appMsg}
    BY <1>6 DEF DispatchStep, DispatchTo, AppGoto
  <2>2. appMsg \notin delivered
    BY <1>0, <2>1 DEF InOrder, MessagesOK
  <2>3. deliver
    BY <1>0, <2>1, <2>2, PendingType, InFront DEF Pending
  <2> QED
    BY <2>3 DEF Channel!Next, Channel!Deliver, Pending
<1>7. CASE FlushStep
  <2>1. /\ app # "poll.dispatch" /\ app' # "poll.dispatch"
        /\ UNCHANGED <<rx, received, delivered>>
        /\ cyQueue # <<>> /\ cyQueue' = Tail(cyQueue)
    BY <1>7 DEF FlushStep, FlushPoints, FlushOne, AppGoto
  <2>2. discard
    BY <2>1 DEF Pending
  <2> QED
    BY <2>2 DEF Channel!Next, Channel!Discard, Pending
<1>8. CASE Quiet
  <2>1. stutter \/ reject
    BY <1>8 DEF Quiet, Pending
  <2> QED
    BY <2>1 DEF Channel!Next, Channel!Reject, Channel!channelVars, Pending
<1>9. CASE EmptyQueue
  <2>1. stutter
    BY <1>9 DEF EmptyQueue, Pending
  <2> QED
    BY <2>1 DEF Channel!channelVars, Pending
<1> QED
  BY <1>0, <1>1, <1>2, <1>3, <1>4, <1>5, <1>6, <1>7, <1>8, <1>9 DEF MessageStep

\* The message queue is the bounded lossy FIFO it promises to be, whatever the
\* two tasks interleave: a message is decided upon once, and leaves from the
\* front, to the application or into a flush.
THEOREM ImplementsChannel == Spec => ChannelSpec
<1>1. Init => Newest
  BY DEF Init, Newest, InFlight
<1>2. IInv /\ Newest /\ [Next]_vars => Newest'
  BY NewestStep, StepKinds DEF IInv
<1>3. Init => Channel!Init
  BY DEF Init, MqInit, Channel!Init, InFlight
<1>4. IInv /\ Newest /\ [Next]_vars => [Channel!Next]_(Channel!channelVars)
  BY StepImplements, StepKinds, TypeParts DEF IInv, Messages
<1> QED
  BY InitIInv, StepIInv, <1>1, <1>2, <1>3, <1>4, PTL DEF Spec, ChannelSpec, Channel!Spec
=============================================================================

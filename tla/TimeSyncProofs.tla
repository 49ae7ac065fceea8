--------------------------- MODULE TimeSyncProofs ----------------------------
(***************************************************************************)
(* TimeSync for any number of servers, any limits of the retry timeout and *)
(* any width of the registers: the client never falls silent, its timeouts *)
(* stay within their limits, and a server that shows as reachable has set  *)
(* the clock.                                                              *)
(*                                                                         *)
(* The sending operators are reduced to what they do to the timeouts and   *)
(* to the registers; then there is one lemma for each part of IInv, with   *)
(* one case for each action of Next.                                       *)
(***************************************************************************)
EXTENDS TimeSync, TLAPS

Total(ts) == ts["request"] + ts["tryNext"] + ts["dns"]

\* Before sntp_init() there is nothing.
Stopped == ~opened => /\ Total(timers) = 0
                      /\ ~requested /\ ~Sending /\ lw = "idle"

\* From then on the chains are counted, and an answer that finds no timeout to
\* replace has been counted before it schedules the next request.
Chained ==
    /\ opened => 1 <= Chains /\ Chains <= 1 + extra
    /\ lw = "recv.mark" /\ timers["request"] + timers["tryNext"] = 0
          => Chains <= extra

\* Whatever is about to show in a register comes after the clock.
Marked == ~callbackReceived =>
             /\ \A s \in Servers : reachability[s] = {}
             /\ ~reachable /\ loaded[2] = {} /\ lw = "idle"

\* The lowest bit of a register that is set counts the requests since an answer.
Exact(s) == /\ \A b \in reachability[s] : b >= unanswered[s]
            /\ unanswered[s] < ReachBits => unanswered[s] \in reachability[s]

\* So it does for every server whose last answer was handled in order: while
\* the application's task sends, no such server has answered at all, and what
\* is stored last is no more than was there.
Recent == /\ \A s \in Servers \ overtook :
                /\ Exact(s)
                /\ Sending \/ ~opened => unanswered[s] = ReachBits
          /\ loaded[1] \notin overtook \/ app # "obt.store" => loaded[2] = {}

IInv == TypeOK /\ RetryWithinLimits /\ Stopped /\ Chained /\ Marked /\ Recent

-----------------------------------------------------------------------------
(* The registers                                                           *)

\* A shifted register is a register; it has the bits of the first, one higher,
\* but the last.
LEMMA ShiftBits ==
    ASSUME NEW r \in SUBSET Bits
    PROVE  /\ Shift(r) \in SUBSET Bits
           /\ r = {} => Shift(r) = {}
           /\ \A b \in Shift(r) : b - 1 \in r
           /\ \A b \in r : b + 1 < ReachBits => b + 1 \in Shift(r)
  BY ReachAssumption DEF Shift, Bits

\* A register with its last bit set is a register.
LEMMA SetBitBits ==
    ASSUME NEW r \in SUBSET Bits
    PROVE  SetBit(r) \in SUBSET Bits /\ 0 \in SetBit(r)
  BY ReachAssumption DEF SetBit, Bits

\* The doubled timeout is within the limits of the first.
LEMMA DoubledWithin ==
    ASSUME NEW t \in 0..(Word - 1), RetryTimeout <= t, t <= RetryTimeoutMax
    PROVE  /\ Doubled(t) \in 0..(Word - 1)
           /\ RetryTimeout <= Doubled(t) /\ Doubled(t) <= RetryTimeoutMax
<1>1. (2 * t) % Word \in 0..(Word - 1)
  BY RetryAssumption
<1> DEFINE new == (2 * t) % Word
<1> HIDE DEF new
<1>2. new \in 0..(Word - 1)
  BY <1>1 DEF new
<1>3. Doubled(t) = IF new <= RetryTimeoutMax /\ new > t THEN new ELSE t
  BY DEF Doubled, new
<1> QED
  BY <1>2, <1>3, RetryAssumption

-----------------------------------------------------------------------------
(* The timeouts                                                            *)

Timers == [Handlers -> Nat]

LEMMA TimeoutAdds ==
    ASSUME NEW ts \in Timers, NEW h \in Handlers
    PROVE  Timeout(ts, h) \in Timers /\ Total(Timeout(ts, h)) = Total(ts) + 1
  BY DEF Timers, Handlers, Timeout, Total

\* sys_untimeout() of what is pending removes one.
LEMMA UntimeoutRemoves ==
    ASSUME NEW ts \in Timers, NEW h \in Handlers
    PROVE  /\ Untimeout(ts, h) \in Timers
           /\ ts[h] > 0 => Total(Untimeout(ts, h)) = Total(ts) - 1
  BY DEF Timers, Handlers, Untimeout, Total

\* What a request leaves: one timeout more, and registers.
Registers == [Servers -> SUBSET Bits]

\* At most, one request more is noted for server s.
Aged(s) == \/ reachability'[s] = reachability[s] /\ unanswered'[s] = unanswered[s]
           \/ /\ reachability'[s] = Shift(reachability[s])
              /\ unanswered'[s] = IF unanswered[s] < ReachBits
                                  THEN unanswered[s] + 1 ELSE unanswered[s]

LEMMA RequestLeaves ==
    ASSUME TypeOK, NEW s \in Servers, NEW ts \in Timers, Request(s, ts)
    PROVE  /\ timers' \in Timers /\ Total(timers') = Total(ts) + 1
           /\ reachability' \in Registers
           /\ unanswered' \in [Servers -> 0..ReachBits] /\ requested' \in BOOLEAN
           /\ \A t \in Servers : Aged(t)
<1>1. PICK h \in Handlers : timers' = Timeout(ts, h)
  BY DEF Request, SendRequest, NoBuffer, Lookup, Handlers
<1>2. timers' \in Timers /\ Total(timers') = Total(ts) + 1
  BY <1>1, TimeoutAdds
<1>3. CASE Sent(s) /\ reachability' = [reachability EXCEPT ![s] = Shift(@)]
  <2>1. reachability \in Registers /\ unanswered \in [Servers -> 0..ReachBits]
    BY DEF TypeOK, Registers
  <2>2. Shift(reachability[s]) \in SUBSET Bits
    BY <2>1, ShiftBits DEF Registers
  <2>3. reachability' \in Registers
    BY <1>3, <2>1, <2>2 DEF Registers
  <2>4. unanswered' \in [Servers -> 0..ReachBits] /\ requested' \in BOOLEAN
    BY <1>3, <2>1, ReachAssumption DEF Sent
  <2>5. ASSUME NEW t \in Servers PROVE Aged(t)
    BY <1>3, <2>1 DEF Sent, Aged, Registers
  <2> QED
    BY <1>2, <2>3, <2>4, <2>5
<1>4. CASE UNCHANGED <<reachability, unanswered, requested>>
  BY <1>2, <1>4 DEF TypeOK, Registers, Aged
<1> QED
  BY <1>3, <1>4 DEF Request, SendRequest, NoBuffer, Lookup

\* sntp_try_next_server() leaves that too, and a server and a timeout in range.
LEMMA TryNextLeaves ==
    ASSUME TypeOK, RetryWithinLimits, NEW ts \in Timers, TryNextServer(ts)
    PROVE  /\ timers' \in Timers /\ Total(timers') = Total(ts) + 1
           /\ reachability' \in Registers
           /\ unanswered' \in [Servers -> 0..ReachBits] /\ requested' \in BOOLEAN
           /\ \A t \in Servers : Aged(t)
           /\ current' \in Servers
           /\ retryTimeout' \in 0..(Word - 1) /\ RetryWithinLimits'
<1>1. CASE \E s \in Others : current' = s /\ retryTimeout' = RetryTimeout /\ Request(s, ts)
  <2>1. PICK s \in Others : current' = s /\ retryTimeout' = RetryTimeout /\ Request(s, ts)
    BY <1>1
  <2>2. s \in Servers
    <3>1. addressed \subseteq Servers \ {0} /\ 0 \in Servers
      BY ServersAssumption DEF TypeOK, Servers
    <3> QED
      BY <2>1, <3>1 DEF Others
  <2>3. retryTimeout' \in 0..(Word - 1) /\ RetryWithinLimits'
    BY <2>1, RetryAssumption DEF RetryWithinLimits
  <2> QED
    BY <2>1, <2>2, <2>3, RequestLeaves
<1>2. CASE /\ timers' = Timeout(ts, "request") /\ retryTimeout' = Doubled(retryTimeout)
           /\ UNCHANGED <<current, reachability, unanswered, requested>>
  <2>1. timers' \in Timers /\ Total(timers') = Total(ts) + 1
    BY <1>2, TimeoutAdds DEF Handlers
  <2>2. retryTimeout' \in 0..(Word - 1) /\ RetryWithinLimits'
    BY <1>2, DoubledWithin DEF TypeOK, RetryWithinLimits
  <2> QED
    BY <1>2, <2>1, <2>2 DEF TypeOK, Registers, Aged
<1> QED
  BY <1>1, <1>2 DEF TryNextServer

-----------------------------------------------------------------------------
(* The steps of lwIP's task that send: a timeout expires or a lookup ends, *)
(* and another takes its place.                                            *)

Sends == RequestTimeout \/ TryNextTimeout \/ DnsFound \/ DnsFailed

LEMMA SendsReplace ==
    ASSUME IInv, Sends
    PROVE  /\ opened /\ lw = "idle" /\ lw' = "idle"
           /\ timers' \in Timers /\ Total(timers') = Total(timers)
           /\ reachability' \in Registers
           /\ unanswered' \in [Servers -> 0..ReachBits] /\ requested' \in BOOLEAN
           /\ \A t \in Servers : Aged(t)
           /\ current' \in Servers
           /\ retryTimeout' \in 0..(Word - 1) /\ RetryWithinLimits'
           /\ UNCHANGED <<opened, named, addressed, extra, overtook,
                          obtainVars, callbackReceived>>
<1> DEFINE after(h) == Untimeout(timers, h)
<1>1. TypeOK /\ RetryWithinLimits /\ Stopped /\ timers \in Timers /\ current \in Servers
  BY DEF IInv, TypeOK, Timers
<1>2. PICK h \in Handlers :
         /\ Pending(h)
         /\ \/ Request(current, after(h)) /\ UNCHANGED <<current, retryTimeout, lw>>
            \/ TryNextServer(after(h)) /\ UNCHANGED lw
         /\ UNCHANGED <<opened, named, addressed, extra, overtook,
                        obtainVars, callbackReceived>>
  <2>1. CASE RequestTimeout
    BY <2>1 DEF RequestTimeout, Handlers
  <2>2. CASE TryNextTimeout
    BY <2>2 DEF TryNextTimeout, Handlers
  <2>3. CASE DnsFound
    BY <2>3 DEF DnsFound, Handlers, Request
  <2>4. CASE DnsFailed
    BY <2>4 DEF DnsFailed, Handlers
  <2> QED
    BY <2>1, <2>2, <2>3, <2>4 DEF Sends
<1>3. timers[h] > 0 /\ lw = "idle"
  BY <1>2 DEF Pending
<1>4. after(h) \in Timers /\ Total(after(h)) = Total(timers) - 1
  BY <1>1, <1>3, UntimeoutRemoves
<1>5. Total(after(h)) \in Nat /\ Total(timers) \in Nat
  BY <1>1, <1>4 DEF Timers, Handlers, Total
<1>6. opened
  BY <1>1, <1>4, <1>5 DEF Stopped, TypeOK
<1>7. CASE Request(current, after(h)) /\ UNCHANGED <<current, retryTimeout, lw>>
  <2>1. /\ timers' \in Timers /\ Total(timers') = Total(after(h)) + 1
        /\ reachability' \in Registers
        /\ unanswered' \in [Servers -> 0..ReachBits] /\ requested' \in BOOLEAN
        /\ \A t \in Servers : Aged(t)
    BY <1>1, <1>4, <1>7, RequestLeaves
  <2> QED
    BY <1>1, <1>2, <1>3, <1>4, <1>5, <1>6, <1>7, <2>1 DEF TypeOK, RetryWithinLimits
<1>8. CASE TryNextServer(after(h)) /\ UNCHANGED lw
  <2>1. /\ timers' \in Timers /\ Total(timers') = Total(after(h)) + 1
        /\ reachability' \in Registers
        /\ unanswered' \in [Servers -> 0..ReachBits] /\ requested' \in BOOLEAN
        /\ \A t \in Servers : Aged(t)
        /\ current' \in Servers
        /\ retryTimeout' \in 0..(Word - 1) /\ RetryWithinLimits'
    BY <1>1, <1>4, <1>8, TryNextLeaves
  <2> QED
    BY <1>2, <1>3, <1>4, <1>5, <1>6, <1>8, <2>1
<1> QED
  BY <1>2, <1>7, <1>8

-----------------------------------------------------------------------------
(* Every step preserves every part of the invariant.                       *)

\* Every variable keeps its type, and the retry timeout its limits.
LEMMA TypeStep ==
    ASSUME IInv, Next
    PROVE  TypeOK' /\ RetryWithinLimits'
<1> USE DEF Timers, Registers
<1>1. TypeOK /\ RetryWithinLimits
  BY DEF IInv
<1>2. CASE Sends
  BY <1>1, <1>2, SendsReplace DEF TypeOK, obtainVars
<1>3. CASE RecvKissOfDeath
  <2>1. extra' \in 0..MaxExtra
    BY <1>1, <1>3, TriesAssumption DEF RecvKissOfDeath, TypeOK
  <2> QED
    BY <1>1, <1>3, <2>1, TryNextLeaves DEF RecvKissOfDeath, Receives, TypeOK, obtainVars
<1>4. CASE RecvProcess
  <2>1. extra' \in 0..MaxExtra
    BY <1>1, <1>4, TriesAssumption DEF RecvProcess, TypeOK
  <2> QED
    BY <1>1, <1>4, <2>1 DEF RecvProcess, SetSystemTime, TypeOK, RetryWithinLimits, obtainVars
<1>5. CASE RecvMark
  <2>1. timers' \in [Handlers -> Nat]
    BY <1>1, <1>5, TimeoutAdds, UntimeoutRemoves DEF RecvMark, TypeOK, Handlers
  <2>2. reachability' \in [Servers -> SUBSET Bits]
    <3>1. SetBit(reachability[current]) \in SUBSET Bits
      BY <1>1, SetBitBits DEF TypeOK
    <3> QED
      BY <1>1, <1>5, <3>1 DEF RecvMark, TypeOK
  <2>3. unanswered' \in [Servers -> 0..ReachBits]
    BY <1>1, <1>5, ReachAssumption DEF RecvMark, TypeOK
  <2>4. retryTimeout' \in 0..(Word - 1) /\ RetryWithinLimits'
    BY <1>5, RetryAssumption DEF RecvMark, RetryWithinLimits
  <2> QED
    BY <1>1, <1>5, <2>1, <2>2, <2>3, <2>4 DEF RecvMark, TypeOK, Sending, obtainVars
<1>6. CASE ObtainCall
  BY <1>1, <1>6, TriesAssumption DEF ObtainCall, TypeOK, RetryWithinLimits, sntpVars
<1>7. CASE ObtainConfigure
  BY <1>1, <1>7 DEF ObtainConfigure, TypeOK, RetryWithinLimits
<1>8. CASE ObtainInit
  <2>1. timers' \in [Handlers -> Nat]
    BY <1>1, <1>8, TimeoutAdds DEF ObtainInit, NoBuffer, Lookup, TypeOK, Handlers
  <2>2. /\ unanswered' \in [Servers -> 0..ReachBits] /\ requested' \in BOOLEAN
        /\ reachability' = reachability
    <3>1. reachability' = reachability /\ (Sent(current) \/ UNCHANGED <<unanswered, requested>>)
      BY <1>8 DEF ObtainInit, NoBuffer, Lookup
    <3>2. unanswered \in [Servers -> 0..ReachBits] /\ requested \in BOOLEAN
      BY <1>1 DEF TypeOK
    <3>3. unanswered' \in [Servers -> 0..ReachBits]
      BY <3>1, <3>2, ReachAssumption DEF Sent
    <3>4. requested' \in BOOLEAN
      BY <3>1, <3>2 DEF Sent
    <3> QED
      BY <3>1, <3>3, <3>4
  <2>3. retryTimeout' \in 0..(Word - 1) /\ RetryWithinLimits'
    BY <1>1, <1>8, RetryAssumption DEF ObtainInit, TypeOK, RetryWithinLimits
  <2>4. /\ app' \in {"obt.load", "obt.poll"} /\ i' = 0 /\ opened' \in BOOLEAN
        /\ UNCHANGED <<named, addressed, current, lw, extra, overtook,
                       reachable, loaded, calls, callbackReceived>>
    BY <1>1, <1>8 DEF ObtainInit, TypeOK
  <2> QED
    BY <1>1, <2>1, <2>2, <2>3, <2>4, TriesAssumption DEF TypeOK
<1>9. CASE ObtainLoad
  <2>1. loaded' \in Servers \X SUBSET Bits
    BY <1>1, <1>9 DEF ObtainLoad, TypeOK
  <2> QED
    BY <1>1, <1>9, <2>1 DEF ObtainLoad, TypeOK, RetryWithinLimits, sntpVars
<1>10. CASE ObtainStore
  <2>1. loaded[1] \in Servers /\ Shift(loaded[2]) \in SUBSET Bits
    BY <1>1, ShiftBits DEF TypeOK
  <2>2. loaded' \in Servers \X SUBSET Bits
    BY <1>10, ServersAssumption DEF ObtainStore, Servers
  <2>3. reachability' \in [Servers -> SUBSET Bits]
    BY <1>1, <1>10, <2>1 DEF ObtainStore, TypeOK
  <2> QED
    BY <1>1, <1>10, <2>2, <2>3 DEF ObtainStore, TypeOK, RetryWithinLimits
<1>11. CASE ObtainAwait
  <2>1. timers' \in [Handlers -> Nat]
    BY <1>1, <1>11, TimeoutAdds DEF ObtainAwait, TypeOK, Handlers
  <2> QED
    BY <1>1, <1>11, <2>1 DEF ObtainAwait, TypeOK, RetryWithinLimits
<1>12. CASE ObtainPoll
  <2>1. i' \in 0..MaxTries
    BY <1>1, <1>12, TriesAssumption DEF ObtainPoll, TypeOK
  <2> QED
    BY <1>1, <1>12, <2>1 DEF ObtainPoll, TypeOK, RetryWithinLimits, sntpVars
<1>13. CASE ObtainReturn
  BY <1>1, <1>13 DEF ObtainReturn, TypeOK, RetryWithinLimits, sntpVars
<1> QED
  BY <1>2, <1>3, <1>4, <1>5, <1>6, <1>7, <1>8, <1>9, <1>10, <1>11, <1>12, <1>13
     DEF Next, Obtain, Sntp, Network, Sends

\* Nothing is pending before sntp_init().
LEMMA StoppedStep ==
    ASSUME IInv, Next
    PROVE  Stopped'
<1>1. TypeOK /\ Stopped
  BY DEF IInv
<1>2. CASE Sends
  <2>1. opened'
    BY <1>2, SendsReplace
  <2> QED
    BY <2>1 DEF Stopped
<1>3. CASE Network \/ RecvMark
  <2>1. opened'
    BY <1>1, <1>3 DEF Network, RecvProcess, RecvKissOfDeath, RecvMark, Receives, Stopped, TypeOK
  <2> QED
    BY <2>1 DEF Stopped
<1>4. CASE ObtainInit
  <2>1. opened'
    BY <1>4 DEF ObtainInit
  <2> QED
    BY <2>1 DEF Stopped
<1>5. CASE ObtainLoad \/ ObtainStore \/ ObtainAwait
  <2>1. Sending /\ UNCHANGED opened
    BY <1>5 DEF ObtainLoad, ObtainStore, ObtainAwait, Sending, sntpVars
  <2> QED
    BY <1>1, <2>1 DEF Stopped
<1>6. CASE ObtainCall \/ ObtainConfigure \/ ObtainPoll \/ ObtainReturn
  <2>1. UNCHANGED <<opened, timers, requested, lw>> /\ ~Sending'
    BY <1>6 DEF ObtainCall, ObtainConfigure, ObtainPoll, ObtainReturn, Sending, sntpVars
  <2> QED
    BY <1>1, <2>1 DEF Stopped, Total
<1> QED
  BY <1>2, <1>3, <1>4, <1>5, <1>6 DEF Next, Obtain, Sntp, Network, Sends

\* The number of chains is 1 at the start, and grows only with extra.
LEMMA ChainedStep ==
    ASSUME IInv, Next
    PROVE  Chained'
<1>1. TypeOK /\ Stopped /\ Chained
  BY DEF IInv
<1>2. /\ timers \in Timers /\ timers["request"] \in Nat /\ timers["tryNext"] \in Nat
      /\ timers["dns"] \in Nat /\ Total(timers) \in Nat /\ extra \in Nat
      /\ Chains = Total(timers) + (IF Sending THEN 1 ELSE 0)
      /\ Chains' = Total(timers') + (IF Sending' THEN 1 ELSE 0)
  BY <1>1, TriesAssumption DEF TypeOK, Timers, Handlers, Total, Chains
<1>3. CASE Sends
  <2>1. /\ opened /\ lw' = "idle" /\ Total(timers') = Total(timers)
        /\ extra' = extra /\ Sending' = Sending
    BY <1>3, SendsReplace DEF obtainVars, Sending
  <2> QED
    BY <1>1, <1>2, <2>1 DEF Chained
<1>4. CASE RecvKissOfDeath
  <2>1. Total(timers') = Total(timers) + 1
    BY <1>1, <1>2, <1>4, TryNextLeaves DEF RecvKissOfDeath, IInv
  <2>2. /\ opened /\ lw' = "idle" /\ extra' = extra + 1 /\ Sending' = Sending
    BY <1>4 DEF RecvKissOfDeath, Receives, obtainVars, Sending
  <2> QED
    BY <1>1, <1>2, <2>1, <2>2 DEF Chained
<1>5. CASE RecvProcess
  <2>1. opened /\ timers' = timers /\ Sending' = Sending
    BY <1>5 DEF RecvProcess, Receives, obtainVars, Sending
  <2>2. IF timers["request"] + timers["tryNext"] = 0 THEN extra' = extra + 1 ELSE extra' = extra
    BY <1>5 DEF RecvProcess
  <2> QED
    BY <1>1, <1>2, <2>1, <2>2 DEF Chained
<1>6. CASE RecvMark
  <2> DEFINE t1 == Untimeout(timers, "tryNext")
             t2 == Untimeout(t1, "request")
  <2>1. opened /\ lw = "recv.mark" /\ lw' = "idle" /\ extra' = extra /\ Sending' = Sending
    BY <1>1, <1>6 DEF RecvMark, Stopped, obtainVars, Sending, TypeOK
  <2>2. /\ t1["dns"] = timers["dns"] /\ t1["request"] = timers["request"]
        /\ t1["tryNext"] = IF timers["tryNext"] = 0 THEN 0 ELSE timers["tryNext"] - 1
        /\ t1 \in Timers
    BY <1>2 DEF Untimeout, Timers, Handlers
  <2>3. /\ t2["dns"] = timers["dns"] /\ t2["tryNext"] = t1["tryNext"]
        /\ t2["request"] = IF timers["request"] = 0 THEN 0 ELSE timers["request"] - 1
        /\ t2 \in Timers
    BY <1>2, <2>2 DEF Untimeout, Timers, Handlers
  <2>4. timers' = Timeout(t2, "request")
    BY <1>6 DEF RecvMark
  <2>5. Total(timers') = Total(t2) + 1
    BY <2>3, <2>4, TimeoutAdds DEF Handlers
  <2>6. /\ Total(t2) >= 0
        /\ Total(t2) <= Total(timers)
        /\ timers["request"] + timers["tryNext"] # 0 => Total(t2) <= Total(timers) - 1
    BY <1>2, <2>2, <2>3 DEF Total
  <2>7. Total(t2) \in Nat
    BY <1>2, <2>2, <2>3 DEF Total
  <2>8. 1 <= Chains /\ Chains <= 1 + extra
    BY <1>1, <2>1 DEF Chained
  <2>9. timers["request"] + timers["tryNext"] = 0 => Chains <= extra
    BY <1>1, <2>1 DEF Chained
  <2>10. 1 <= Chains' /\ Chains' <= 1 + extra'
    BY <1>2, <2>1, <2>5, <2>6, <2>7, <2>8, <2>9
  <2> QED
    BY <2>1, <2>10 DEF Chained
<1>7. CASE ObtainInit
  <2>1. CASE opened
    <3>1. UNCHANGED <<opened, timers, lw, extra>> /\ ~Sending /\ ~Sending'
      BY <1>7, <2>1 DEF ObtainInit, Sending
    <3> QED
      BY <1>1, <1>2, <2>1, <3>1 DEF Chained
  <2>2. CASE ~opened
    <3>1. Total(timers) = 0 /\ lw' = "idle" /\ extra' = extra
      BY <1>1, <1>7, <2>2 DEF ObtainInit, Stopped
    <3>2. \/ timers' = timers /\ Sending'
          \/ ~Sending' /\ \E h \in Handlers : timers' = Timeout(timers, h)
      BY <1>7, <2>2 DEF ObtainInit, NoBuffer, Lookup, Sending, Handlers
    <3>3. Chains' = 1
      BY <1>2, <3>1, <3>2, TimeoutAdds
    <3> QED
      BY <1>2, <3>1, <3>3 DEF Chained
  <2> QED
    BY <2>1, <2>2
<1>8. CASE ObtainAwait
  <2>1. /\ Sending /\ ~Sending' /\ opened' = opened /\ lw' = lw /\ extra' = extra
        /\ timers' = Timeout(timers, "tryNext")
    BY <1>8 DEF ObtainAwait, Sending
  <2>2. Total(timers') = Total(timers) + 1 /\ timers' \in Timers
    BY <1>2, <2>1, TimeoutAdds DEF Handlers
  <2>3. Chains' = Chains
    BY <1>2, <2>1, <2>2
  <2>4. timers'["request"] + timers'["tryNext"] # 0
    BY <1>2, <2>1 DEF Timeout, Timers, Handlers
  <2> QED
    BY <1>1, <2>1, <2>3, <2>4 DEF Chained
<1>9. CASE \/ ObtainLoad \/ ObtainStore
           \/ ObtainCall \/ ObtainConfigure \/ ObtainPoll \/ ObtainReturn
  <2>1. UNCHANGED <<opened, timers, lw, extra>> /\ Sending' = Sending
    BY <1>9 DEF ObtainLoad, ObtainStore, ObtainCall, ObtainConfigure, ObtainPoll,
                ObtainReturn, Sending, sntpVars
  <2> QED
    BY <1>1, <1>2, <2>1 DEF Chained
<1> QED
  BY <1>3, <1>4, <1>5, <1>6, <1>7, <1>8, <1>9 DEF Next, Obtain, Sntp, Network, Sends

\* No register is marked, nor read as marked, before the clock is set.
LEMMA MarkedStep ==
    ASSUME IInv, Next
    PROVE  Marked'
<1> SUFFICES ASSUME ~callbackReceived' PROVE Marked'
  BY DEF Marked
<1>1. TypeOK /\ Marked /\ RetryWithinLimits /\ timers \in Timers
  BY DEF IInv, TypeOK, Timers
<1>2. CASE Sends
  <2>1. /\ callbackReceived' = callbackReceived /\ lw' = "idle"
        /\ reachable' = reachable /\ loaded' = loaded
        /\ \A t \in Servers : Aged(t)
    BY <1>2, SendsReplace DEF obtainVars
  <2> QED
    BY <1>1, <2>1, ShiftBits DEF Marked, Aged
<1>3. CASE RecvKissOfDeath
  <2>1. /\ callbackReceived' = callbackReceived /\ lw' = lw
        /\ reachable' = reachable /\ loaded' = loaded
    BY <1>3 DEF RecvKissOfDeath, obtainVars
  <2>2. \A t \in Servers : Aged(t)
    BY <1>1, <1>3, TryNextLeaves DEF RecvKissOfDeath
  <2> QED
    BY <1>1, <2>1, <2>2, ShiftBits DEF Marked, Aged
<1>4. CASE RecvProcess
  BY <1>4 DEF RecvProcess, SetSystemTime
<1>5. CASE RecvMark
  BY <1>1, <1>5 DEF RecvMark, Marked
<1>6. CASE ObtainLoad
  BY <1>1, <1>6 DEF ObtainLoad, Marked, TypeOK, sntpVars
<1>7. CASE ObtainStore
  <2>1. ~callbackReceived /\ loaded[2] = {}
    BY <1>1, <1>7 DEF ObtainStore, Marked
  <2>2. Shift(loaded[2]) = {}
    BY <2>1, ShiftBits
  <2> QED
    BY <1>1, <1>7, <2>1, <2>2 DEF ObtainStore, Marked, TypeOK
<1>8. CASE ObtainPoll
  <2>1. 0 \in Servers
    BY ServersAssumption DEF Servers
  <2> QED
    BY <1>1, <1>8, <2>1 DEF ObtainPoll, Marked, sntpVars
<1>9. CASE ObtainInit
  BY <1>1, <1>9 DEF ObtainInit, NoBuffer, Lookup, Marked
<1>10. CASE ObtainAwait \/ ObtainCall \/ ObtainConfigure \/ ObtainReturn
  BY <1>1, <1>10 DEF ObtainAwait, ObtainCall, ObtainConfigure, ObtainReturn, Marked, sntpVars
<1> QED
  BY <1>2, <1>3, <1>4, <1>5, <1>6, <1>7, <1>8, <1>9, <1>10
     DEF Next, Obtain, Sntp, Network, Sends

\* A server that is noted one request more stays exact.
LEMMA AgedExact ==
    ASSUME TypeOK, NEW s \in Servers, Aged(s), Exact(s)
    PROVE  Exact(s)' /\ (unanswered[s] = ReachBits => unanswered'[s] = ReachBits)
<1>1. reachability[s] \in SUBSET Bits /\ unanswered[s] \in 0..ReachBits
  BY DEF TypeOK
<1>2. CASE reachability'[s] = reachability[s] /\ unanswered'[s] = unanswered[s]
  BY <1>2 DEF Exact
<1>3. CASE /\ reachability'[s] = Shift(reachability[s])
           /\ unanswered'[s] = IF unanswered[s] < ReachBits
                               THEN unanswered[s] + 1 ELSE unanswered[s]
  <2>1. ASSUME NEW b \in reachability'[s] PROVE b >= unanswered'[s]
    <3>1. b \in Bits /\ b - 1 \in reachability[s] /\ b - 1 \in Bits
      BY <1>1, <1>3, <2>1, ShiftBits
    <3>2. b - 1 >= unanswered[s]
      BY <3>1 DEF Exact
    <3> QED
      BY <1>1, <1>3, <3>1, <3>2, ReachAssumption DEF Bits
  <2>2. ASSUME unanswered'[s] < ReachBits PROVE unanswered'[s] \in reachability'[s]
    <3>1. unanswered[s] < ReachBits /\ unanswered'[s] = unanswered[s] + 1
      BY <1>1, <1>3, <2>2, ReachAssumption
    <3>2. unanswered[s] \in reachability[s]
      BY <3>1 DEF Exact
    <3> QED
      BY <1>1, <1>3, <2>2, <3>1, <3>2, ShiftBits
  <2> QED
    BY <1>1, <1>3, <2>1, <2>2, ReachAssumption DEF Exact
<1> QED
  BY <1>2, <1>3 DEF Aged

\* Each register of a server that was not overtaken counts its requests.
LEMMA RecentStep ==
    ASSUME IInv, Next
    PROVE  Recent'
<1>1. TypeOK /\ RetryWithinLimits /\ Stopped /\ Recent /\ timers \in Timers
  BY DEF IInv, TypeOK, Timers
<1>2. CASE Sends \/ RecvKissOfDeath
  <2>1. /\ opened /\ overtook' = overtook /\ loaded' = loaded /\ Sending' = Sending
        /\ opened' = opened /\ app' = app
        /\ \A s \in Servers : Aged(s)
    <3>1. CASE Sends
      BY <3>1, SendsReplace DEF obtainVars, Sending
    <3>2. CASE RecvKissOfDeath
      BY <1>1, <3>2, TryNextLeaves DEF RecvKissOfDeath, Receives, obtainVars, Sending
    <3> QED
      BY <1>2, <3>1, <3>2
  <2> QED
    BY <1>1, <2>1, AgedExact DEF Recent
<1>3. CASE RecvMark
  <2>1. opened /\ opened' = opened /\ loaded' = loaded /\ Sending' = Sending
    BY <1>1, <1>3 DEF RecvMark, Stopped, TypeOK, obtainVars, Sending
  <2>2. /\ reachability' = [reachability EXCEPT ![current] = SetBit(@)]
        /\ unanswered' = [unanswered EXCEPT ![current] = 0]
        /\ overtook' = IF Sending THEN overtook \union {current} ELSE overtook \ {current}
    BY <1>3 DEF RecvMark
  <2>3. ASSUME NEW s \in Servers \ overtook'
        PROVE  Exact(s)' /\ (Sending \/ ~opened => unanswered'[s] = ReachBits)
    <3>1. CASE s = current
      <4>1. ~Sending
        BY <2>2, <2>3, <3>1
      <4>2. unanswered'[s] = 0 /\ reachability'[s] = SetBit(reachability[s])
            /\ reachability[s] \in SUBSET Bits
        BY <1>1, <2>2, <3>1 DEF TypeOK
      <4>3. SetBit(reachability[s]) \in SUBSET Bits /\ 0 \in SetBit(reachability[s])
        BY <4>2, SetBitBits
      <4>4. \A b \in reachability'[s] : b >= 0
        BY <4>2, <4>3, ReachAssumption DEF Bits
      <4> QED
        BY <2>1, <4>1, <4>2, <4>3, <4>4 DEF Exact
    <3>2. CASE s # current
      <4>1. s \in Servers \ overtook
        BY <2>2, <2>3, <3>2
      <4>2. reachability'[s] = reachability[s] /\ unanswered'[s] = unanswered[s]
        BY <1>1, <2>2, <3>2, <4>1 DEF TypeOK
      <4> QED
        BY <1>1, <4>1, <4>2 DEF Recent, Exact
    <3> QED
      BY <3>1, <3>2
  <2>4. loaded[1] \notin overtook' \/ app # "obt.store" => loaded[2] = {}
    <3>1. CASE Sending
      BY <1>1, <2>2, <3>1 DEF Recent
    <3>2. CASE ~Sending
      BY <1>1, <3>2 DEF Recent, Sending
    <3> QED
      BY <3>1, <3>2
  <2>5. app' = app
    BY <1>3 DEF RecvMark, obtainVars
  <2> QED
    BY <2>1, <2>3, <2>4, <2>5 DEF Recent
<1>4. CASE ObtainInit
  <2>1. /\ UNCHANGED <<reachability, overtook, loaded>>
        /\ opened' /\ app # "obt.store" /\ app' # "obt.store"
        /\ opened => unanswered' = unanswered /\ ~Sending'
        /\ ~opened => unanswered' = unanswered \/ Sent(current)
    BY <1>4 DEF ObtainInit, NoBuffer, Lookup, Sending
  <2>2. ASSUME NEW s \in Servers \ overtook
        PROVE  unanswered'[s] = unanswered[s] /\ (Sending' => unanswered[s] = ReachBits)
    BY <1>1, <2>1, <2>2 DEF Recent, Sent, TypeOK
  <2> QED
    BY <1>1, <2>1, <2>2 DEF Recent, Exact
<1>5. CASE ObtainLoad
  <2>1. /\ UNCHANGED <<reachability, unanswered, overtook, opened>> /\ Sending /\ Sending'
        /\ loaded' = <<current, reachability[current]>> /\ app' = "obt.store"
    BY <1>5 DEF ObtainLoad, sntpVars, Sending
  <2>2. current \notin overtook => reachability[current] = {}
    BY <1>1, <2>1, ReachAssumption DEF Recent, Exact, TypeOK, Bits
  <2> QED
    BY <1>1, <2>1, <2>2 DEF Recent, Exact
<1>6. CASE ObtainStore
  <2>1. /\ UNCHANGED <<unanswered, overtook, opened>> /\ Sending /\ Sending'
        /\ reachability' = [reachability EXCEPT ![loaded[1]] = Shift(loaded[2])]
        /\ loaded' = <<0, {}>>
    BY <1>6 DEF ObtainStore, Sending
  <2>2. ASSUME NEW s \in Servers \ overtook, s = loaded[1]
        PROVE  reachability'[s] = {} /\ unanswered[s] = ReachBits
    BY <1>1, <2>1, <2>2, ShiftBits DEF Recent, TypeOK
  <2>3. ASSUME NEW s \in Servers \ overtook, s # loaded[1]
        PROVE  reachability'[s] = reachability[s]
    BY <1>1, <2>1, <2>3 DEF TypeOK
  <2> QED
    BY <1>1, <2>1, <2>2, <2>3, ReachAssumption DEF Recent, Exact
<1>7. CASE ObtainAwait
  BY <1>1, <1>7 DEF ObtainAwait, Recent, Exact, Sending
<1>8. CASE ObtainCall \/ ObtainConfigure \/ ObtainPoll \/ ObtainReturn
  <2>1. /\ UNCHANGED <<reachability, unanswered, overtook, opened, loaded>> /\ ~Sending'
        /\ app # "obt.store"
    BY <1>8 DEF ObtainCall, ObtainConfigure, ObtainPoll, ObtainReturn, Sending, sntpVars
  <2> QED
    BY <1>1, <2>1 DEF Recent, Exact
<1>9. CASE RecvProcess
  <2>1. UNCHANGED <<reachability, unanswered, overtook, opened, loaded, app>>
    BY <1>9 DEF RecvProcess, obtainVars
  <2> QED
    BY <1>1, <2>1 DEF Recent, Exact, Sending
<1> QED
  BY <1>2, <1>3, <1>4, <1>5, <1>6, <1>7, <1>8, <1>9 DEF Next, Obtain, Sntp, Network, Sends

-----------------------------------------------------------------------------
(* The theorems                                                            *)

LEMMA InitIInv == Init => IInv
<1> SUFFICES ASSUME Init PROVE IInv
  OBVIOUS
<1>1. TypeOK
  <2>1. 0 \in Servers
    BY ServersAssumption DEF Servers
  <2>2. /\ reachability \in [Servers -> SUBSET Bits]
        /\ unanswered \in [Servers -> 0..ReachBits] /\ timers \in [Handlers -> Nat]
    BY <2>1, ReachAssumption DEF Init
  <2>3. retryTimeout \in 0..(Word - 1)
    BY RetryAssumption DEF Init
  <2>4. loaded \in Servers \X SUBSET Bits
    BY <2>1 DEF Init
  <2>5. i \in 0..MaxTries /\ calls \in 0..MaxCalls /\ extra \in 0..MaxExtra
    BY TriesAssumption DEF Init
  <2>6. /\ opened \in BOOLEAN /\ named \in BOOLEAN /\ requested \in BOOLEAN
        /\ overtook \subseteq Servers /\ reachable \in BOOLEAN /\ callbackReceived \in BOOLEAN
    BY DEF Init
  <2>7. /\ addressed \subseteq Servers \ {0} /\ current \in Servers
        /\ lw = "idle" /\ app = "idle"
    BY <2>1 DEF Init
  <2> QED
    BY <2>2, <2>3, <2>4, <2>5, <2>6, <2>7 DEF TypeOK
<1>2. RetryWithinLimits
  BY RetryAssumption DEF Init, RetryWithinLimits
<1>3. Stopped /\ Chained
  BY DEF Init, Stopped, Chained, Sending, Total, Handlers
<1>4. Marked
  BY DEF Init, Marked
<1>5. Recent
  <2>1. ASSUME Init, NEW s \in Servers PROVE reachability[s] = {} /\ unanswered[s] = ReachBits
    BY <2>1 DEF Init
  <2> QED
    BY <2>1, ReachAssumption DEF Init, Recent, Exact
<1> QED
  BY <1>1, <1>2, <1>3, <1>4, <1>5 DEF IInv

LEMMA StepIInv == IInv /\ [Next]_vars => IInv'
<1>1. ASSUME IInv, Next PROVE IInv'
  BY <1>1, TypeStep, StoppedStep, ChainedStep, MarkedStep, RecentStep DEF IInv
<1>2. ASSUME IInv, UNCHANGED vars PROVE IInv'
  BY <1>2 DEF vars, sntpVars, obtainVars, IInv, TypeOK, RetryWithinLimits, Stopped,
              Chained, Marked, Recent, Exact, Chains, Sending, Total
<1> QED
  BY <1>1, <1>2

\* Every variable keeps its type; a register never outgrows its byte.
THEOREM TypeCorrect == Spec => []TypeOK
<1>1. IInv => TypeOK
  BY DEF IInv
<1> QED
  BY InitIInv, StepIInv, <1>1, PTL DEF Spec

\* The client never falls silent, and its chains of requests do not multiply.
THEOREM NeverSilent == Spec => []Scheduled
<1>1. IInv => Scheduled
  BY DEF IInv, Chained, Scheduled
<1> QED
  BY InitIInv, StepIInv, <1>1, PTL DEF Spec

\* The doubled wait neither wraps nor exceeds its limit.
THEOREM RetriesWithinLimits == Spec => []RetryWithinLimits
<1>1. IInv => RetryWithinLimits
  BY DEF IInv
<1> QED
  BY InitIInv, StepIInv, <1>1, PTL DEF Spec

\* A register shows the answers to its last requests and no others, for every
\* server whose last answer did not overtake the application's task.
THEOREM ReachabilityRecent == Spec => []ReachabilityIsRecent
<1>1. ASSUME IInv, NEW s \in Servers \ overtook
      PROVE  reachability[s] # {} <=> unanswered[s] < ReachBits
  <2>1. Exact(s) /\ reachability[s] \in SUBSET Bits /\ unanswered[s] \in 0..ReachBits
    BY <1>1 DEF IInv, Recent, TypeOK
  <2> QED
    BY <2>1, ReachAssumption DEF Exact, Bits
<1>2. IInv => ReachabilityIsRecent
  BY <1>1 DEF ReachabilityIsRecent
<1> QED
  BY InitIInv, StepIInv, <1>2, PTL DEF Spec

\* A server is not seen as reachable before the clock is set, though the
\* application's task polls, and shifts a register, without a lock.
THEOREM ReachableIsSet == Spec => []ReachableMeansSet
<1>1. IInv => ReachableMeansSet
  BY DEF IInv, Marked, ReachableMeansSet
<1> QED
  BY InitIInv, StepIInv, <1>1, PTL DEF Spec
=============================================================================

------------------------------ MODULE TimeSync -------------------------------
(***************************************************************************)
(* Obtaining the time: iotc_mtb_time_obtain() and its callback,            *)
(* src/source/iotc_mtb_time.c, over the SNTP client src/source/sntp.c in   *)
(* unicast polling mode, the one mode the SDK uses.                        *)
(*                                                                         *)
(* The application's task starts the client, sends the first request       *)
(* itself, without lwIP's lock, and polls for its first success; lwIP's    *)
(* task runs the rest: timeouts, DNS answers and the packets that arrive.  *)
(* Timeouts are untimed: any pending one may expire.  The contents of      *)
(* packets are reduced to what sntp_recv() makes of them.                  *)
(***************************************************************************)
EXTENDS Naturals

CONSTANTS NumServers,   \* SNTP_MAX_SERVERS
          RetryTimeout, RetryTimeoutMax,  \* SNTP_RETRY_TIMEOUT, and its _MAX
          Word,         \* 2^32, the size of u32_t
          ReachBits,    \* 8, the width of a reachability register
          MaxTries,     \* IOTC_MTB_TIME_MAX_TRIES
          MaxCalls,     \* bound on the calls of iotc_mtb_time_obtain()
          MaxExtra      \* bound on the answers that start a further chain

ASSUME ServersAssumption == NumServers \in Nat \ {0}
ASSUME RetryAssumption == /\ RetryTimeout \in Nat \ {0}
                          /\ RetryTimeoutMax \in Nat /\ Word \in Nat
                          /\ RetryTimeout <= RetryTimeoutMax
                          /\ RetryTimeoutMax < Word
ASSUME ReachAssumption == ReachBits \in Nat \ {0}
ASSUME TriesAssumption == MaxTries \in Nat /\ MaxCalls \in Nat /\ MaxExtra \in Nat

Servers == 0..(NumServers - 1)

\* A register is the set of its bits that are set; bit 0 is the latest request.
Bits == 0..(ReachBits - 1)

VARIABLES opened,        \* sntp_pcb # NULL
          named,         \* sntp_servers[0].name # NULL
          addressed,     \* the servers set by address with sntp_setserver()
          current,       \* sntp_current_server
          retryTimeout,  \* sntp_retry_timeout
          reachability,  \* of each server
          timers,        \* lwIP: pending timeouts by handler, and DNS lookups
          lw,            \* program point of lwIP's task
          requested,     \* history: a request was sent
          unanswered,    \* history: requests to each server since an answer
          extra,         \* history: the answers that started a further chain
          overtook       \* history: the servers whose last answer came before
                         \* the request was noted

sntpVars == <<opened, named, addressed, current, retryTimeout, reachability,
              timers, lw, requested, unanswered, extra, overtook>>

VARIABLES app,               \* program point of the application's task
          i,                 \* the loop of iotc_mtb_time_obtain()
          reachable,         \* what it read last is not 0
          loaded,            \* the register it is shifting, and its server
          callbackReceived,  \* callback_received
          calls              \* bounds the calls

obtainVars == <<app, i, reachable, loaded, calls>>

vars == <<sntpVars, obtainVars, callbackReceived>>

Handlers == {"request", "tryNext", "dns"}

Init == /\ opened = FALSE /\ named = FALSE
        /\ addressed \in SUBSET (Servers \ {0})
        /\ current = 0 /\ retryTimeout = RetryTimeout
        /\ reachability = [s \in Servers |-> {}]
        /\ timers = [h \in Handlers |-> 0]
        /\ lw = "idle" /\ requested = FALSE
        /\ unanswered = [s \in Servers |-> ReachBits]
        /\ extra = 0 /\ overtook = {}
        /\ app = "idle" /\ i = 0 /\ reachable = FALSE
        /\ loaded = <<0, {}>>
        /\ callbackReceived = FALSE /\ calls = 0

-----------------------------------------------------------------------------
(* sys_timeout() and sys_untimeout(), which removes one entry if any.      *)

Timeout(ts, h) == [ts EXCEPT ![h] = @ + 1]
Untimeout(ts, h) == [ts EXCEPT ![h] = IF @ = 0 THEN 0 ELSE @ - 1]

-----------------------------------------------------------------------------
(* Sending.  ts are the timers that remain when the function is entered.   *)

\* Mutants of Shift: no shift, so that an old answer counts for ever; a wider
\* register.
NoShift(r) == r
WideShift(r) == {b + 1 : b \in r}

\* reachability <<= 1, in eight bits.
Shift(r) == {b + 1 : b \in r} \intersect Bits

\* reachability |= 1
SetBit(r) == r \union {0}

\* The packet is on its way to server s.
Sent(s) == /\ unanswered' = [unanswered EXCEPT ![s] = IF @ < ReachBits THEN @ + 1 ELSE @]
           /\ requested' = TRUE

\* There is no pbuf: another attempt later.
NoBuffer(ts) == /\ timers' = Timeout(ts, "request")
                /\ UNCHANGED <<reachability, unanswered, requested>>

\* sntp_send_request() on lwIP's task
SendRequest(s, ts) ==
    \/ /\ Sent(s)
       /\ reachability' = [reachability EXCEPT ![s] = Shift(@)]
       /\ timers' = Timeout(ts, "tryNext")
    \/ NoBuffer(ts)

\* dns_gethostbyname(): the answer is to come, or the lookup fails.
Lookup(ts) == /\ \/ timers' = Timeout(ts, "dns")
                 \/ timers' = Timeout(ts, "tryNext")
              /\ UNCHANGED <<reachability, unanswered, requested>>

\* sntp_request(): a name is looked up, and the address may be there at once;
\* an address is used as it is.
Request(s, ts) == SendRequest(s, ts) \/ (s = 0 /\ named /\ Lookup(ts))

\* Mutant of Doubled: without the limit and the check for overflow.
DoubledUnchecked(t) == (2 * t) % Word

\* sntp_retry() doubles the timeout unless that overflows or is too much.
Doubled(t) == LET new == (2 * t) % Word
              IN  IF new <= RetryTimeoutMax /\ new > t THEN new ELSE t

\* Steps from server s to server t, going around.
Distance(s, t) == (t + NumServers - s) % NumServers

Others == {s \in (addressed \union {0}) \ {current} : s # 0 \/ named}

\* sntp_try_next_server(): the next server that is configured is asked at
\* once; without one, the current server again when sntp_retry() says.
TryNextServer(ts) ==
    \/ \E s \in Others :
          /\ \A t \in Others : Distance(current, s) <= Distance(current, t)
          /\ current' = s
          /\ retryTimeout' = RetryTimeout
          /\ Request(s, ts)
    \/ /\ Others = {}
       /\ timers' = Timeout(ts, "request")
       /\ retryTimeout' = Doubled(retryTimeout)
       /\ UNCHANGED <<current, reachability, unanswered, requested>>

-----------------------------------------------------------------------------
(* lwIP's task: timeouts, DNS answers, packets.                            *)

\* The application's task is between udp_sendto() and sys_timeout().  It does
\* not stay there for as long as any timeout, the shortest of which is seconds.
Sending == app \in {"obt.load", "obt.store", "obt.await"}

Pending(h) == /\ lw = "idle" /\ timers[h] > 0
              /\ h \in {"request", "tryNext"} => ~Sending

RequestTimeout ==
    /\ Pending("request")
    /\ Request(current, Untimeout(timers, "request"))
    /\ UNCHANGED <<opened, named, addressed, current, retryTimeout, lw, extra, overtook,
                   obtainVars, callbackReceived>>

TryNextTimeout ==
    /\ Pending("tryNext")
    /\ TryNextServer(Untimeout(timers, "tryNext"))
    /\ UNCHANGED <<opened, named, addressed, lw, extra, overtook, obtainVars, callbackReceived>>

\* sntp_dns_found(): the address is for the server that is current now.
DnsFound ==
    /\ Pending("dns")
    /\ SendRequest(current, Untimeout(timers, "dns"))
    /\ UNCHANGED <<opened, named, addressed, current, retryTimeout, lw, extra, overtook,
                   obtainVars, callbackReceived>>

DnsFailed ==
    /\ Pending("dns")
    /\ TryNextServer(Untimeout(timers, "dns"))
    /\ UNCHANGED <<opened, named, addressed, lw, extra, overtook, obtainVars, callbackReceived>>

\* Packets are lost, late and duplicated at will.  A broken one is ignored.
Receives == lw = "idle" /\ opened /\ requested

\* iotc_set_system_time_us(), in a critical section.  A clock that cannot be
\* written fails a CY_ASSERT; where that is compiled out the function goes on,
\* and callback_received is set all the same.
SetSystemTime == callbackReceived' = TRUE

\* Mutant of RecvProcess: the register is written before the clock.
RecvProcessMarks ==
    /\ Receives
    /\ lw' = "recv.mark"
    /\ reachability' = [reachability EXCEPT ![current] = SetBit(@)]
    /\ unanswered' = [unanswered EXCEPT ![current] = 0]
    /\ UNCHANGED <<opened, named, addressed, current, retryTimeout, timers,
                   requested, extra, overtook, obtainVars, callbackReceived>>

\* A correct answer, as far as sntp_process(): the clock is told the time.
\* Nothing but a DNS answer may be pending when a late packet comes, and then
\* the next request it schedules is one beside that of the DNS answer.
RecvProcess ==
    /\ Receives
    /\ lw' = "recv.mark"
    /\ SetSystemTime
    /\ IF timers["request"] + timers["tryNext"] = 0
       THEN extra < MaxExtra /\ extra' = extra + 1
       ELSE UNCHANGED extra
    /\ UNCHANGED <<opened, named, addressed, current, retryTimeout, reachability,
                   timers, requested, unanswered, overtook, obtainVars>>

\* Mutant of RecvMark: the next request is not scheduled.
RecvMarkNoNext ==
    /\ lw = "recv.mark"
    /\ lw' = "idle"
    /\ reachability' = [reachability EXCEPT ![current] = SetBit(@)]
    /\ unanswered' = [unanswered EXCEPT ![current] = 0]
    /\ timers' = Untimeout(Untimeout(timers, "tryNext"), "request")
    /\ retryTimeout' = RetryTimeout
    /\ overtook' = IF Sending THEN overtook \union {current} ELSE overtook \ {current}
    /\ UNCHANGED <<opened, named, addressed, current, requested, extra,
                   obtainVars, callbackReceived>>

\* The rest of sntp_recv(): the current server is reachable, whichever request
\* of whichever server the packet answers, late or twice; and the next request
\* is due after SNTP_UPDATE_DELAY and no earlier.
RecvMark ==
    /\ lw = "recv.mark"
    /\ lw' = "idle"
    /\ reachability' = [reachability EXCEPT ![current] = SetBit(@)]
    /\ unanswered' = [unanswered EXCEPT ![current] = 0]
    /\ timers' = Timeout(Untimeout(Untimeout(timers, "tryNext"), "request"), "request")
    /\ retryTimeout' = RetryTimeout
    /\ overtook' = IF Sending THEN overtook \union {current} ELSE overtook \ {current}
    /\ UNCHANGED <<opened, named, addressed, current, requested, extra,
                   obtainVars, callbackReceived>>

\* Kiss of death: another server, while the timeouts stay pending.
RecvKissOfDeath ==
    /\ Receives
    /\ extra < MaxExtra
    /\ extra' = extra + 1
    /\ TryNextServer(timers)
    /\ UNCHANGED <<opened, named, addressed, lw, overtook, obtainVars, callbackReceived>>

-----------------------------------------------------------------------------
(* iotc_mtb_time_obtain()                                                  *)

ObtainCall ==
    /\ app = "idle" /\ calls < MaxCalls
    /\ app' = "obt.mode"
    /\ calls' = calls + 1
    /\ UNCHANGED <<sntpVars, i, reachable, loaded, callbackReceived>>

\* sntp_setoperatingmode(SNTP_OPMODE_POLL), which does not hold while the
\* client runs: the assertion stops the program or is compiled out, and then
\* the mode is what it was.  Then sntp_setservername(0, server).
ObtainConfigure ==
    /\ app = "obt.mode"
    /\ app' = "obt.init"
    /\ named' = TRUE
    /\ UNCHANGED <<opened, addressed, current, retryTimeout, reachability, timers,
                   lw, requested, unanswered, extra, overtook,
                   i, reachable, loaded, calls, callbackReceived>>

\* sntp_init(): once.  The first request follows at once or, with
\* SNTP_STARTUP_DELAY, by a timeout.
ObtainInit ==
    /\ app = "obt.init"
    /\ i' = 0
    /\ \/ /\ ~opened
          /\ opened' = TRUE
          /\ retryTimeout' = RetryTimeout
          /\ \/ /\ app' = "obt.load"
                /\ Sent(current)
                /\ UNCHANGED <<reachability, timers>>
             \/ /\ app' = "obt.poll"
                /\ NoBuffer(timers) \/ (current = 0 /\ Lookup(timers))
             \/ /\ app' = "obt.poll"
                /\ timers' = Timeout(timers, "request")
                /\ UNCHANGED <<reachability, requested, unanswered>>
       \/ /\ opened
          /\ app' = "obt.poll"
          /\ UNCHANGED <<opened, retryTimeout, timers, reachability, requested, unanswered>>
    /\ UNCHANGED <<named, addressed, current, lw, extra, overtook,
                   reachable, loaded, calls, callbackReceived>>

\* The rest of the first sntp_send_request().  Shifting the register is a load
\* and a store, and lwIP's task may handle the answer before, between and after.
ObtainLoad ==
    /\ app = "obt.load"
    /\ app' = "obt.store"
    /\ loaded' = <<current, reachability[current]>>
    /\ UNCHANGED <<sntpVars, i, reachable, calls, callbackReceived>>

ObtainStore ==
    /\ app = "obt.store"
    /\ app' = "obt.await"
    /\ reachability' = [reachability EXCEPT ![loaded[1]] = Shift(loaded[2])]
    /\ loaded' = <<0, {}>>
    /\ UNCHANGED <<opened, named, addressed, current, retryTimeout, timers, lw,
                   requested, unanswered, extra, overtook,
                   i, reachable, calls, callbackReceived>>

\* sys_timeout(), in case the answer never comes.
ObtainAwait ==
    /\ app = "obt.await"
    /\ app' = "obt.poll"
    /\ timers' = Timeout(timers, "tryNext")
    /\ UNCHANGED <<opened, named, addressed, current, retryTimeout, reachability,
                   lw, requested, unanswered, extra, overtook,
                   i, reachable, loaded, calls, callbackReceived>>

\* Mutant of ObtainPoll: a test that fails is not counted.
ObtainPollUncounted ==
    /\ app = "obt.poll"
    /\ reachable' = (reachability[0] # {})
    /\ app' = IF reachability[0] = {} /\ i < MaxTries THEN "obt.poll" ELSE "obt.check"
    /\ UNCHANGED <<sntpVars, i, loaded, calls, callbackReceived>>

\* The test of the loop, and the wait of a second.
ObtainPoll ==
    /\ app = "obt.poll"
    /\ reachable' = (reachability[0] # {})
    /\ IF reachability[0] = {} /\ i < MaxTries
       THEN app' = "obt.poll" /\ i' = i + 1
       ELSE app' = "obt.check" /\ UNCHANGED i
    /\ UNCHANGED <<sntpVars, loaded, calls, callbackReceived>>

\* The results: no time, "No callback was received", the time.
ObtainReturn ==
    /\ app = "obt.check"
    /\ app' = "idle"
    /\ UNCHANGED <<sntpVars, i, reachable, loaded, calls, callbackReceived>>

-----------------------------------------------------------------------------

Obtain == \/ ObtainConfigure \/ ObtainInit \/ ObtainLoad \/ ObtainStore
          \/ ObtainAwait \/ ObtainPoll \/ ObtainReturn

Sntp == RequestTimeout \/ TryNextTimeout \/ DnsFound \/ DnsFailed \/ RecvMark

Network == RecvProcess \/ RecvKissOfDeath

Next == ObtainCall \/ Obtain \/ Sntp \/ Network

Fairness == WF_vars(Obtain) /\ WF_vars(Sntp)

Spec == Init /\ [][Next]_vars /\ Fairness

-----------------------------------------------------------------------------
(* Properties                                                              *)

\* Every variable has its type.
TypeOK == /\ opened \in BOOLEAN /\ named \in BOOLEAN
          /\ addressed \subseteq Servers \ {0}
          /\ current \in Servers
          /\ retryTimeout \in 0..(Word - 1)
          /\ reachability \in [Servers -> SUBSET Bits]
          /\ timers \in [Handlers -> Nat]
          /\ lw \in {"idle", "recv.mark"}
          /\ requested \in BOOLEAN
          /\ unanswered \in [Servers -> 0..ReachBits]
          /\ extra \in 0..MaxExtra
          /\ overtook \subseteq Servers
          /\ app \in {"idle", "obt.mode", "obt.init", "obt.load", "obt.store",
                      "obt.await", "obt.poll", "obt.check"}
          /\ loaded \in Servers \X SUBSET Bits
          /\ i \in 0..MaxTries
          /\ reachable \in BOOLEAN
          /\ callbackReceived \in BOOLEAN
          /\ calls \in 0..MaxCalls

\* The client never falls silent, whatever fails: once it runs a request is
\* due, or a lookup or an answer is awaited, or the first request is being sent.
\* And it asks once at a time: there is one chain of requests, and one more at
\* most for each kiss of death, each late answer, and an answer that comes
\* before the timeout for it is set.
Chains == timers["request"] + timers["tryNext"] + timers["dns"]
             + (IF Sending THEN 1 ELSE 0)

Scheduled == opened /\ lw = "idle" => 1 <= Chains /\ Chains <= 1 + extra

\* The wait between retries stays between its limits, and does not wrap.
RetryWithinLimits == RetryTimeout <= retryTimeout /\ retryTimeout <= RetryTimeoutMax

\* What iotc_mtb_time_obtain() takes for success, a register that is not 0,
\* means that one of the last eight requests to the server was answered, by any
\* packet sntp_recv() accepted while the server was current; and an answer to
\* one of these shows.  Not so where the last answer came while
\* the application's task was in the middle of sending, without lwIP's lock: the
\* answer is shifted out again, or one that was shifted out is stored again.
\* That ends with the next answer of the server.
ReachabilityIsRecent ==
    \A s \in Servers \ overtook : reachability[s] # {} <=> unanswered[s] < ReachBits

\* A server that the application's task sees as reachable has had its answer
\* given to iotc_set_system_time_us() first: "No callback was received from SNTP
\* module" is never printed.  Whether the clock took the time is not asked, by
\* the code as here.
ReachableMeansSet == (\E s \in Servers : reachability[s] # {}) \/ reachable
                        => callbackReceived

\* iotc_mtb_time_obtain() returns, with or without a network.
ObtainReturns == (app # "idle") ~> (app = "idle")

\* LWIP_ASSERT("Operating mode must not be set while SNTP client is running")
ModeSetWhileStopped == app = "obt.mode" => ~opened
=============================================================================

----------------------------- MODULE MCTimeSync ------------------------------
(***************************************************************************)
(* Model checking TimeSync: two servers, registers of two bits, and a      *)
(* word of eight in which the doubled timeout would overflow.              *)
(***************************************************************************)
EXTENDS TimeSync

MCNumServers == 2
MCRetryTimeout == 60
MCRetryTimeoutMax == 250
MCWord == 256
MCReachBits == 2
MCMaxTries == 2
MCMaxCalls == 2
MCMaxExtra == 3
=============================================================================

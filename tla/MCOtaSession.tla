---------------------------- MODULE MCOtaSession -----------------------------
(***************************************************************************)
(* Model checking OtaSession: two tasks of the application, and as many    *)
(* sessions as it takes for a notification of the first to reach the third.*)
(***************************************************************************)
EXTENDS OtaSession

CONSTANTS t1, t2

MCTasks == {t1, t2}
MCMaxStarts == 3
=============================================================================

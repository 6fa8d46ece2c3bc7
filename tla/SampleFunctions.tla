--------------------------- MODULE SampleFunctions ---------------------------
(***************************************************************************)
(* The sample functions App.h declares.  The repository keeps their source *)
(* but does not use it: the Makefile compiles none of their files (lines   *)
(* 87 and 122), Enclave.edl imports none of their interfaces and main      *)
(* calls none of them.  So no history of calls is there to be modelled,    *)
(* only each function by itself: one of them is called, once, by the one   *)
(* thread of the App; ecall_thread_functions then starts and joins others. *)
(***************************************************************************)
EXTENDS ThreadFunctions, EdgeRoutines

\* No edge routine has been called.
Free == stack = <<>> /\ status = "ok"

SampleInit == Init /\ EdgeInit

SampleNext ==
  \/ (calls = 0 /\ EdgeNext) /\ UNCHANGED threadVars
  \/ (Free /\ Next) /\ UNCHANGED edgeVars

\* ecall_thread_functions under way is scheduled as before.
SampleSpec == SampleInit /\ [][SampleNext]_<<threadVars, edgeVars>> /\ Fairness

=============================================================================

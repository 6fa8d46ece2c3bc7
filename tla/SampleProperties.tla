-------------------------- MODULE SampleProperties --------------------------
(***************************************************************************)
(* What must hold of the sample functions, beside what the threads of      *)
(* ecall_thread_functions rely on.                                         *)
(***************************************************************************)
EXTENDS SampleFunctions, ThreadFunctionsProperties

(***************************************************************************)
(* Every assertion of the edge routines holds, on both sides of every      *)
(* call, nested ones included: what the bridges copy in and out, and what  *)
(* they refuse, is what App and enclave assert of the data after the call  *)
(* (App/Edger8rSyntax: Pointers.cpp:48-102, Arrays.cpp:48-89, Types.cpp:74,*)
(* Functions.cpp:51,63; and the routines they call).                       *)
(***************************************************************************)
ChecksPass == status # "failed"

=============================================================================

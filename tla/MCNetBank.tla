----------------------------- MODULE MCNetBank -----------------------------
(***************************************************************************)
(* Instances of NetBank for TLC; the configurations give the values.       *)
(***************************************************************************)
EXTENDS NetBankProperties, DealManagerProperties

=============================================================================

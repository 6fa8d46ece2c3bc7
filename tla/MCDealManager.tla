--------------------------- MODULE MCDealManager ---------------------------
(***************************************************************************)
(* Instances of DealManager for TLC; the configurations give the values.   *)
(***************************************************************************)
EXTENDS DealManagerProperties

\* Servers run the same program on the same file.
ServerSymmetry == Permutations(Servers)

=============================================================================

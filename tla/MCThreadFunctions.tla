------------------------- MODULE MCThreadFunctions -------------------------
(***************************************************************************)
(* SampleFunctions for TLC: the four adders and four consumers of the code *)
(* with a small loop and a small buffer, named by threads.cfg.             *)
(***************************************************************************)
EXTENDS SampleProperties

=============================================================================

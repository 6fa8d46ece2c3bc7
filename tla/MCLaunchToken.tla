--------------------------- MODULE MCLaunchToken ---------------------------
(***************************************************************************)
(* Instances of LaunchToken, a server with its start, for TLC.  Tokens are *)
(* alike, but a run with a temporal property declares no symmetry.         *)
(***************************************************************************)
EXTENDS LaunchTokenProperties

=============================================================================

---------------------------- MODULE MCWireBuffer ----------------------------
(***************************************************************************)
(* Instances of WireBuffer for TLC.                                        *)
(***************************************************************************)
EXTENDS WireBufferProperties

Plain(lengths) == [len : lengths, commas : {{}}]

MCNames     == Plain({3, 5}) \cup {[len |-> 4, commas |-> {1}]}
MCPasswords == Plain({1, 2, 6})

\* A session with one account: alice, secret.
OneName     == Plain({5})
OnePassword == Plain({6})

=============================================================================

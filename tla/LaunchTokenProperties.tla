------------------------ MODULE LaunchTokenProperties ------------------------
(***************************************************************************)
(* What must hold of the starts of a server and of the token file, beside  *)
(* what DealManagerProperties says of the bank that runs afterwards.       *)
(***************************************************************************)
EXTENDS LaunchToken, DealManagerProperties

(***************************************************************************)
(* Types of the state, and that fp is not NULL where it is handed to       *)
(* freopen and to fwrite (App.cpp:164, 166).                               *)
(***************************************************************************)
TokenTypeOK ==
  /\ boot  \in [Servers -> {"none", "read", "create", "save", "write", "done"}]
  /\ token \in [Servers -> Seq(Tokens \cup {Blank})]
  /\ fp    \in [Servers -> {"none", "rb", "wb"}]
  /\ token_file = NoFile \/ token_file \in Seq(Tokens)
  /\ \A s \in Servers : boot[s] \in {"save", "write"} => fp[s] # "none"

(***************************************************************************)
(* With one server: what sgx_create_enclave is handed is a token as the    *)
(* SDK has issued it, or zeroes, whichever start was killed or ran out of  *)
(* disk in the middle of saving one before (App.cpp:140-145).              *)
(***************************************************************************)
HandedIsWhole ==
  \A s \in Servers :
    boot[s] = "create" => token[s] \in {Zero} \cup {Whole(t) : t \in Tokens}

(***************************************************************************)
(* On each of its ways out, through an error, without a new token or after *)
(* a failed freopen, initialize_enclave has closed the token file; and the *)
(* bank only runs once it has returned (App.cpp:152, 159, 165, 169).       *)
(***************************************************************************)
NothingLeftOpen ==
  \A s \in Servers :
    /\ fp[s] # "none" => boot[s] \in {"read", "create", "save", "write"}
    /\ proc[s] # "down" => boot[s] = "done"

=============================================================================

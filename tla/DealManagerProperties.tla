----------------------- MODULE DealManagerProperties -----------------------
(***************************************************************************)
(* What must hold of the enclaves and of the file they share.              *)
(***************************************************************************)
EXTENDS DealManager, SequencesExt

Files == [size : Nat, plain : Seq(Accounts), bytes : Nat]

(***************************************************************************)
(* Types of the state, and that current_account never dangles: it is NULL  *)
(* or points into the list the enclave has in memory now, in particular    *)
(* after a restart, and is not NULL while a change to it is being stored.  *)
(***************************************************************************)
TypeOK ==
  /\ proc \in [Servers -> Phases]
  /\ account_list \in [Servers -> Seq(Accounts)]
  /\ current_account \in [Servers -> Nat]
  /\ call \in [Servers -> Calls \cup {None}]
  /\ ret \in [Servers -> UInt64 \cup {Undefined}]
  /\ heap \in [Servers -> 0 .. HeapMaxSize]
  /\ sized \in [Servers -> Nat]
  /\ file \in Files
  /\ \A s \in Servers :
       /\ current_account[s] <= Len(account_list[s])
       /\ proc[s] = "store" => AccountLogin(s) /\ call[s] \in Calls

Distinct(list) ==
  \A i, j \in DOMAIN list : list[i].name = list[j].name => i = j

(***************************************************************************)
(* A name identifies an account, in every enclave and in the file, however *)
(* many servers share the file and whatever crashes: ecallNewAccount's     *)
(* search finds the one account and never a shadowed one.                  *)
(***************************************************************************)
UniqueNames ==
  /\ \A s \in Servers : Distinct(account_list[s])
  /\ Distinct(file.plain)

(***************************************************************************)
(* With one server: between two ecalls what the enclave has in memory is   *)
(* what a restart would read back, so a balance the App was given is on    *)
(* disk before the App can report it (Enclave.cpp stores, then returns).   *)
(***************************************************************************)
Durable ==
  \A s \in Servers :
    proc[s] = "idle" /\ account_list[s] # <<>> =>
      /\ Unseals(file, file.size)
      /\ file.plain = account_list[s]

Ids(list) ==
  [i \in DOMAIN list |-> [name |-> list[i].name, password |-> list[i].password]]

(***************************************************************************)
(* With one server, even if a list outgrows the uint16_t sizes of sealing  *)
(* and is stored in part or not at all, and even if flushes fail: what is  *)
(* on disk is an earlier state of the same list, never another list.  The  *)
(* accounts are the first ones the enclave knows, with their passwords.    *)
(***************************************************************************)
StoredIsEarlier ==
  \A s \in Servers :
    proc[s] \in {"idle", "store"} =>
      IsPrefix(Ids(file.plain), Ids(account_list[s]))

Has(list, name, password) ==
  \E i \in DOMAIN list : list[i].name = name /\ list[i].password = password

(***************************************************************************)
(* With one server: an account that has once been readable on disk is      *)
(* known to every enclave that works from then on.  A file torn by a crash *)
(* or by a failed flush is not taken for an empty bank, and a new account  *)
(* not stored over it: a start reads all accounts or does not work.        *)
(***************************************************************************)
NothingForgotten ==
  \A name \in Names, password \in Passwords :
    [](Has(file.plain, name, password) =>
         [](\A s \in Servers :
              proc[s] \in {"idle", "store"} =>
                Has(account_list[s], name, password)))

(***************************************************************************)
(* An account that has been stored stays stored, with its password.        *)
(***************************************************************************)
AccountsSurvive ==
  [][IsPrefix(Ids(file.plain), Ids(file'.plain))]_vars

(***************************************************************************)
(* The session moves to an account that exists only when the login has     *)
(* succeeded: the client is told "wrong password, please log in again"     *)
(* (client.cpp:90) when the passwords differ (Enclave.cpp:44).             *)
(***************************************************************************)
RefusedLoginStays ==
  [][\A s \in Servers :
       /\ proc[s] = "idle" /\ proc'[s] = "idle"
       /\ current_account'[s] # current_account[s]
       => ret'[s] = PROCESS_SUCCESS]_vars

-----------------------------------------------------------------------------
(* The enclave implements BankService *)

TheServer == CHOOSE s \in Servers : TRUE

\* The accounts of a list, by name.
BookOf(list) ==
  [name \in {list[i].name : i \in DOMAIN list} |->
     LET i == CHOOSE j \in DOMAIN list : IsFirst(list, j, name)
     IN  [password |-> list[i].password, deposits |-> list[i].deposits]]

\* The call an enclave is storing the effect of, with the account it is for.
RequestOf(s) ==
  IF proc[s] # "store" THEN None
  ELSE CASE call[s].op = "ecallNewAccount" ->
              [op |-> "open", name |-> Current(s).name,
               password |-> Current(s).password]
         [] call[s].op = "ecallMyDeposit" ->
              [op |-> "deposit", name |-> Current(s).name,
               amount |-> call[s].amount]
         [] call[s].op = "ecallMyWithdraw" ->
              [op |-> "withdraw", name |-> Current(s).name,
               amount |-> call[s].amount]

Bank == INSTANCE BankService WITH
  MaxBalance    <- UINT64_MAX,
  Success       <- PROCESS_SUCCESS,
  NoAccount     <- NEED_LOGOUT,
  WrongPassword <- ACCOUNT_SET_FAIL,
  NoRequest     <- None,
  NoAnswer      <- Undefined,
  book          <- BookOf(file.plain),
  request       <- RequestOf(TheServer),
  answer        <- ret[TheServer]

ASSUME RequestAssumption == None \notin Bank!Requests

(***************************************************************************)
(* With one server and no disk faults every ecall is a BankService call:   *)
(* its effect is on disk at most once, exactly once when it is answered,   *)
(* never in part, and the answer is the stored balance.                    *)
(***************************************************************************)
ImplementsBank == Bank!Spec

=============================================================================

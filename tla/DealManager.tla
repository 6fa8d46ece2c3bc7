---------------------------- MODULE DealManager ----------------------------
(***************************************************************************)
(* The enclave side of the bank: the DealManager object (account list and  *)
(* current account), the five ecalls of Enclave/Enclave.cpp that work on   *)
(* it, and the "account" file it is stored in after every change.          *)
(*                                                                         *)
(* The server program takes an instance number (its port is 1230 + that    *)
(* number) but every instance uses the same file, so the module has a set  *)
(* of servers.  Each has an enclave of its own and they share only `file'. *)
(*                                                                         *)
(* An ecall that stores is two steps, before and during its ocall: other   *)
(* servers, a crash or the loss of the enclave can come between.           *)
(***************************************************************************)
EXTENDS Sealing

CONSTANTS
  Servers,      \* running instances of the App program
  Names,        \* account names users type
  Passwords,    \* passwords users type
  Amounts,      \* amounts the App passes to the enclave
  HeapMaxSize,  \* enclave heap left for stores after boot
  TornWrites,   \* may a process die half way through a write?
  FlushFails,   \* may the flush in ofs.close() fail, or stop half way?
  None,         \* no ecall is storing
  Undefined     \* a return value no ecall has written

ASSUME DealManagerAssumption ==
  /\ Amounts \subseteq UInt64
  /\ HeapMaxSize \in Nat
  /\ TornWrites \in BOOLEAN
  /\ FlushFails \in BOOLEAN
  /\ Undefined \notin UInt64
  /\ None \notin [op : STRING, amount : UInt64]

VARIABLES
  proc,             \* where each server process is, see Phases
  account_list,     \* DealManager::account_list of each enclave
  current_account,  \* index of the account logged in to; 0 is NULL
  call,             \* the ecall whose AccountListStoreStorage is under way
  ret,              \* what the last ecall returned, Undefined if nothing yet
  heap,             \* enclave heap left; nothing a store allocates is freed
  sized,            \* sealed_account_list_size, during AccountListSetting
  file              \* the "account" file shared by all servers

vars == <<proc, account_list, current_account, call, ret, heap, sized, file>>

(***************************************************************************)
(*   down    no process                                                    *)
(*   load    in ecallInitManager, the file size is known, not its content  *)
(*   idle    the enclave waits for the next ecall                          *)
(*   store   an ecall has changed account_list and is storing it           *)
(*   orphan  the process runs, its enclave has crashed or was lost         *)
(***************************************************************************)
Phases == {"down", "load", "idle", "store", "orphan"}

Accounts == [name : Names, password : Passwords, deposits : UInt64]

StoringOps == {"ecallNewAccount", "ecallMyDeposit", "ecallMyWithdraw"}

Calls == [op : StoringOps, amount : UInt64]

Init ==
  /\ proc            = [s \in Servers |-> "down"]
  /\ account_list    = [s \in Servers |-> <<>>]
  /\ current_account = [s \in Servers |-> 0]
  /\ call            = [s \in Servers |-> None]
  /\ ret             = [s \in Servers |-> Undefined]
  /\ heap            = [s \in Servers |-> HeapMaxSize]
  /\ sized           = [s \in Servers |-> 0]
  /\ file            = EmptyFile

-----------------------------------------------------------------------------
(* Helpers *)

\* DealManager::AccountLogin
AccountLogin(s) == current_account[s] # 0

\* The account current_account points to.
Current(s) == account_list[s][current_account[s]]

\* ecallNewAccount stops at the first account of that name.
IsFirst(list, i, name) ==
  /\ list[i].name = name
  /\ \A j \in 1 .. i - 1 : list[j].name # name

\* Variant for the mutants: the constructor leaves current_account alone.
ClearEnclaveButLogin(s) ==
  /\ account_list' = [account_list EXCEPT ![s] = <<>>]
  /\ call'         = [call EXCEPT ![s] = None]
  /\ heap'         = [heap EXCEPT ![s] = HeapMaxSize]
  /\ UNCHANGED current_account

\* Everything an enclave holds is gone, or not there yet.
ClearEnclave(s) ==
  /\ account_list'    = [account_list    EXCEPT ![s] = <<>>]
  /\ current_account' = [current_account EXCEPT ![s] = 0]
  /\ call'            = [call EXCEPT ![s] = None]
  /\ heap'            = [heap EXCEPT ![s] = HeapMaxSize]

\* Leave the enclave to an ocall that stores account_list.
EnterStore(s, op, amount) ==
  /\ proc' = [proc EXCEPT ![s] = "store"]
  /\ call' = [call EXCEPT ![s] = [op |-> op, amount |-> amount]]
  /\ ret'  = [ret  EXCEPT ![s] = Undefined]
  /\ UNCHANGED <<heap, sized, file>>

\* Return from an ecall that stores nothing.
Return(s, value) ==
  /\ ret' = [ret EXCEPT ![s] = value]
  /\ UNCHANGED <<proc, account_list, call, heap, sized, file>>

-----------------------------------------------------------------------------
(* ecallInitManager *)

\* A server starts; its enclave learns the size of the file.
InitManagerSize(s) ==
  /\ proc[s] = "down"
  /\ proc'  = [proc  EXCEPT ![s] = "load"]
  /\ sized' = [sized EXCEPT ![s] = file.size]
  /\ ClearEnclave(s)
  /\ UNCHANGED <<ret, file>>

\* Variant for the mutants: what does not unseal is taken for an empty list.
InitManagerLoadLenient(s) ==
  /\ proc[s] = "load"
  /\ proc' = [proc EXCEPT ![s] = "idle"]
  /\ account_list' = [account_list EXCEPT
       ![s] = IF Unseals(file, sized[s]) THEN file.plain ELSE <<>>]
  /\ sized' = [sized EXCEPT ![s] = 0]
  /\ UNCHANGED <<current_account, call, ret, heap, file>>

\* Variant for the mutants: the scan of the text stops before the last account.
InitManagerLoadButLast(s) ==
  /\ proc[s] = "load"
  /\ proc' = [proc EXCEPT ![s] = "idle"]
  /\ account_list' = [account_list EXCEPT ![s] =
       IF file.plain = <<>> THEN <<>>
       ELSE SubSeq(file.plain, 1, Len(file.plain) - 1)]
  /\ sized' = [sized EXCEPT ![s] = 0]
  /\ UNCHANGED <<current_account, call, ret, heap, file>>

(***************************************************************************)
(* The second ocall fetches as many bytes as the first one reported, even  *)
(* if another server has written the file in between.  An unseal that      *)
(* fails is only printed; the scan of the zeroed text then runs away.      *)
(***************************************************************************)
InitManagerLoad(s) ==
  /\ proc[s] = "load"
  /\ \/ /\ sized[s] = 0
        /\ proc' = [proc EXCEPT ![s] = "idle"]
        /\ UNCHANGED account_list
     \/ /\ sized[s] > 0
        /\ Unseals(file, sized[s])
        /\ proc' = [proc EXCEPT ![s] = "idle"]
        /\ account_list' = [account_list EXCEPT ![s] = file.plain]
     \/ /\ sized[s] > 0
        /\ ~Unseals(file, sized[s])
        /\ proc' = [proc EXCEPT ![s] = "orphan"]
        /\ UNCHANGED account_list
  /\ sized' = [sized EXCEPT ![s] = 0]
  /\ UNCHANGED <<current_account, call, ret, heap, file>>

-----------------------------------------------------------------------------
(* ecallNewAccount, ecallMyDeposit, ecallMyWithdraw, ecallMyInquiry *)

\* The name exists: current_account moves before the password is compared.
LoginExisting(s, name, password) ==
  /\ proc[s] = "idle"
  /\ \E i \in DOMAIN account_list[s] :
       /\ IsFirst(account_list[s], i, name)
       /\ current_account' = [current_account EXCEPT ![s] = i]
       /\ Return(s, IF password = account_list[s][i].password
                    THEN PROCESS_SUCCESS ELSE ACCOUNT_SET_FAIL)

\* Variant for the mutants: the search misses the first account.
OpenAccountOffByOne(s, name, password) ==
  /\ proc[s] = "idle"
  /\ \A i \in 2 .. Len(account_list[s]) : account_list[s][i].name # name
  /\ account_list' =
       [account_list EXCEPT ![s] = Append(@, NewAccount(name, password))]
  /\ current_account' =
       [current_account EXCEPT ![s] = Len(account_list[s]) + 1]
  /\ EnterStore(s, "ecallNewAccount", 0)

\* Variant for the mutants: the account goes to the front of the list.
OpenAccountInFront(s, name, password) ==
  /\ proc[s] = "idle"
  /\ \A i \in DOMAIN account_list[s] : account_list[s][i].name # name
  /\ account_list' =
       [account_list EXCEPT ![s] = <<NewAccount(name, password)>> \o @]
  /\ current_account' = [current_account EXCEPT ![s] = 1]
  /\ EnterStore(s, "ecallNewAccount", 0)

\* The name is new: the account is created, logged in to and stored.
OpenAccount(s, name, password) ==
  /\ proc[s] = "idle"
  /\ \A i \in DOMAIN account_list[s] : account_list[s][i].name # name
  /\ account_list' =
       [account_list EXCEPT ![s] = Append(@, NewAccount(name, password))]
  /\ current_account' =
       [current_account EXCEPT ![s] = Len(account_list[s]) + 1]
  /\ EnterStore(s, "ecallNewAccount", 0)

\* Deposit and withdraw without a login return a code where the App expects
\* a balance.
NeedLogout(s) ==
  /\ proc[s] = "idle"
  /\ ~AccountLogin(s)
  /\ Return(s, NEED_LOGOUT)
  /\ UNCHANGED current_account

EcallMyDeposit(s, amount) ==
  /\ proc[s] = "idle"
  /\ AccountLogin(s)
  /\ account_list' = [account_list EXCEPT
       ![s][current_account[s]] = Deposit(@, amount)]
  /\ EnterStore(s, "ecallMyDeposit", amount)
  /\ UNCHANGED current_account

\* Variant for the mutants: the list is not stored.
EcallMyWithdrawUnstored(s, amount) ==
  /\ proc[s] = "idle"
  /\ AccountLogin(s)
  /\ account_list' = [account_list EXCEPT
       ![s][current_account[s]] = Withdraw(@, amount)]
  /\ ret' = [ret EXCEPT ![s] = account_list'[s][current_account[s]].deposits]
  /\ UNCHANGED <<proc, current_account, call, heap, sized, file>>

EcallMyWithdraw(s, amount) ==
  /\ proc[s] = "idle"
  /\ AccountLogin(s)
  /\ account_list' = [account_list EXCEPT
       ![s][current_account[s]] = Withdraw(@, amount)]
  /\ EnterStore(s, "ecallMyWithdraw", amount)
  /\ UNCHANGED current_account

\* The App inquires only after a login that did not fail.
EcallMyInquiry(s) ==
  /\ proc[s] = "idle"
  /\ AccountLogin(s)
  /\ Return(s, Current(s).deposits)
  /\ UNCHANGED current_account

\* The enclave has crashed or was lost: the SDK only returns an error code,
\* which the App ignores, and the ecall returns nothing.
EcallFails(s) ==
  /\ proc[s] = "orphan"
  /\ ret' = [ret EXCEPT ![s] = Undefined]
  /\ UNCHANGED <<proc, account_list, current_account, call, heap, sized, file>>

-----------------------------------------------------------------------------
(* AccountListStoreStorage, from inside one of the storing ecalls *)

StoreCost(s) == MarshalSize(account_list[s]) + SealedSize(account_list[s])

\* What the storing ecall returns once the list is stored.
StoreResult(s) ==
  IF call[s].op = "ecallNewAccount"
  THEN PROCESS_SUCCESS ELSE Current(s).deposits

(***************************************************************************)
(* The list is written and the ecall returns.  ofs.fail() is tested before *)
(* ofs.close() flushes the buffer, so a failing flush goes unnoticed,      *)
(* whether it has written nothing or a part, and the server goes on.       *)
(***************************************************************************)
AccountListStoreStorage(s) ==
  /\ proc[s] = "store"
  /\ heap[s] >= StoreCost(s)
  /\ \/ file' = Overwritten(file, account_list[s])
     \/ FlushFails /\ (UNCHANGED file \/ file' = HalfWritten(file))
  /\ heap' = [heap EXCEPT ![s] = @ - StoreCost(s)]
  /\ ret'  = [ret  EXCEPT ![s] = StoreResult(s)]
  /\ call' = [call EXCEPT ![s] = None]
  /\ proc' = [proc EXCEPT ![s] = "idle"]
  /\ UNCHANGED <<account_list, current_account, sized>>

\* calloc has no room for the marshalled list: the copy to NULL faults.
MarshalOutOfMemory(s) ==
  /\ proc[s] = "store"
  /\ heap[s] < MarshalSize(account_list[s])
  /\ proc' = [proc EXCEPT ![s] = "orphan"]
  /\ ClearEnclave(s)
  /\ UNCHANGED <<ret, sized, file>>

(***************************************************************************)
(* calloc has no room for the sealed image: that is only printed, and the  *)
(* ocall is left with a NULL buffer the process cannot write from.         *)
(***************************************************************************)
SealOutOfMemory(s) ==
  /\ proc[s] = "store"
  /\ heap[s] >= MarshalSize(account_list[s])
  /\ heap[s] < StoreCost(s)
  /\ proc' = [proc EXCEPT ![s] = "down"]
  /\ ClearEnclave(s)
  /\ UNCHANGED <<ret, sized, file>>

-----------------------------------------------------------------------------
(* The environment *)

\* A power transition: the SDK reports the enclave lost from then on.
EnclaveLost(s) ==
  /\ proc[s] \in {"load", "idle", "store"}
  /\ proc'  = [proc  EXCEPT ![s] = "orphan"]
  /\ sized' = [sized EXCEPT ![s] = 0]
  /\ ClearEnclave(s)
  /\ UNCHANGED <<ret, file>>

(***************************************************************************)
(* The process ends: killed, exit(EXIT_FAILURE) in an ocall that cannot    *)
(* open or write the file, or the regular end of main.                     *)
(***************************************************************************)
ProcessEnds(s) ==
  /\ proc[s] # "down"
  /\ proc'  = [proc  EXCEPT ![s] = "down"]
  /\ sized' = [sized EXCEPT ![s] = 0]
  /\ ClearEnclave(s)
  /\ ret' = [ret EXCEPT ![s] = Undefined]
  /\ \/ UNCHANGED file
     \/ TornWrites /\ proc[s] = "store" /\ file' = HalfWritten(file)

-----------------------------------------------------------------------------

Ecall(s) ==
  \/ \E name \in Names, password \in Passwords :
       LoginExisting(s, name, password) \/ OpenAccount(s, name, password)
  \/ NeedLogout(s)
  \/ \E amount \in Amounts :
       EcallMyDeposit(s, amount) \/ EcallMyWithdraw(s, amount)
  \/ EcallMyInquiry(s)
  \/ EcallFails(s)

Store(s) ==
  \/ AccountListStoreStorage(s)
  \/ MarshalOutOfMemory(s)
  \/ SealOutOfMemory(s)

Next ==
  \E s \in Servers :
    \/ InitManagerSize(s) \/ InitManagerLoad(s)
    \/ Ecall(s)
    \/ Store(s)
    \/ EnclaveLost(s) \/ ProcessEnds(s)

Spec == Init /\ [][Next]_vars

=============================================================================

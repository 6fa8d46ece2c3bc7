------------------------------ MODULE Account ------------------------------
(***************************************************************************)
(* One bank account (Enclave/Account.cpp) and the result codes of the      *)
(* enclave (Include/user_types.h).  Balances are uint64_t: UINT64_MAX is a *)
(* parameter so that TLC can check a narrow machine word, every addition   *)
(* and subtraction is taken modulo UINT64_MAX + 1, as the hardware does.   *)
(***************************************************************************)
EXTENDS Integers

CONSTANT
  UINT64_MAX   \* the largest balance; 2^64 - 1 in the code

(***************************************************************************)
(* Balances and result codes travel through the same uint64_t return value *)
(* of an ecall, so the word is at least wide enough for the four codes.    *)
(***************************************************************************)
ASSUME WordAssumption == UINT64_MAX \in Nat /\ UINT64_MAX >= 3

UInt64 == 0 .. UINT64_MAX

Wrap64(x) == x % (UINT64_MAX + 1)

\* enum ProcessResult
PROCESS_SUCCESS  == 0
DEPOSIT_OVERFLOW == 1
NEED_LOGOUT      == 2
ACCOUNT_SET_FAIL == 3

\* A fresh account has no money in it.
NewAccount(name, password) ==
  [name |-> name, password |-> password, deposits |-> 0]

(***************************************************************************)
(* Deposit and Withdraw as DealManager uses them: the account afterwards.  *)
(* Both methods return DEPOSIT_OVERFLOW when they refuse, and both callers *)
(* (DealMyDeposit, DealMyWithdraw) drop that result.                       *)
(***************************************************************************)
Deposit(account, amount) ==
  IF UINT64_MAX - account.deposits < amount
  THEN account
  ELSE [account EXCEPT !.deposits = Wrap64(@ + amount)]

\* Variant for the mutants: no comparison with the balance.
WithdrawUnchecked(account, amount) ==
  [account EXCEPT !.deposits = Wrap64(@ - amount)]

Withdraw(account, amount) ==
  IF account.deposits < amount
  THEN account
  ELSE [account EXCEPT !.deposits = Wrap64(@ - amount)]

=============================================================================

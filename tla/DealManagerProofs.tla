------------------------- MODULE DealManagerProofs -------------------------
(***************************************************************************)
(* Theorems about DealManager, for every number of servers, every set of   *)
(* names, passwords and amounts, every word width, account size, size      *)
(* limit and heap, and with or without disk faults.                        *)
(***************************************************************************)
EXTENDS DealManagerProperties, SequenceTheorems, FiniteSetTheorems, TLAPS

-----------------------------------------------------------------------------
(* Arithmetic of Sealing *)

LEMMA ProductNat ==
  ASSUME NEW a \in Nat, NEW n \in Nat
  PROVE  a * n \in Nat
OBVIOUS

LEMMA ModBound ==
  ASSUME NEW x \in Nat, NEW m \in Nat \ {0}
  PROVE  x % m \in Nat /\ x % m <= x /\ x % m < m
OBVIOUS

\* A text of at most n accounts holds at most n whole accounts.
LEMMA WholeAccounts ==
  ASSUME NEW a \in Nat \ {0}, NEW n \in Nat, NEW p \in Nat, p <= a * n
  PROVE  p \div a \in 0 .. n
<1> DEFINE q == p \div a
<1>1. q \in Nat /\ p >= a * q
  OBVIOUS
<1>2. q <= n
  <2> SUFFICES ASSUME q >= n + 1 PROVE FALSE
    BY <1>1
  <2>1. a * q >= a * (n + 1)
    BY <1>1
  <2>2. a * (n + 1) = a * n + a
    OBVIOUS
  <2> QED
    BY <1>1, <2>1, <2>2
<1> QED
  BY <1>1, <1>2

-----------------------------------------------------------------------------
(* Accounts, images and files keep their types *)

LEMMA UInt64Facts ==
  /\ UINT64_MAX \in Nat
  /\ UInt64 \subseteq Nat
  /\ {PROCESS_SUCCESS, DEPOSIT_OVERFLOW, NEED_LOGOUT, ACCOUNT_SET_FAIL}
       \subseteq UInt64
BY WordAssumption
   DEF UInt64, PROCESS_SUCCESS, DEPOSIT_OVERFLOW, NEED_LOGOUT, ACCOUNT_SET_FAIL

\* A balance stays a word and its account keeps its name and password.
LEMMA DepositAccount ==
  ASSUME NEW account \in Accounts, NEW amount \in Amounts
  PROVE  /\ Deposit(account, amount) \in Accounts
         /\ Deposit(account, amount).name = account.name
         /\ Deposit(account, amount).password = account.password
<1>1. account.deposits \in UInt64 /\ amount \in UInt64
  BY DealManagerAssumption DEF Accounts
<1>2. Wrap64(account.deposits + amount) \in UInt64
  BY <1>1, WordAssumption DEF Wrap64, UInt64
<1> QED
  BY <1>2 DEF Deposit, Accounts

LEMMA WithdrawAccount ==
  ASSUME NEW account \in Accounts, NEW amount \in Amounts
  PROVE  /\ Withdraw(account, amount) \in Accounts
         /\ Withdraw(account, amount).name = account.name
         /\ Withdraw(account, amount).password = account.password
<1>1. account.deposits \in UInt64 /\ amount \in UInt64
  BY DealManagerAssumption DEF Accounts
<1>2. Wrap64(account.deposits - amount) \in UInt64
  BY <1>1, WordAssumption DEF Wrap64, UInt64
<1> QED
  BY <1>2 DEF Withdraw, Accounts

LEMMA NewAccountType ==
  ASSUME NEW name \in Names, NEW password \in Passwords
  PROVE  /\ NewAccount(name, password) \in Accounts
         /\ NewAccount(name, password).name = name
BY UInt64Facts DEF NewAccount, Accounts, UInt64

LEMMA SizeTypes ==
  ASSUME NEW list \in Seq(Accounts)
  PROVE  /\ MarshalSize(list) \in Nat
         /\ PlainSize(list) \in Nat
         /\ PlainSize(list) <= MarshalSize(list)
         /\ SealedSize(list) \in Nat
<1>1. MarshalSize(list) \in Nat
  BY ProductNat, LenProperties, SealingAssumption DEF MarshalSize
<1>2. PlainSize(list) \in Nat /\ PlainSize(list) <= MarshalSize(list)
  BY <1>1, ModBound, SealingAssumption DEF PlainSize
<1>3. SealHeader + PlainSize(list) \in Nat
  BY <1>2, SealingAssumption
<1>4. SealedSize(list) \in Nat
  BY <1>3, ModBound, SealingAssumption DEF SealedSize
<1> QED
  BY <1>1, <1>2, <1>4

\* What gets sealed is the list cut off somewhere: the size may have wrapped.
LEMMA SealedImageCut ==
  ASSUME NEW list \in Seq(Accounts)
  PROVE  /\ SealedImage(list).bytes \in Nat
         /\ \E n \in 0 .. Len(list) :
              SealedImage(list).plain = SubSeq(list, 1, n)
<1> DEFINE n == PlainSize(list) \div AccountSize
<1>1. n \in 0 .. Len(list)
  BY SizeTypes, WholeAccounts, LenProperties, SealingAssumption DEF MarshalSize
<1>2. SubSeq(list, 1, 0) = <<>> /\ 0 \in 0 .. Len(list)
  BY SubSeqEmpty, LenProperties
<1>3. CASE PlainSize(list) > 0 /\ SealHeader + PlainSize(list) < SealModulus
  BY <1>1, <1>3, SizeTypes DEF SealedImage
<1>4. CASE ~(PlainSize(list) > 0 /\ SealHeader + PlainSize(list) < SealModulus)
  BY <1>2, <1>4 DEF SealedImage, NotAnImage
<1> QED
  BY <1>3, <1>4

LEMMA CutType ==
  ASSUME NEW list \in Seq(Accounts), NEW n \in 0 .. Len(list)
  PROVE  /\ SubSeq(list, 1, n) \in Seq(Accounts)
         /\ Len(SubSeq(list, 1, n)) = n
         /\ \A i \in 1 .. n : SubSeq(list, 1, n)[i] = list[i]
<1>1. n \in Nat /\ Len(list) \in Nat
  BY LenProperties
<1>2. \A i \in 1 .. n : list[i] \in Accounts
  BY <1>1, ElementOfSeq
<1> QED
  BY <1>1, <1>2, SubSeqProperties

LEMMA LargerType ==
  ASSUME NEW m \in Nat, NEW n \in Nat
  PROVE  Larger(m, n) \in Nat /\ Larger(m, n) >= m /\ Larger(m, n) >= n
BY DEF Larger

LEMMA OverwrittenType ==
  ASSUME NEW f \in Files, NEW list \in Seq(Accounts)
  PROVE  Overwritten(f, list) \in Files
<1>1. PICK n \in 0 .. Len(list) : SealedImage(list).plain = SubSeq(list, 1, n)
  BY SealedImageCut
<1>2. SealedImage(list).plain \in Seq(Accounts)
  BY <1>1, CutType
<1>3. SealedImage(list).bytes \in Nat
  BY SealedImageCut
<1>4. f.size \in Nat
  BY DEF Files
<1>5. Larger(f.size, SealedSize(list)) \in Nat
  BY <1>4, SizeTypes, LargerType
<1> QED
  BY <1>2, <1>3, <1>5 DEF Overwritten, Files

LEMMA HalfWrittenType ==
  ASSUME NEW f \in Files
  PROVE  /\ HalfWritten(f) \in Files
         /\ HalfWritten(f).size > 0
         /\ HalfWritten(f).plain = <<>>
         /\ HalfWritten(f).bytes = 0
<1>1. Larger(f.size, 1) \in Nat /\ Larger(f.size, 1) >= 1
  BY LargerType DEF Files
<1> QED
  BY <1>1, EmptySeq DEF HalfWritten, Files

-----------------------------------------------------------------------------
(* Type correctness *)

(***************************************************************************)
(* TypeOK alone is not inductive: the list an enclave loads at start may   *)
(* be shorter than anything said of current_account, unless nobody can     *)
(* have logged in before the list is there.                                *)
(***************************************************************************)
NoLoginBeforeLoad ==
  \A s \in Servers : proc[s] = "load" => current_account[s] = 0

TypeInv == TypeOK /\ NoLoginBeforeLoad

LEMMA InitTypeInv == Init => TypeInv
<1> SUFFICES ASSUME Init PROVE TypeInv
  OBVIOUS
<1> USE DEF Init
<1>1. EmptyFile \in Files
  BY EmptySeq DEF EmptyFile, Files
<1>2. <<>> \in Seq(Accounts) /\ Len(<<>>) = 0
  BY EmptySeq
<1> QED
  BY <1>1, <1>2, DealManagerAssumption DEF TypeInv, TypeOK, NoLoginBeforeLoad, Phases

\* The account an enclave works on is there.
LEMMA CurrentAccount ==
  ASSUME TypeInv, NEW s \in Servers, AccountLogin(s)
  PROVE  /\ current_account[s] \in 1 .. Len(account_list[s])
         /\ Current(s) \in Accounts
         /\ Current(s).deposits \in UInt64
<1>1. current_account[s] \in 1 .. Len(account_list[s])
  BY LenProperties DEF TypeInv, TypeOK, AccountLogin
<1>2. account_list[s] \in Seq(Accounts)
  BY DEF TypeInv, TypeOK
<1>3. Current(s) \in Accounts
  BY <1>1, <1>2, ElementOfSeq DEF Current
<1> QED
  BY <1>1, <1>3 DEF Accounts

\* Assigning to one account of one enclave.
LEMMA UpdateCurrent ==
  ASSUME TypeInv, NEW s \in Servers, AccountLogin(s),
         NEW account \in Accounts
  PROVE  LET list == [account_list[s] EXCEPT ![current_account[s]] = account]
             updated == [account_list EXCEPT ![s] = list]
         IN  /\ updated \in [Servers -> Seq(Accounts)]
             /\ \A t \in Servers : Len(updated[t]) = Len(account_list[t])
<1> DEFINE list == [account_list[s] EXCEPT ![current_account[s]] = account]
<1>1. account_list \in [Servers -> Seq(Accounts)]
  BY DEF TypeInv, TypeOK
<1>2. list \in Seq(Accounts) /\ Len(list) = Len(account_list[s])
  BY <1>1, CurrentAccount, ExceptSeq
<1> HIDE DEF list
<1>3. /\ [account_list EXCEPT ![s] = list] \in [Servers -> Seq(Accounts)]
      /\ \A t \in Servers :
           Len([account_list EXCEPT ![s] = list][t]) = Len(account_list[t])
  BY <1>1, <1>2
<1> QED
  BY <1>3 DEF list

\* An enclave that starts or stops, with whatever that does to the file.
LEMMA ClearedEnclave ==
  ASSUME TypeInv, NEW s \in Servers, NEW phase \in Phases \ {"store"},
         proc' = [proc EXCEPT ![s] = phase], ClearEnclave(s),
         ret' \in [Servers -> UInt64 \cup {Undefined}],
         sized' \in [Servers -> Nat], file' \in Files
  PROVE  TypeInv'
<1>0. <<>> \in Seq(Accounts) /\ Len(<<>>) = 0
  BY EmptySeq
<1>1. /\ proc' \in [Servers -> Phases]
      /\ account_list' \in [Servers -> Seq(Accounts)]
      /\ current_account' \in [Servers -> Nat]
      /\ call' \in [Servers -> Calls \cup {None}]
      /\ heap' \in [Servers -> 0 .. HeapMaxSize]
  BY <1>0, DealManagerAssumption DEF TypeInv, TypeOK, ClearEnclave
<1>2. ASSUME NEW t \in Servers
      PROVE  /\ current_account'[t] <= Len(account_list'[t])
             /\ proc'[t] = "store" => AccountLogin(t)' /\ call'[t] \in Calls
             /\ proc'[t] = "load" => current_account'[t] = 0
  <2>1. CASE t = s
    BY <1>0, <2>1 DEF TypeInv, TypeOK, ClearEnclave
  <2>2. CASE t # s
    BY <2>2 DEF TypeInv, TypeOK, NoLoginBeforeLoad, ClearEnclave, AccountLogin
  <2> QED
    BY <2>1, <2>2
<1> QED
  BY <1>1, <1>2 DEF TypeInv, TypeOK, NoLoginBeforeLoad

LEMMA StepTypeInv == TypeInv /\ [Next]_vars => TypeInv'
<1> SUFFICES ASSUME TypeInv, [Next]_vars
             PROVE  TypeInv'
  OBVIOUS
<1> USE DEF TypeInv, TypeOK, NoLoginBeforeLoad, Phases
<1>1. ASSUME NEW s \in Servers, InitManagerSize(s)
      PROVE  TypeInv'
  <2>1. /\ sized' \in [Servers -> Nat] /\ file' \in Files
        /\ ret' \in [Servers -> UInt64 \cup {Undefined}]
    BY <1>1 DEF InitManagerSize, Files
  <2> QED
    BY <1>1, <2>1, ClearedEnclave DEF InitManagerSize
<1>2. ASSUME NEW s \in Servers, InitManagerLoad(s)
      PROVE  TypeInv'
  <2>1. file.plain \in Seq(Accounts)
    BY DEF Files
  <2>2. Len(file.plain) \in Nat /\ current_account[s] = 0
    BY <1>2, <2>1, LenProperties DEF InitManagerLoad
  <2>3. \E phase \in {"idle", "orphan"} : proc' = [proc EXCEPT ![s] = phase]
    BY <1>2 DEF InitManagerLoad
  <2>4. \/ account_list' = account_list
        \/ account_list' = [account_list EXCEPT ![s] = file.plain]
    BY <1>2 DEF InitManagerLoad
  <2>5. account_list' \in [Servers -> Seq(Accounts)]
    BY <2>1, <2>4
  <2>6. \A t \in Servers : current_account[t] <= Len(account_list'[t])
    <3> TAKE t \in Servers
    <3>1. CASE t = s
      BY <2>2, <2>5, <3>1, LenProperties
    <3>2. CASE t # s
      BY <2>4, <3>2
    <3> QED
      BY <3>1, <3>2
  <2>7. UNCHANGED <<current_account, call, ret, heap, file>>
        /\ sized' \in [Servers -> Nat]
    BY <1>2 DEF InitManagerLoad
  <2> QED
    BY <2>3, <2>5, <2>6, <2>7 DEF AccountLogin
<1>3. ASSUME NEW s \in Servers, NEW name \in Names,
             NEW password \in Passwords, LoginExisting(s, name, password)
      PROVE  TypeInv'
  <2>1. PICK i \in DOMAIN account_list[s] :
          /\ current_account' = [current_account EXCEPT ![s] = i]
          /\ Return(s, IF password = account_list[s][i].password
                        THEN PROCESS_SUCCESS ELSE ACCOUNT_SET_FAIL)
    BY <1>3 DEF LoginExisting
  <2>2. i \in 1 .. Len(account_list[s]) /\ Len(account_list[s]) \in Nat
    BY LenProperties
  <2> QED
    BY <1>3, <2>1, <2>2, UInt64Facts DEF LoginExisting, Return, AccountLogin
<1>4. ASSUME NEW s \in Servers, NEW name \in Names,
             NEW password \in Passwords, OpenAccount(s, name, password)
      PROVE  TypeInv'
  <2> DEFINE list == Append(account_list[s], NewAccount(name, password))
  <2>1. list \in Seq(Accounts) /\ Len(list) = Len(account_list[s]) + 1
    BY NewAccountType, AppendProperties
  <2>2. Len(account_list[s]) \in Nat
    BY LenProperties
  <2> HIDE DEF list
  <2>3. account_list' = [account_list EXCEPT ![s] = list]
    BY <1>4 DEF OpenAccount, list
  <2>4. call' \in [Servers -> Calls \cup {None}] /\ call'[s] \in Calls
    BY <1>4, UInt64Facts
       DEF OpenAccount, EnterStore, Calls, StoringOps, UInt64
  <2> QED
    BY <1>4, <2>1, <2>2, <2>3, <2>4 DEF OpenAccount, EnterStore, AccountLogin
<1>5. ASSUME NEW s \in Servers, NeedLogout(s)
      PROVE  TypeInv'
  BY <1>5, UInt64Facts DEF NeedLogout, Return, AccountLogin
<1>6. ASSUME NEW s \in Servers, NEW amount \in Amounts,
             EcallMyDeposit(s, amount)
      PROVE  TypeInv'
  <2>1. AccountLogin(s)
    BY <1>6 DEF EcallMyDeposit
  <2>2. Deposit(Current(s), amount) \in Accounts
    BY <2>1, CurrentAccount, DepositAccount
  <2>3. /\ account_list' \in [Servers -> Seq(Accounts)]
        /\ \A t \in Servers : Len(account_list'[t]) = Len(account_list[t])
    BY <1>6, <2>1, <2>2, UpdateCurrent DEF EcallMyDeposit, Current
  <2>4. call' \in [Servers -> Calls \cup {None}] /\ call'[s] \in Calls
    BY <1>6, DealManagerAssumption
       DEF EcallMyDeposit, EnterStore, Calls, StoringOps
  <2> QED
    BY <1>6, <2>1, <2>3, <2>4 DEF EcallMyDeposit, EnterStore, AccountLogin
<1>7. ASSUME NEW s \in Servers, NEW amount \in Amounts,
             EcallMyWithdraw(s, amount)
      PROVE  TypeInv'
  <2>1. AccountLogin(s)
    BY <1>7 DEF EcallMyWithdraw
  <2>2. Withdraw(Current(s), amount) \in Accounts
    BY <2>1, CurrentAccount, WithdrawAccount
  <2>3. /\ account_list' \in [Servers -> Seq(Accounts)]
        /\ \A t \in Servers : Len(account_list'[t]) = Len(account_list[t])
    BY <1>7, <2>1, <2>2, UpdateCurrent DEF EcallMyWithdraw, Current
  <2>4. call' \in [Servers -> Calls \cup {None}] /\ call'[s] \in Calls
    BY <1>7, DealManagerAssumption
       DEF EcallMyWithdraw, EnterStore, Calls, StoringOps
  <2> QED
    BY <1>7, <2>1, <2>3, <2>4 DEF EcallMyWithdraw, EnterStore, AccountLogin
<1>8. ASSUME NEW s \in Servers, EcallMyInquiry(s) \/ EcallFails(s)
      PROVE  TypeInv'
  <2>1. \E value \in UInt64 \cup {Undefined} : ret' = [ret EXCEPT ![s] = value]
    BY <1>8, CurrentAccount DEF EcallMyInquiry, EcallFails, Return
  <2>2. UNCHANGED <<proc, account_list, current_account, call, heap, sized, file>>
    BY <1>8 DEF EcallMyInquiry, EcallFails, Return
  <2> QED
    BY <2>1, <2>2 DEF AccountLogin
<1>9. ASSUME NEW s \in Servers, AccountListStoreStorage(s)
      PROVE  TypeInv'
  <2>1. file' \in Files
    BY <1>9, OverwrittenType, HalfWrittenType DEF AccountListStoreStorage
  <2>2. StoreCost(s) \in Nat
    BY SizeTypes DEF StoreCost
  <2>3. heap' \in [Servers -> 0 .. HeapMaxSize]
    BY <1>9, <2>2, DealManagerAssumption DEF AccountListStoreStorage
  <2>4. StoreResult(s) \in UInt64
    BY <1>9, CurrentAccount, UInt64Facts
       DEF AccountListStoreStorage, StoreResult
  <2> QED
    BY <1>9, <2>1, <2>3, <2>4 DEF AccountListStoreStorage, AccountLogin
<1>10. ASSUME NEW s \in Servers,
              MarshalOutOfMemory(s) \/ SealOutOfMemory(s) \/ EnclaveLost(s)
       PROVE  TypeInv'
  <2>1. /\ ClearEnclave(s) /\ UNCHANGED <<ret, file>>
        /\ sized' \in [Servers -> Nat]
    BY <1>10 DEF MarshalOutOfMemory, SealOutOfMemory, EnclaveLost
  <2>2. \E phase \in {"orphan", "down"} : proc' = [proc EXCEPT ![s] = phase]
    BY <1>10 DEF MarshalOutOfMemory, SealOutOfMemory, EnclaveLost
  <2> QED
    BY <2>1, <2>2, ClearedEnclave
<1>11. ASSUME NEW s \in Servers, ProcessEnds(s)
       PROVE  TypeInv'
  <2>1. /\ file' \in Files /\ sized' \in [Servers -> Nat]
        /\ ret' \in [Servers -> UInt64 \cup {Undefined}]
    BY <1>11, HalfWrittenType DEF ProcessEnds
  <2> QED
    BY <1>11, <2>1, ClearedEnclave DEF ProcessEnds
<1>12. CASE UNCHANGED vars
  BY <1>12 DEF vars, AccountLogin
<1> QED
  BY <1>1, <1>2, <1>3, <1>4, <1>5, <1>6, <1>7, <1>8, <1>9, <1>10, <1>11, <1>12
     DEF Next, Ecall, Store

(***************************************************************************)
(* Every reachable state is well typed and no current_account dangles,     *)
(* whatever crashes, runs out of memory or tears the file.                 *)
(***************************************************************************)
THEOREM TypeCorrect == Spec => []TypeOK
<1>1. TypeInv => TypeOK
  BY DEF TypeInv
<1> QED
  BY <1>1, InitTypeInv, StepTypeInv, PTL DEF Spec

-----------------------------------------------------------------------------
(* Names are unique *)

LEMMA DistinctEmpty == Distinct(<<>>)
BY DEF Distinct

LEMMA DistinctCut ==
  ASSUME NEW list \in Seq(Accounts), NEW n \in 0 .. Len(list), Distinct(list)
  PROVE  Distinct(SubSeq(list, 1, n))
<1> DEFINE cut == SubSeq(list, 1, n)
<1>1. cut \in Seq(Accounts) /\ Len(cut) = n
      /\ \A i \in 1 .. n : cut[i] = list[i]
  BY CutType
<1>2. DOMAIN cut = 1 .. n /\ DOMAIN list = 1 .. Len(list)
  BY <1>1, LenProperties
<1>3. 1 .. n \subseteq 1 .. Len(list)
  BY LenProperties
<1> HIDE DEF cut
<1>4. Distinct(cut)
  BY <1>1, <1>2, <1>3 DEF Distinct
<1> QED
  BY <1>4 DEF cut

LEMMA DistinctAppend ==
  ASSUME NEW list \in Seq(Accounts), NEW account \in Accounts,
         Distinct(list),
         \A i \in DOMAIN list : list[i].name # account.name
  PROVE  Distinct(Append(list, account))
<1> DEFINE longer == Append(list, account)
<1>1. DOMAIN list = 1 .. Len(list) /\ Len(list) \in Nat
  BY LenProperties
<1>2. /\ longer \in Seq(Accounts)
      /\ Len(longer) = Len(list) + 1
      /\ \A i \in 1 .. Len(list) : longer[i] = list[i]
      /\ longer[Len(list) + 1] = account
  BY AppendProperties
<1>3. DOMAIN longer = 1 .. Len(list) + 1
  BY <1>2, LenProperties
<1> HIDE DEF longer
<1>4. ASSUME NEW i \in DOMAIN longer, NEW j \in DOMAIN longer,
             longer[i].name = longer[j].name
      PROVE  i = j
  <2>1. CASE i \in DOMAIN list /\ j \in DOMAIN list
    BY <1>1, <1>2, <1>4, <2>1 DEF Distinct
  <2>2. CASE i = Len(list) + 1 /\ j \in DOMAIN list
    BY <1>1, <1>2, <1>4, <2>2
  <2>3. CASE i \in DOMAIN list /\ j = Len(list) + 1
    BY <1>1, <1>2, <1>4, <2>3
  <2> QED
    BY <1>1, <1>3, <2>1, <2>2, <2>3
<1>5. Distinct(longer)
  BY <1>4 DEF Distinct
<1> QED
  BY <1>5 DEF longer

\* Replacing an account by one of the same name.
LEMMA DistinctUpdate ==
  ASSUME NEW list \in Seq(Accounts), NEW i \in 1 .. Len(list),
         NEW account \in Accounts, account.name = list[i].name,
         Distinct(list)
  PROVE  Distinct([list EXCEPT ![i] = account])
BY LenProperties DEF Distinct

LEMMA OverwrittenDistinct ==
  ASSUME NEW f \in Files, NEW list \in Seq(Accounts),
         Distinct(f.plain), Distinct(list)
  PROVE  Distinct(Overwritten(f, list).plain)
<1>1. PICK n \in 0 .. Len(list) : SealedImage(list).plain = SubSeq(list, 1, n)
  BY SealedImageCut
<1>2. Distinct(SealedImage(list).plain)
  BY <1>1, DistinctCut
<1> QED
  BY <1>2 DEF Overwritten

\* One list of one enclave changes, the file does not.
LEMMA UniqueUpdate ==
  ASSUME TypeInv, UniqueNames, NEW s \in Servers, NEW list, Distinct(list),
         account_list' = [account_list EXCEPT ![s] = list], UNCHANGED file
  PROVE  UniqueNames'
<1>1. \A t \in Servers : Distinct(account_list'[t])
  BY DEF UniqueNames, TypeInv, TypeOK
<1> QED
  BY <1>1 DEF UniqueNames

LEMMA StepUniqueNames == TypeInv /\ UniqueNames /\ [Next]_vars => UniqueNames'
<1> SUFFICES ASSUME TypeInv, UniqueNames, [Next]_vars
             PROVE  UniqueNames'
  OBVIOUS
<1>0. /\ \A s \in Servers : /\ account_list[s] \in Seq(Accounts)
                            /\ Distinct(account_list[s])
      /\ file \in Files /\ Distinct(file.plain)
  BY DEF TypeInv, TypeOK, UniqueNames
<1>1. ASSUME NEW s \in Servers,
             ClearEnclave(s), UNCHANGED file \/ file' = HalfWritten(file)
      PROVE  UniqueNames'
  <2>1. \A t \in Servers : Distinct(account_list'[t])
    BY <1>0, <1>1, DistinctEmpty DEF ClearEnclave, TypeInv, TypeOK
  <2>2. Distinct(file'.plain)
    BY <1>0, <1>1, DistinctEmpty DEF HalfWritten
  <2> QED
    BY <2>1, <2>2 DEF UniqueNames
<1>2. ASSUME NEW s \in Servers, InitManagerLoad(s)
      PROVE  UniqueNames'
  <2>1. CASE UNCHANGED account_list
    BY <1>0, <1>2, <2>1 DEF InitManagerLoad, UniqueNames
  <2>2. CASE account_list' = [account_list EXCEPT ![s] = file.plain]
    BY <1>0, <1>2, <2>2, UniqueUpdate DEF InitManagerLoad
  <2> QED
    BY <1>2, <2>1, <2>2 DEF InitManagerLoad
<1>3. ASSUME NEW s \in Servers, NEW name \in Names,
             NEW password \in Passwords, OpenAccount(s, name, password)
      PROVE  UniqueNames'
  <2> DEFINE account == NewAccount(name, password)
  <2>1. account \in Accounts /\ account.name = name
    BY NewAccountType
  <2>2. \A i \in DOMAIN account_list[s] : account_list[s][i].name # name
    BY <1>3 DEF OpenAccount
  <2> HIDE DEF account
  <2>3. Distinct(Append(account_list[s], account))
    BY <1>0, <2>1, <2>2, DistinctAppend
  <2>4. account_list' =
          [account_list EXCEPT ![s] = Append(account_list[s], account)]
    BY <1>3 DEF OpenAccount, account
  <2> QED
    BY <1>3, <2>3, <2>4, UniqueUpdate DEF OpenAccount, EnterStore
<1>4. ASSUME NEW s \in Servers, AccountLogin(s), NEW account \in Accounts,
             account.name = Current(s).name, UNCHANGED file,
             account_list' = [account_list EXCEPT
               ![s] = [account_list[s] EXCEPT ![current_account[s]] = account]]
      PROVE  UniqueNames'
  <2>1. Distinct([account_list[s] EXCEPT ![current_account[s]] = account])
    BY <1>0, <1>4, CurrentAccount, DistinctUpdate DEF Current
  <2> QED
    BY <1>4, <2>1, UniqueUpdate
<1>5. ASSUME NEW s \in Servers, NEW amount \in Amounts,
             EcallMyDeposit(s, amount)
      PROVE  UniqueNames'
  <2>1. AccountLogin(s)
    BY <1>5 DEF EcallMyDeposit
  <2>2. /\ Deposit(Current(s), amount) \in Accounts
        /\ Deposit(Current(s), amount).name = Current(s).name
    BY <2>1, CurrentAccount, DepositAccount
  <2>3. UNCHANGED file
    BY <1>5 DEF EcallMyDeposit, EnterStore
  <2>4. account_list' = [account_list EXCEPT ![s] =
          [account_list[s] EXCEPT
             ![current_account[s]] = Deposit(Current(s), amount)]]
    BY <1>5 DEF EcallMyDeposit, Current
  <2> QED
    BY <1>4, <2>1, <2>2, <2>3, <2>4
<1>6. ASSUME NEW s \in Servers, NEW amount \in Amounts,
             EcallMyWithdraw(s, amount)
      PROVE  UniqueNames'
  <2>1. AccountLogin(s)
    BY <1>6 DEF EcallMyWithdraw
  <2>2. /\ Withdraw(Current(s), amount) \in Accounts
        /\ Withdraw(Current(s), amount).name = Current(s).name
    BY <2>1, CurrentAccount, WithdrawAccount
  <2>3. UNCHANGED file
    BY <1>6 DEF EcallMyWithdraw, EnterStore
  <2>4. account_list' = [account_list EXCEPT ![s] =
          [account_list[s] EXCEPT
             ![current_account[s]] = Withdraw(Current(s), amount)]]
    BY <1>6 DEF EcallMyWithdraw, Current
  <2> QED
    BY <1>4, <2>1, <2>2, <2>3, <2>4
<1>7. ASSUME NEW s \in Servers, AccountListStoreStorage(s)
      PROVE  UniqueNames'
  <2>1. Distinct(file'.plain)
    BY <1>0, <1>7, OverwrittenDistinct, HalfWrittenType, DistinctEmpty
    DEF AccountListStoreStorage
  <2> QED
    BY <1>0, <1>7, <2>1 DEF AccountListStoreStorage, UniqueNames
<1>8. CASE UNCHANGED <<account_list, file>>
  BY <1>0, <1>8 DEF UniqueNames
<1>9. ASSUME NEW s \in Servers, Ecall(s)
      PROVE  UniqueNames'
  BY <1>3, <1>5, <1>6, <1>8, <1>9
     DEF Ecall, LoginExisting, NeedLogout, EcallMyInquiry, EcallFails, Return
<1>10. ASSUME NEW s \in Servers, Store(s)
       PROVE  UniqueNames'
  BY <1>1, <1>7, <1>10 DEF Store, MarshalOutOfMemory, SealOutOfMemory
<1>11. ASSUME NEW s \in Servers,
              InitManagerSize(s) \/ EnclaveLost(s) \/ ProcessEnds(s)
       PROVE  UniqueNames'
  BY <1>1, <1>11 DEF InitManagerSize, EnclaveLost, ProcessEnds
<1> QED
  BY <1>2, <1>8, <1>9, <1>10, <1>11 DEF Next, vars

(***************************************************************************)
(* A name identifies one account in every enclave and in the file, however *)
(* many servers run and whatever fails, even when the uint16_t size wraps. *)
(***************************************************************************)
THEOREM NamesStayUnique == Spec => []UniqueNames
<1>1. Init => UniqueNames
  BY DistinctEmpty DEF Init, EmptyFile, UniqueNames
<1> QED
  BY <1>1, InitTypeInv, StepTypeInv, StepUniqueNames, PTL DEF Spec

-----------------------------------------------------------------------------
(***************************************************************************)
(* What one server keeps on disk, as long as every list fits into a sealed *)
(* image of fewer than SealModulus bytes.                                  *)
(***************************************************************************)

OneServer == \A s, t \in Servers : s = t

\* Every list of accounts with different names can be sealed.
ListsFit ==
  \A list \in Seq(Accounts) :
    Distinct(list) => SealHeader + MarshalSize(list) < SealModulus

LEMMA SmallMod ==
  ASSUME NEW x \in Nat, NEW m \in Nat, x < m
  PROVE  x % m = x
OBVIOUS

LEMMA WholeMultiple ==
  ASSUME NEW a \in Nat \ {0}, NEW n \in Nat
  PROVE  (a * n) \div a = n /\ (a * n) % a = 0
<1> DEFINE p == a * n
           q == p \div a
           r == p % a
<1>1. p \in Nat
  OBVIOUS
<1>2. q \in Int /\ r \in 0 .. a - 1 /\ p = a * q + r
  BY <1>1
<1>3. a * q + r = a * n
  BY <1>2
<1> HIDE DEF p, q, r
<1>4. q = n
  <2>1. CASE q >= n + 1
    <3>1. a * q >= a * (n + 1)
      BY <1>2, <2>1
    <3>2. a * (n + 1) = a * n + a
      OBVIOUS
    <3> QED
      BY <1>2, <1>3, <3>1, <3>2
  <2>2. CASE q <= n - 1
    <3>1. a * q <= a * (n - 1)
      BY <1>2, <2>2
    <3>2. a * (n - 1) = a * n - a
      OBVIOUS
    <3> QED
      BY <1>2, <1>3, <3>1, <3>2
  <2> QED
    BY <1>2, <2>1, <2>2
<1>5. r = 0
  BY <1>2, <1>3, <1>4
<1> QED
  BY <1>4, <1>5 DEF p, q, r

(***************************************************************************)
(* ListsFit is a matter of how many names there are: a list of accounts    *)
(* with different names is no longer than the set of names.                *)
(***************************************************************************)
THEOREM FewNamesFit ==
  ASSUME IsFiniteSet(Names),
         SealHeader + AccountSize * Cardinality(Names) < SealModulus
  PROVE  ListsFit
<1> SUFFICES ASSUME NEW list \in Seq(Accounts), Distinct(list)
             PROVE  SealHeader + MarshalSize(list) < SealModulus
  BY DEF ListsFit
<1> DEFINE n == Len(list)
           k == Cardinality(Names)
           name == [i \in 1 .. n |-> list[i].name]
<1>1. n \in Nat /\ DOMAIN list = 1 .. n /\ \A i \in 1 .. n : list[i] \in Accounts
  BY LenProperties, ElementOfSeq
<1>2. k \in Nat
  BY FS_CardinalityType
<1>3. n <= k
  <2> SUFFICES ASSUME k < n PROVE FALSE
    BY <1>1, <1>2
  <2>1. name \in [1 .. n -> Names]
    BY <1>1 DEF Accounts
  <2> HIDE DEF n, k
  <2>2. IsFiniteSet(1 .. n) /\ Cardinality(1 .. n) = n
    <3>1. n \in Int /\ 1 \in Int /\ ~(1 > n) /\ n - 1 + 1 = n
      BY <1>1, <1>2
    <3> QED
      BY <3>1, FS_Interval
  <2>3. \E i, j \in 1 .. n : i # j /\ name[i] = name[j]
    <3> HIDE DEF name
    <3> QED
      BY <2>1, <2>2, FS_PigeonHole DEF k
  <2> QED
    BY <1>1, <2>3 DEF Distinct
<1> HIDE DEF n, k
<1>4. AccountSize * n <= AccountSize * k
  BY <1>1, <1>2, <1>3, SealingAssumption
<1>5. AccountSize * n \in Nat /\ AccountSize * k \in Nat
  BY <1>1, <1>2, ProductNat, SealingAssumption
<1> QED
  BY <1>4, <1>5, SealingAssumption DEF MarshalSize, n, k

-----------------------------------------------------------------------------
(* Writing a list that fits *)

\* The head of f is the whole image of list.
Holds(f, list) == Unseals(f, f.size) /\ f.plain = list

LEMMA OverwrittenHolds ==
  ASSUME ListsFit, NEW f \in Files, NEW list \in Seq(Accounts),
         Distinct(list), list # <<>>
  PROVE  Holds(Overwritten(f, list), list)
<1> DEFINE m == MarshalSize(list)
<1>1. Len(list) \in Nat \ {0}
  BY EmptySeq
<1>2. m \in Nat \ {0}
  <2>1. AccountSize * Len(list) >= AccountSize * 1
    BY <1>1, SealingAssumption
  <2> QED
    BY <1>1, <2>1, ProductNat, SealingAssumption DEF MarshalSize
<1>3. SealHeader + m < SealModulus
  BY DEF ListsFit
<1>4. m \div AccountSize = Len(list) /\ m % AccountSize = 0
  BY <1>1, WholeMultiple, SealingAssumption DEF MarshalSize
<1>5. PlainSize(list) = m
  BY <1>2, <1>3, SmallMod, SealingAssumption DEF PlainSize
<1> HIDE DEF m
<1>6. SealedSize(list) = SealHeader + m
  BY <1>2, <1>3, <1>5, SmallMod, SealingAssumption DEF SealedSize
<1>7. /\ SealedImage(list).bytes = m
      /\ SealedImage(list).plain = SubSeq(list, 1, Len(list))
  BY <1>2, <1>3, <1>4, <1>5 DEF SealedImage
<1>8. SubSeq(list, 1, Len(list)) = list
  BY SubSeqFull
<1>9. SealHeader + m \in Nat \ {0} /\ f.size \in Nat
  BY <1>2, SealingAssumption DEF Files
<1>10. Larger(f.size, SealHeader + m) >= SealHeader + m
  BY <1>9, LargerType
<1> QED
  BY <1>2, <1>4, <1>6, <1>7, <1>8, <1>9, <1>10 DEF Overwritten, Holds, Unseals

-----------------------------------------------------------------------------
(* One server and its file *)

(***************************************************************************)
(* The properties are not inductive alone: the size an enclave was told    *)
(* is still the size of the file, and it has no list yet.                  *)
(***************************************************************************)
SizedIsSize ==
  \A s \in Servers :
    proc[s] = "load" => sized[s] = file.size /\ account_list[s] = <<>>

DiskInv == /\ SizedIsSize
           /\ ~FlushFails => Durable

\* A list being stored is not empty.
LEMMA StoredNotEmpty ==
  ASSUME TypeInv, UniqueNames, NEW s \in Servers, proc[s] = "store"
  PROVE  /\ account_list[s] \in Seq(Accounts)
         /\ account_list[s] # <<>>
         /\ Distinct(account_list[s])
<1>1. AccountLogin(s)
  BY DEF TypeInv, TypeOK
<1>2. current_account[s] \in 1 .. Len(account_list[s])
  BY <1>1, CurrentAccount
<1>3. account_list[s] # <<>>
  BY <1>2, EmptySeq
<1> QED
  BY <1>3 DEF TypeInv, TypeOK, UniqueNames

LEMMA InitDiskInv == Init => DiskInv
BY DEF Init, EmptyFile, DiskInv, SizedIsSize, Durable

LEMMA StepDiskInv ==
  ASSUME OneServer, ListsFit, TypeInv, UniqueNames, DiskInv, [Next]_vars
  PROVE  DiskInv'
<1> USE DEF DiskInv, SizedIsSize
<1>0. \A s, t \in Servers : s = t
  BY DEF OneServer
<1>1. ASSUME NEW s \in Servers, proc'[s] \notin {"idle", "store", "load"},
             UNCHANGED file
      PROVE  DiskInv'
  BY <1>0, <1>1 DEF Durable
<1>2. ASSUME NEW s \in Servers, InitManagerSize(s)
      PROVE  DiskInv'
  <2>1. proc'[s] = "load" /\ sized'[s] = file.size /\ account_list'[s] = <<>>
    BY <1>2 DEF InitManagerSize, ClearEnclave, TypeInv, TypeOK
  <2>2. UNCHANGED file
    BY <1>2 DEF InitManagerSize
  <2> QED
    BY <1>0, <2>1, <2>2 DEF Durable
<1>3. ASSUME NEW s \in Servers, InitManagerLoad(s)
      PROVE  DiskInv'
  <2>1. sized[s] = file.size /\ account_list[s] = <<>> /\ UNCHANGED file
    BY <1>3 DEF InitManagerLoad
  <2>2. CASE sized[s] = 0
    <3>1. proc'[s] = "idle" /\ account_list'[s] = <<>>
      BY <1>3, <2>1, <2>2 DEF InitManagerLoad, TypeInv, TypeOK
    <3> QED
      BY <1>0, <3>1 DEF Durable
  <2>3. CASE sized[s] > 0 /\ Unseals(file, sized[s])
    <3>1. /\ proc'[s] = "idle" /\ account_list'[s] = file'.plain
          /\ Unseals(file', file'.size)
      BY <1>3, <2>1, <2>3 DEF InitManagerLoad, TypeInv, TypeOK
    <3> QED
      BY <1>0, <3>1 DEF Durable
  <2>4. CASE sized[s] > 0 /\ ~Unseals(file, sized[s])
    <3>1. proc'[s] = "orphan"
      BY <1>3, <2>4 DEF InitManagerLoad, TypeInv, TypeOK
    <3> QED
      BY <1>1, <2>1, <3>1
  <2> QED
    BY <2>2, <2>3, <2>4 DEF TypeInv, TypeOK
<1>4. ASSUME NEW s \in Servers, proc[s] = "idle", UNCHANGED file,
             proc'[s] = "store"
      PROVE  DiskInv'
  BY <1>0, <1>4 DEF Durable
<1>5. ASSUME NEW s \in Servers, proc[s] \in {"idle", "orphan"},
             UNCHANGED <<proc, account_list, file>>
      PROVE  DiskInv'
  BY <1>0, <1>5 DEF Durable
<1>6. ASSUME NEW s \in Servers, Ecall(s)
      PROVE  DiskInv'
  <2>1. CASE \E name \in Names, password \in Passwords :
               OpenAccount(s, name, password)
    BY <1>4, <2>1 DEF OpenAccount, EnterStore, TypeInv, TypeOK
  <2>2. CASE \E amount \in Amounts :
               EcallMyDeposit(s, amount) \/ EcallMyWithdraw(s, amount)
    BY <1>4, <2>2 DEF EcallMyDeposit, EcallMyWithdraw, EnterStore, TypeInv, TypeOK
  <2>3. CASE \/ \E name \in Names, password \in Passwords :
                  LoginExisting(s, name, password)
             \/ NeedLogout(s) \/ EcallMyInquiry(s) \/ EcallFails(s)
    BY <1>5, <2>3 DEF LoginExisting, NeedLogout, EcallMyInquiry, EcallFails, Return
  <2> QED
    BY <1>6, <2>1, <2>2, <2>3 DEF Ecall
<1>7. ASSUME NEW s \in Servers, AccountListStoreStorage(s)
      PROVE  DiskInv'
  <2>1. /\ proc[s] = "store" /\ proc'[s] = "idle"
        /\ account_list'[s] = account_list[s]
    BY <1>7 DEF AccountListStoreStorage, TypeInv, TypeOK
  <2>2. CASE file' = Overwritten(file, account_list[s])
    <3>1. file \in Files
      BY DEF TypeInv, TypeOK
    <3>2. Holds(file', account_list[s])
      BY <2>1, <2>2, <3>1, StoredNotEmpty, OverwrittenHolds
    <3> QED
      BY <1>0, <2>1, <3>2 DEF Holds, Durable
  <2>3. CASE FlushFails
    BY <1>0, <2>1, <2>3
  <2> QED
    BY <1>7, <2>2, <2>3 DEF AccountListStoreStorage
<1>8. ASSUME NEW s \in Servers, MarshalOutOfMemory(s) \/ SealOutOfMemory(s)
      PROVE  DiskInv'
  BY <1>1, <1>8 DEF MarshalOutOfMemory, SealOutOfMemory, TypeInv, TypeOK
<1>9. ASSUME NEW s \in Servers, EnclaveLost(s)
      PROVE  DiskInv'
  BY <1>1, <1>9 DEF EnclaveLost, TypeInv, TypeOK
<1>10. ASSUME NEW s \in Servers, ProcessEnds(s)
       PROVE  DiskInv'
  <2>1. proc'[s] = "down"
    BY <1>10 DEF ProcessEnds, TypeInv, TypeOK
  <2>2. CASE UNCHANGED file
    BY <1>1, <2>1, <2>2
  <2>3. CASE TornWrites
    BY <1>0, <2>1, <2>3 DEF Durable
  <2> QED
    BY <1>10, <2>2, <2>3 DEF ProcessEnds
<1>11. CASE UNCHANGED vars
  BY <1>11 DEF vars, Durable
<1> QED
  BY <1>2, <1>3, <1>6, <1>7, <1>8, <1>9, <1>10, <1>11 DEF Next, Store

-----------------------------------------------------------------------------
(* Theorems *)

\* What a step may do to the file.
LEMMA FileStep ==
  ASSUME [Next]_vars
  PROVE  \/ UNCHANGED file
         \/ \E s \in Servers :
              /\ proc[s] = "store"
              /\ \/ file' = Overwritten(file, account_list[s])
                 \/ /\ TornWrites \/ FlushFails
                    /\ file' = HalfWritten(file)
<1>1. CASE \E s \in Servers : InitManagerSize(s) \/ InitManagerLoad(s)
                              \/ EnclaveLost(s) \/ ProcessEnds(s)
  BY <1>1 DEF InitManagerSize, InitManagerLoad, EnclaveLost, ProcessEnds
<1>2. CASE \E s \in Servers : Ecall(s)
  BY <1>2 DEF Ecall, LoginExisting, OpenAccount, NeedLogout,
       EcallMyDeposit, EcallMyWithdraw, EcallMyInquiry, EcallFails,
       Return, EnterStore
<1>3. CASE \E s \in Servers : Store(s)
  BY <1>3 DEF Store, AccountListStoreStorage, MarshalOutOfMemory,
       SealOutOfMemory
<1>4. CASE UNCHANGED vars
  BY <1>4 DEF vars
<1> QED
  BY <1>1, <1>2, <1>3, <1>4 DEF Next

LEMMA DiskInvAlways ==
  ASSUME OneServer, ListsFit
  PROVE  Spec => [](TypeInv /\ UniqueNames /\ DiskInv)
<1>1. Init => TypeInv /\ UniqueNames /\ DiskInv
  BY InitTypeInv, InitDiskInv DEF Init, EmptyFile, UniqueNames, Distinct
<1>2. TypeInv /\ UniqueNames /\ DiskInv /\ [Next]_vars
        => (TypeInv /\ UniqueNames /\ DiskInv)'
  BY StepTypeInv, StepUniqueNames, StepDiskInv
<1> QED
  BY <1>1, <1>2, PTL DEF Spec

(***************************************************************************)
(* A single server whose lists fit and whose flushes succeed reports only  *)
(* what is on disk, whatever crashes, even in the middle of a write.       *)
(***************************************************************************)
THEOREM ReportedIsStored ==
  ASSUME OneServer, ListsFit, ~FlushFails
  PROVE  Spec => []Durable
<1>1. DiskInv => Durable
  BY DEF DiskInv
<1> QED
  BY <1>1, DiskInvAlways, PTL

-----------------------------------------------------------------------------
(* What is on disk is an earlier list *)

\* list begins with the accounts of stored, whatever their balances are now.
Begins(stored, list) ==
  /\ Len(stored) <= Len(list)
  /\ \A i \in 1 .. Len(stored) : /\ list[i].name = stored[i].name
                                 /\ list[i].password = stored[i].password

LEMMA IdsSequence ==
  ASSUME NEW list \in Seq(Accounts)
  PROVE  /\ Ids(list) \in Seq([name : Names, password : Passwords])
         /\ Len(Ids(list)) = Len(list)
         /\ \A i \in 1 .. Len(list) : Ids(list)[i] =
              [name |-> list[i].name, password |-> list[i].password]
<1> DEFINE Id == [name : Names, password : Passwords]
           n == Len(list)
           id(i) == [name |-> list[i].name, password |-> list[i].password]
<1>1. n \in Nat /\ DOMAIN list = 1 .. n /\ \A i \in 1 .. n : list[i] \in Accounts
  BY LenProperties, ElementOfSeq
<1>2. \A i \in 1 .. n : id(i) \in Id
  BY <1>1 DEF Accounts
<1>3. Ids(list) = [i \in 1 .. n |-> id(i)]
  BY <1>1 DEF Ids
<1> HIDE DEF n, id, Id
<1>4. Ids(list) \in [1 .. n -> Id] /\ \A i \in 1 .. n : Ids(list)[i] = id(i)
  BY <1>2, <1>3
<1>5. Ids(list) \in Seq(Id) /\ Len(Ids(list)) = n
  BY <1>1, <1>4
<1> QED
  BY <1>4, <1>5 DEF n, id, Id

LEMMA BeginsPrefix ==
  ASSUME NEW stored \in Seq(Accounts), NEW list \in Seq(Accounts),
         Begins(stored, list)
  PROVE  IsPrefix(Ids(stored), Ids(list))
<1> DEFINE Id == [name : Names, password : Passwords]
           a == Ids(stored)
           b == Ids(list)
           n == Len(stored)
           m == Len(list)
<1>1. n \in Nat /\ m \in Nat /\ n <= m
  BY LenProperties DEF Begins
<1>2. /\ a \in Seq(Id) /\ Len(a) = n
      /\ b \in Seq(Id) /\ Len(b) = m
  BY IdsSequence
<1>3. ASSUME NEW i \in 1 .. n
      PROVE  a[i] = b[i]
  <2>1. i \in 1 .. m
    BY <1>1
  <2>2. /\ a[i] = [name |-> stored[i].name, password |-> stored[i].password]
        /\ b[i] = [name |-> list[i].name, password |-> list[i].password]
    BY <2>1, IdsSequence
  <2> HIDE DEF a, b
  <2> QED
    BY <2>2 DEF Begins
<1> HIDE DEF a, b, n, m, Id
<1>4. /\ \A i \in 1 .. n : a[i] \in Id
      /\ \A i \in 1 .. n : b[i] \in Id
  BY <1>1, <1>2, ElementOfSeq
<1>5. /\ SubSeq(a, 1, n) \in Seq(Id) /\ Len(SubSeq(a, 1, n)) = n
      /\ SubSeq(b, 1, n) \in Seq(Id) /\ Len(SubSeq(b, 1, n)) = n
      /\ \A i \in 1 .. n : SubSeq(a, 1, n)[i] = a[i] /\ SubSeq(b, 1, n)[i] = b[i]
  BY <1>1, <1>4, SubSeqProperties
<1>6. \A i \in 1 .. Len(SubSeq(a, 1, n)) : SubSeq(a, 1, n)[i] = SubSeq(b, 1, n)[i]
  BY <1>3, <1>5
<1>7. SubSeq(a, 1, n) = SubSeq(b, 1, n)
  BY <1>5, <1>6, SeqEqual
<1>8. IsPrefix(a, b)
  BY <1>1, <1>2, <1>7 DEF IsPrefix
<1> QED
  BY <1>8 DEF a, b

LEMMA BeginsItself ==
  ASSUME NEW list \in Seq(Accounts)
  PROVE  Begins(list, list)
BY LenProperties DEF Begins

\* A list that was cut off is the beginning of the whole one.
LEMMA BeginsCut ==
  ASSUME NEW list \in Seq(Accounts), NEW n \in 0 .. Len(list)
  PROVE  Begins(SubSeq(list, 1, n), list)
BY CutType, LenProperties DEF Begins

\* What is stored of a list, whole, cut off or not at all, is its beginning.
LEMMA BeginsOverwritten ==
  ASSUME NEW f \in Files, NEW list \in Seq(Accounts), Begins(f.plain, list)
  PROVE  Begins(Overwritten(f, list).plain, list)
<1>1. PICK n \in 0 .. Len(list) : SealedImage(list).plain = SubSeq(list, 1, n)
  BY SealedImageCut
<1>2. Begins(SealedImage(list).plain, list)
  BY <1>1, BeginsCut
<1> QED
  BY <1>2 DEF Overwritten

LEMMA BeginsAppend ==
  ASSUME NEW stored \in Seq(Accounts), NEW list \in Seq(Accounts),
         NEW account \in Accounts, Begins(stored, list)
  PROVE  Begins(stored, Append(list, account))
<1>1. Len(stored) \in Nat /\ Len(list) \in Nat /\ Len(stored) <= Len(list)
  BY LenProperties DEF Begins
<1>2. /\ Len(Append(list, account)) = Len(list) + 1
      /\ \A i \in 1 .. Len(list) : Append(list, account)[i] = list[i]
  BY AppendProperties
<1> QED
  BY <1>1, <1>2 DEF Begins

LEMMA BeginsUpdate ==
  ASSUME NEW stored \in Seq(Accounts), NEW list \in Seq(Accounts),
         NEW i \in 1 .. Len(list), NEW account \in Accounts,
         account.name = list[i].name, account.password = list[i].password,
         Begins(stored, list)
  PROVE  Begins(stored, [list EXCEPT ![i] = account])
<1>1. Len(stored) \in Nat /\ Len(list) \in Nat /\ Len(stored) <= Len(list)
  BY LenProperties DEF Begins
<1>2. DOMAIN list = 1 .. Len(list)
  BY LenProperties
<1>3. /\ Len([list EXCEPT ![i] = account]) = Len(list)
      /\ \A j \in 1 .. Len(list) :
           [list EXCEPT ![i] = account][j] = IF j = i THEN account ELSE list[j]
  BY <1>2, ExceptSeq
<1> QED
  BY <1>1, <1>3 DEF Begins

(***************************************************************************)
(* Inductive: what is stored is the beginning of what is in memory.  A     *)
(* start reads the whole file (SizedIsSize), and an empty one has no list. *)
(***************************************************************************)
EarlierInv ==
  /\ SizedIsSize
  /\ file.size = 0 => file.plain = <<>>
  /\ \A s \in Servers :
       proc[s] \in {"idle", "store"} => Begins(file.plain, account_list[s])

LEMMA InitEarlierInv == Init => EarlierInv
BY DEF Init, EmptyFile, EarlierInv, SizedIsSize

\* A file without bytes stays one or gets an image.
LEMMA OverwrittenSize ==
  ASSUME NEW f \in Files, NEW list \in Seq(Accounts),
         f.size = 0 => f.plain = <<>>, Overwritten(f, list).size = 0
  PROVE  Overwritten(f, list).plain = <<>>
<1>1. SealedSize(list) \in Nat /\ f.size \in Nat
  BY SizeTypes DEF Files
<1>2. CASE SealedSize(list) = 0
  BY <1>2 DEF Overwritten
<1>3. CASE SealedSize(list) # 0
  <2>1. Overwritten(f, list).size = Larger(f.size, SealedSize(list))
    BY <1>3 DEF Overwritten
  <2>2. Larger(f.size, SealedSize(list)) >= SealedSize(list)
    BY <1>1, LargerType
  <2> QED
    BY <1>1, <1>3, <2>1, <2>2
<1> QED
  BY <1>2, <1>3

LEMMA StepEarlierInv ==
  ASSUME OneServer, TypeInv, EarlierInv, [Next]_vars
  PROVE  EarlierInv'
<1> USE DEF EarlierInv, SizedIsSize
<1>0. /\ \A s, t \in Servers : s = t
      /\ file \in Files /\ file.plain \in Seq(Accounts) /\ file.size \in Nat
      /\ \A s \in Servers : account_list[s] \in Seq(Accounts)
  BY DEF OneServer, TypeInv, TypeOK, Files
<1>1. ASSUME NEW s \in Servers, proc'[s] \in {"down", "orphan"},
             UNCHANGED file \/ file' = HalfWritten(file)
      PROVE  EarlierInv'
  BY <1>0, <1>1 DEF HalfWritten
<1>2. ASSUME NEW s \in Servers, UNCHANGED file, proc'[s] \in {"idle", "store"},
             Begins(file.plain, account_list'[s])
      PROVE  EarlierInv'
  BY <1>0, <1>2
<1>3. ASSUME NEW s \in Servers, InitManagerSize(s)
      PROVE  EarlierInv'
  <2>1. proc'[s] = "load" /\ sized'[s] = file.size /\ account_list'[s] = <<>>
    BY <1>3 DEF InitManagerSize, ClearEnclave, TypeInv, TypeOK
  <2>2. UNCHANGED file
    BY <1>3 DEF InitManagerSize
  <2> QED
    BY <1>0, <2>1, <2>2
<1>4. ASSUME NEW s \in Servers, InitManagerLoad(s)
      PROVE  EarlierInv'
  <2>1. sized[s] = file.size /\ account_list[s] = <<>> /\ UNCHANGED file
    BY <1>4 DEF InitManagerLoad
  <2>2. CASE sized[s] = 0
    <3>1. proc'[s] = "idle" /\ account_list'[s] = file.plain
      BY <1>4, <2>1, <2>2 DEF InitManagerLoad, TypeInv, TypeOK
    <3> QED
      BY <1>0, <1>2, <2>1, <3>1, BeginsItself
  <2>3. CASE sized[s] > 0 /\ Unseals(file, sized[s])
    <3>1. proc'[s] = "idle" /\ account_list'[s] = file.plain
      BY <1>4, <2>3 DEF InitManagerLoad, TypeInv, TypeOK
    <3> QED
      BY <1>0, <1>2, <2>1, <3>1, BeginsItself
  <2>4. CASE sized[s] > 0 /\ ~Unseals(file, sized[s])
    <3>1. proc'[s] = "orphan"
      BY <1>4, <2>4 DEF InitManagerLoad, TypeInv, TypeOK
    <3> QED
      BY <1>1, <2>1, <3>1
  <2> QED
    BY <1>0, <2>1, <2>2, <2>3, <2>4
<1>5. ASSUME NEW s \in Servers, proc[s] = "idle", NEW name \in Names,
             NEW password \in Passwords, OpenAccount(s, name, password)
      PROVE  EarlierInv'
  <2>1. /\ proc'[s] = "store" /\ UNCHANGED file
        /\ account_list'[s] =
             Append(account_list[s], NewAccount(name, password))
    BY <1>5 DEF OpenAccount, EnterStore, TypeInv, TypeOK
  <2>2. Begins(file.plain, account_list'[s])
    BY <1>0, <1>5, <2>1, NewAccountType, BeginsAppend
  <2> QED
    BY <1>2, <2>1, <2>2
<1>6. ASSUME NEW s \in Servers, proc[s] = "idle", NEW amount \in Amounts,
             EcallMyDeposit(s, amount) \/ EcallMyWithdraw(s, amount)
      PROVE  EarlierInv'
  <2>1. AccountLogin(s) /\ proc'[s] = "store" /\ UNCHANGED file
    BY <1>6 DEF EcallMyDeposit, EcallMyWithdraw, EnterStore, TypeInv, TypeOK
  <2>2. PICK account \in Accounts :
          /\ account.name = Current(s).name
          /\ account.password = Current(s).password
          /\ account_list'[s] =
               [account_list[s] EXCEPT ![current_account[s]] = account]
    <3>1. Current(s) \in Accounts
      BY <2>1, CurrentAccount
    <3>2. CASE EcallMyDeposit(s, amount)
      <4>1. account_list'[s] = [account_list[s] EXCEPT
              ![current_account[s]] = Deposit(Current(s), amount)]
        BY <3>2 DEF EcallMyDeposit, Current, TypeInv, TypeOK
      <4> QED
        BY <3>1, <4>1, DepositAccount
    <3>3. CASE EcallMyWithdraw(s, amount)
      <4>1. account_list'[s] = [account_list[s] EXCEPT
              ![current_account[s]] = Withdraw(Current(s), amount)]
        BY <3>3 DEF EcallMyWithdraw, Current, TypeInv, TypeOK
      <4> QED
        BY <3>1, <4>1, WithdrawAccount
    <3> QED
      BY <1>6, <3>2, <3>3
  <2>3. Begins(file.plain, account_list'[s])
    BY <1>0, <1>6, <2>1, <2>2, CurrentAccount, BeginsUpdate DEF Current
  <2> QED
    BY <1>2, <2>1, <2>3
<1>7. ASSUME NEW s \in Servers, Ecall(s)
      PROVE  EarlierInv'
  <2>1. CASE \E name \in Names, password \in Passwords :
               OpenAccount(s, name, password)
    BY <1>5, <2>1 DEF OpenAccount
  <2>2. CASE \E amount \in Amounts :
               EcallMyDeposit(s, amount) \/ EcallMyWithdraw(s, amount)
    BY <1>6, <2>2 DEF EcallMyDeposit, EcallMyWithdraw
  <2>3. CASE \/ \E name \in Names, password \in Passwords :
                  LoginExisting(s, name, password)
             \/ NeedLogout(s) \/ EcallMyInquiry(s) \/ EcallFails(s)
    BY <2>3 DEF LoginExisting, NeedLogout, EcallMyInquiry, EcallFails, Return
  <2> QED
    BY <1>7, <2>1, <2>2, <2>3 DEF Ecall
<1>8. ASSUME NEW s \in Servers, AccountListStoreStorage(s)
      PROVE  EarlierInv'
  <2>1. /\ proc[s] = "store" /\ proc'[s] = "idle"
        /\ account_list'[s] = account_list[s]
    BY <1>8 DEF AccountListStoreStorage, TypeInv, TypeOK
  <2>2. CASE file' = Overwritten(file, account_list[s])
    <3>1. Begins(file'.plain, account_list'[s])
      BY <1>0, <2>1, <2>2, BeginsOverwritten
    <3>2. file'.size = 0 => file'.plain = <<>>
      BY <1>0, <2>2, OverwrittenSize
    <3> QED
      BY <1>0, <2>1, <3>1, <3>2
  <2>3. CASE UNCHANGED file
    BY <1>2, <2>1, <2>3
  <2>4. CASE file' = HalfWritten(file)
    <3>1. file'.plain = <<>> /\ file'.size > 0
      BY <1>0, <2>4, HalfWrittenType
    <3> QED
      BY <1>0, <2>1, <3>1 DEF Begins
  <2> QED
    BY <1>8, <2>2, <2>3, <2>4 DEF AccountListStoreStorage
<1>9. ASSUME NEW s \in Servers,
             \/ MarshalOutOfMemory(s) \/ SealOutOfMemory(s)
             \/ EnclaveLost(s) \/ ProcessEnds(s)
      PROVE  EarlierInv'
  BY <1>1, <1>9 DEF MarshalOutOfMemory, SealOutOfMemory, EnclaveLost,
       ProcessEnds, TypeInv, TypeOK
<1>10. CASE UNCHANGED vars
  BY <1>10 DEF vars
<1> QED
  BY <1>3, <1>4, <1>7, <1>8, <1>9, <1>10 DEF Next, Store

LEMMA EarlierInvAlways ==
  ASSUME OneServer
  PROVE  Spec => [](TypeInv /\ EarlierInv)
<1>1. Init => TypeInv /\ EarlierInv
  BY InitTypeInv, InitEarlierInv
<1>2. TypeInv /\ EarlierInv /\ [Next]_vars => (TypeInv /\ EarlierInv)'
  BY StepTypeInv, StepEarlierInv
<1> QED
  BY <1>1, <1>2, PTL DEF Spec

(***************************************************************************)
(* What a single server has on disk is an earlier state of the list it has *)
(* in memory, whatever faults there are, and even when the size of a list  *)
(* has wrapped round SealModulus and the image holds only a part of it.    *)
(***************************************************************************)
THEOREM OlderListIsStored ==
  ASSUME OneServer
  PROVE  Spec => []StoredIsEarlier
<1>1. ASSUME TypeInv, EarlierInv
      PROVE  StoredIsEarlier
  <2>1. /\ file.plain \in Seq(Accounts)
        /\ \A s \in Servers : account_list[s] \in Seq(Accounts)
    BY <1>1 DEF TypeInv, TypeOK, Files
  <2> QED
    BY <1>1, <2>1, BeginsPrefix DEF EarlierInv, StoredIsEarlier
<1> QED
  BY <1>1, EarlierInvAlways, PTL

(***************************************************************************)
(* A single server whose lists fit and whose writes are whole never        *)
(* loses an account it has stored.  A second server is enough to lose one: *)
(* it may hold a list it read before the account was there.                *)
(***************************************************************************)
THEOREM OneServerLosesNoAccount ==
  ASSUME OneServer, ListsFit, ~TornWrites, ~FlushFails
  PROVE  Spec => AccountsSurvive
<1>1. ASSUME TypeInv, UniqueNames, EarlierInv, [Next]_vars
      PROVE  IsPrefix(Ids(file.plain), Ids(file'.plain))
  <2>1. /\ file \in Files /\ file.plain \in Seq(Accounts)
        /\ file' \in Files /\ file'.plain \in Seq(Accounts)
    BY <1>1, StepTypeInv DEF TypeInv, TypeOK, Files
  <2>2. ASSUME NEW s \in Servers, proc[s] = "store",
               file' = Overwritten(file, account_list[s])
        PROVE  Begins(file.plain, file'.plain)
    <3>1. file'.plain = account_list[s]
      BY <1>1, <2>1, <2>2, StoredNotEmpty, OverwrittenHolds DEF Holds
    <3> QED
      BY <1>1, <2>2, <3>1 DEF EarlierInv
  <2>3. ASSUME file' = file
        PROVE  Begins(file.plain, file'.plain)
    BY <2>1, <2>3, BeginsItself
  <2>4. Begins(file.plain, file'.plain)
    BY <1>1, <2>2, <2>3, FileStep
  <2> QED
    BY <2>1, <2>4, BeginsPrefix
<1> QED
  BY <1>1, EarlierInvAlways, NamesStayUnique, PTL DEF Spec, AccountsSurvive

-----------------------------------------------------------------------------
(* What was once on disk is not forgotten *)

LEMMA HasBegins ==
  ASSUME NEW stored \in Seq(Accounts), NEW list \in Seq(Accounts),
         NEW name, NEW password,
         Begins(stored, list), Has(stored, name, password)
  PROVE  Has(list, name, password)
<1>1. /\ DOMAIN stored = 1 .. Len(stored) /\ Len(stored) \in Nat
      /\ DOMAIN list = 1 .. Len(list) /\ Len(list) \in Nat
  BY LenProperties
<1>2. PICK i \in 1 .. Len(stored) :
        stored[i].name = name /\ stored[i].password = password
  BY <1>1 DEF Has
<1>3. i \in DOMAIN list /\ list[i].name = name /\ list[i].password = password
  BY <1>1, <1>2 DEF Begins
<1> QED
  BY <1>3 DEF Has

\* The list of an enclave that works has grown out of the one it had, or has
\* just been read.
LEMMA ListStep ==
  ASSUME OneServer, TypeInv, [Next]_vars,
         NEW s \in Servers, proc'[s] \in {"idle", "store"}
  PROVE  \/ /\ proc[s] \in {"idle", "store"}
            /\ Begins(account_list[s], account_list'[s])
         \/ /\ proc[s] = "load"
            /\ \/ sized[s] = 0
               \/ Unseals(file, sized[s]) /\ account_list'[s] = file.plain
<1>0. /\ \A t \in Servers : t = s
      /\ account_list[s] \in Seq(Accounts)
      /\ proc \in [Servers -> Phases] /\ account_list \in [Servers -> Seq(Accounts)]
      /\ sized \in [Servers -> Nat]
  BY DEF OneServer, TypeInv, TypeOK
<1>1. CASE UNCHANGED <<proc[s], account_list[s]>>
  BY <1>0, <1>1, BeginsItself
<1>2. CASE InitManagerSize(s)
  BY <1>0, <1>2 DEF InitManagerSize
<1>3. CASE InitManagerLoad(s)
  BY <1>0, <1>3 DEF InitManagerLoad
<1>4. CASE \E name \in Names, password \in Passwords :
             OpenAccount(s, name, password)
  <2>1. PICK name \in Names, password \in Passwords :
          OpenAccount(s, name, password)
    BY <1>4
  <2>2. account_list'[s] = Append(account_list[s], NewAccount(name, password))
    BY <1>0, <2>1 DEF OpenAccount
  <2>3. Begins(account_list[s], account_list'[s])
    BY <1>0, <2>2, NewAccountType, BeginsItself, BeginsAppend
  <2> QED
    BY <2>1, <2>3 DEF OpenAccount
<1>5. CASE \E amount \in Amounts : EcallMyDeposit(s, amount)
  <2>1. PICK amount \in Amounts : EcallMyDeposit(s, amount)
    BY <1>5
  <2>2. AccountLogin(s) /\ Current(s) \in Accounts
    BY <2>1, CurrentAccount DEF EcallMyDeposit
  <2>3. account_list'[s] = [account_list[s] EXCEPT
          ![current_account[s]] = Deposit(Current(s), amount)]
    BY <1>0, <2>1 DEF EcallMyDeposit, Current
  <2>4. Begins(account_list[s], account_list'[s])
    BY <1>0, <2>2, <2>3, DepositAccount, CurrentAccount, BeginsItself,
       BeginsUpdate DEF Current
  <2> QED
    BY <2>1, <2>4 DEF EcallMyDeposit
<1>6. CASE \E amount \in Amounts : EcallMyWithdraw(s, amount)
  <2>1. PICK amount \in Amounts : EcallMyWithdraw(s, amount)
    BY <1>6
  <2>2. AccountLogin(s) /\ Current(s) \in Accounts
    BY <2>1, CurrentAccount DEF EcallMyWithdraw
  <2>3. account_list'[s] = [account_list[s] EXCEPT
          ![current_account[s]] = Withdraw(Current(s), amount)]
    BY <1>0, <2>1 DEF EcallMyWithdraw, Current
  <2>4. Begins(account_list[s], account_list'[s])
    BY <1>0, <2>2, <2>3, WithdrawAccount, CurrentAccount, BeginsItself,
       BeginsUpdate DEF Current
  <2> QED
    BY <2>1, <2>4 DEF EcallMyWithdraw
<1>7. CASE \/ \E name \in Names, password \in Passwords :
                LoginExisting(s, name, password)
           \/ NeedLogout(s) \/ EcallMyInquiry(s) \/ EcallFails(s)
  BY <1>1, <1>7 DEF LoginExisting, NeedLogout, EcallMyInquiry, EcallFails, Return
<1>8. CASE Store(s)
  <2>1. CASE AccountListStoreStorage(s)
    <3>1. proc[s] = "store" /\ account_list'[s] = account_list[s]
      BY <2>1 DEF AccountListStoreStorage
    <3> QED
      BY <1>0, <3>1, BeginsItself
  <2>2. CASE MarshalOutOfMemory(s) \/ SealOutOfMemory(s)
    <3>1. proc'[s] \in {"down", "orphan"}
      BY <1>0, <2>2 DEF MarshalOutOfMemory, SealOutOfMemory
    <3> QED
      BY <3>1
  <2> QED
    BY <1>8, <2>1, <2>2 DEF Store
<1>9. CASE EnclaveLost(s) \/ ProcessEnds(s)
  <2>1. proc'[s] \in {"down", "orphan"}
    BY <1>0, <1>9 DEF EnclaveLost, ProcessEnds
  <2> QED
    BY <2>1
<1>10. CASE UNCHANGED vars
  BY <1>1, <1>10 DEF vars
<1> QED
  BY <1>0, <1>2, <1>3, <1>4, <1>5, <1>6, <1>7, <1>8, <1>9, <1>10
  DEF Next, Ecall

(***************************************************************************)
(* What becomes true when an account is first readable on disk and stays   *)
(* true: the file is not empty, so a start that cannot read it fails, and  *)
(* the account is wherever a list is, in an image that unseals and in the  *)
(* memory of an enclave that works.                                        *)
(***************************************************************************)
Known(name, password) ==
  /\ file.size > 0
  /\ Unseals(file, file.size) => Has(file.plain, name, password)
  /\ \A s \in Servers :
       proc[s] \in {"idle", "store"} => Has(account_list[s], name, password)

LEMMA StoredIsKnown ==
  ASSUME TypeInv, EarlierInv, NEW name, NEW password,
         Has(file.plain, name, password)
  PROVE  Known(name, password)
<1>1. /\ file.plain \in Seq(Accounts) /\ file.size \in Nat
      /\ \A s \in Servers : account_list[s] \in Seq(Accounts)
  BY DEF TypeInv, TypeOK, Files
<1>2. file.size > 0
  BY <1>1 DEF EarlierInv, Has
<1> QED
  BY <1>1, <1>2, HasBegins DEF EarlierInv, Known

LEMMA StepKnown ==
  ASSUME OneServer, ListsFit, TypeInv, UniqueNames, DiskInv, [Next]_vars,
         NEW name, NEW password, Known(name, password)
  PROVE  Known(name, password)'
<1>1. /\ file \in Files /\ file.plain \in Seq(Accounts) /\ file.size \in Nat
      /\ \A s \in Servers : /\ account_list[s] \in Seq(Accounts)
                            /\ account_list'[s] \in Seq(Accounts)
  BY StepTypeInv DEF TypeInv, TypeOK, Files
<1>2. /\ file'.size > 0
      /\ Unseals(file', file'.size) => Has(file'.plain, name, password)
  <2>1. CASE UNCHANGED file
    BY <2>1 DEF Known
  <2>2. ASSUME NEW s \in Servers, proc[s] = "store",
               file' = Overwritten(file, account_list[s])
        PROVE  file'.size > 0 /\ Has(file'.plain, name, password)
    <3>1. Holds(file', account_list[s])
      BY <1>1, <2>2, StoredNotEmpty, OverwrittenHolds
    <3>2. file' \in Files
      BY StepTypeInv DEF TypeInv, TypeOK
    <3>3. file'.bytes \in Nat /\ file'.size \in Nat
      BY <3>2 DEF Files
    <3>4. file'.size > 0
      BY <3>1, <3>3, SealingAssumption DEF Holds, Unseals
    <3> QED
      BY <2>2, <3>1, <3>4 DEF Holds, Known
  <2>3. CASE file' = HalfWritten(file)
    BY <1>1, <2>3, HalfWrittenType DEF Unseals
  <2> QED
    BY <2>1, <2>2, <2>3, FileStep
<1>3. ASSUME NEW s \in Servers, proc'[s] \in {"idle", "store"}
      PROVE  Has(account_list'[s], name, password)
  <2>1. CASE /\ proc[s] \in {"idle", "store"}
             /\ Begins(account_list[s], account_list'[s])
    BY <1>1, <2>1, HasBegins DEF Known
  <2>2. CASE /\ proc[s] = "load"
             /\ \/ sized[s] = 0
                \/ Unseals(file, sized[s]) /\ account_list'[s] = file.plain
    <3>1. sized[s] = file.size
      BY <2>2 DEF DiskInv, SizedIsSize
    <3> QED
      BY <1>1, <2>2, <3>1 DEF Known
  <2> QED
    BY <1>3, <2>1, <2>2, ListStep
<1> QED
  BY <1>2, <1>3 DEF Known

(***************************************************************************)
(* A single server whose lists fit works with every account that was ever  *)
(* readable on disk, whatever crashes, whatever write is torn and however  *)
(* a flush fails; where it cannot, it does not work.                       *)
(***************************************************************************)
THEOREM NothingIsForgotten ==
  ASSUME OneServer, ListsFit
  PROVE  Spec => NothingForgotten
<1> SUFFICES ASSUME NEW name \in Names, NEW password \in Passwords
             PROVE  Spec => [](Has(file.plain, name, password) =>
                                 [](\A s \in Servers :
                                      proc[s] \in {"idle", "store"} =>
                                        Has(account_list[s], name, password)))
  BY DEF NothingForgotten
<1>1. TypeInv /\ EarlierInv /\ Has(file.plain, name, password)
        => Known(name, password)
  BY StoredIsKnown
<1>2. TypeInv /\ UniqueNames /\ DiskInv /\ [Next]_vars /\ Known(name, password)
        => Known(name, password)'
  BY StepKnown
<1>3. Known(name, password)
        => \A s \in Servers : proc[s] \in {"idle", "store"} =>
                                Has(account_list[s], name, password)
  BY DEF Known
<1> QED
  BY <1>1, <1>2, <1>3, DiskInvAlways, EarlierInvAlways, PTL DEF Spec

=============================================================================

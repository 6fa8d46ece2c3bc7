------------------------- MODULE BankServiceProofs -------------------------
(***************************************************************************)
(* DealManager implements BankService: with one server whose lists fit,    *)
(* whose flushes succeed and whose writes are whole, every step of the     *)
(* enclave and of its surroundings is a BankService step on the book in    *)
(* the file, or no step at all.                                            *)
(***************************************************************************)
EXTENDS DealManagerProofs

-----------------------------------------------------------------------------
(* The book of a list *)

Entry(account) == [password |-> account.password, deposits |-> account.deposits]

LEMMA BookLookup ==
  ASSUME NEW list \in Seq(Accounts), Distinct(list)
  PROVE  /\ DOMAIN BookOf(list) = {list[i].name : i \in 1 .. Len(list)}
         /\ \A i \in 1 .. Len(list) :
              BookOf(list)[list[i].name] = Entry(list[i])
<1>1. DOMAIN list = 1 .. Len(list)
  BY LenProperties
<1>2. DOMAIN BookOf(list) = {list[i].name : i \in 1 .. Len(list)}
  BY <1>1 DEF BookOf
<1>3. ASSUME NEW i \in 1 .. Len(list)
      PROVE  BookOf(list)[list[i].name] = Entry(list[i])
  <2> DEFINE name == list[i].name
             first == CHOOSE j \in DOMAIN list : IsFirst(list, j, name)
  <2>1. IsFirst(list, i, name)
    <3>1. \A j \in 1 .. i - 1 : j \in DOMAIN list /\ j # i
      BY <1>1, LenProperties
    <3> QED
      BY <1>1, <3>1 DEF Distinct, IsFirst
  <2>2. first \in DOMAIN list /\ IsFirst(list, first, name)
    BY <1>1, <2>1
  <2>3. first = i
    BY <1>1, <2>2 DEF Distinct, IsFirst
  <2>4. BookOf(list)[name] =
          [password |-> list[first].password, deposits |-> list[first].deposits]
    BY <1>1 DEF BookOf
  <2> QED
    BY <2>3, <2>4 DEF Entry
<1> QED
  BY <1>2, <1>3

\* A book is known by its names and what it says of each.
LEMMA BookIs ==
  ASSUME NEW list \in Seq(Accounts), Distinct(list),
         NEW book, book = [name \in DOMAIN book |-> book[name]],
         DOMAIN book = {list[i].name : i \in 1 .. Len(list)},
         \A i \in 1 .. Len(list) : book[list[i].name] = Entry(list[i])
  PROVE  BookOf(list) = book
<1>1. DOMAIN BookOf(list) = DOMAIN book
  BY BookLookup
<1>2. ASSUME NEW name \in DOMAIN book
      PROVE  BookOf(list)[name] = book[name]
  <2>1. PICK i \in 1 .. Len(list) : name = list[i].name
    OBVIOUS
  <2>2. BookOf(list)[list[i].name] = Entry(list[i])
    BY BookLookup
  <2> QED
    BY <2>1, <2>2
<1>3. BookOf(list) = [name \in DOMAIN BookOf(list) |-> BookOf(list)[name]]
  BY DEF BookOf
<1> HIDE DEF BookOf
<1> QED
  BY <1>1, <1>2, <1>3

LEMMA EntryUpdate ==
  ASSUME NEW account \in Accounts, NEW deposits
  PROVE  [Entry(account) EXCEPT !.deposits = deposits]
           = [password |-> account.password, deposits |-> deposits]
BY DEF Entry

LEMMA BookAppend ==
  ASSUME NEW list \in Seq(Accounts), NEW account \in Accounts, Distinct(list),
         \A i \in DOMAIN list : list[i].name # account.name
  PROVE  /\ account.name \notin DOMAIN BookOf(list)
         /\ BookOf(Append(list, account)) =
              [name \in DOMAIN BookOf(list) \cup {account.name} |->
                 IF name = account.name THEN Entry(account)
                 ELSE BookOf(list)[name]]
<1> DEFINE longer == Append(list, account)
           n == Len(list)
<1>1. n \in Nat /\ DOMAIN list = 1 .. n
  BY LenProperties
<1>2. /\ longer \in Seq(Accounts) /\ Len(longer) = n + 1
      /\ \A i \in 1 .. n : longer[i] = list[i]
      /\ longer[n + 1] = account
  BY AppendProperties
<1>3. Distinct(longer)
  BY DistinctAppend
<1>4. /\ DOMAIN BookOf(list) = {list[i].name : i \in 1 .. n}
      /\ \A i \in 1 .. n : BookOf(list)[list[i].name] = Entry(list[i])
  BY BookLookup
<1>5. account.name \notin DOMAIN BookOf(list)
  BY <1>1, <1>4
<1> DEFINE names == DOMAIN BookOf(list) \cup {account.name}
           book == [name \in names |-> IF name = account.name THEN Entry(account)
                                       ELSE BookOf(list)[name]]
<1> HIDE DEF longer, n
<1>6. 1 .. n + 1 = 1 .. n \cup {n + 1}
  BY <1>1
<1>7. DOMAIN book = {longer[i].name : i \in 1 .. Len(longer)}
  BY <1>2, <1>4, <1>6
<1>8. \A i \in 1 .. Len(longer) : book[longer[i].name] = Entry(longer[i])
  BY <1>1, <1>2, <1>4, <1>6
<1>9. book = [name \in DOMAIN book |-> book[name]]
  OBVIOUS
<1> HIDE DEF book, names
<1>10. BookOf(longer) = book
  <2>1. longer \in Seq(Accounts)
    BY <1>2
  <2> QED
    BY <2>1, <1>3, <1>7, <1>8, <1>9, BookIs
<1> QED
  BY <1>5, <1>10 DEF longer, book, names

LEMMA BookUpdate ==
  ASSUME NEW list \in Seq(Accounts), Distinct(list), NEW i \in 1 .. Len(list),
         NEW account \in Accounts,
         account.name = list[i].name, account.password = list[i].password
  PROVE  BookOf([list EXCEPT ![i] = account]) =
           [BookOf(list) EXCEPT ![list[i].name].deposits = account.deposits]
<1> DEFINE changed == [list EXCEPT ![i] = account]
           n == Len(list)
           book == BookOf(list)
<1>1. n \in Nat /\ DOMAIN list = 1 .. n
  BY LenProperties
<1>2. /\ changed \in Seq(Accounts) /\ Len(changed) = n
      /\ \A j \in 1 .. n : changed[j] = IF j = i THEN account ELSE list[j]
  BY ExceptSeq
<1>3. Distinct(changed)
  BY DistinctUpdate
<1>4. /\ DOMAIN book = {list[j].name : j \in 1 .. n}
      /\ \A j \in 1 .. n : book[list[j].name] = Entry(list[j])
  BY BookLookup
<1>5. \A j \in 1 .. n : list[j].name = list[i].name => j = i
  BY <1>1 DEF Distinct
<1>6. book = [name \in DOMAIN book |-> book[name]]
  BY DEF BookOf
<1> DEFINE updated == [book EXCEPT ![list[i].name] = Entry(account)]
<1> HIDE DEF changed, n, book
<1>7. \A j \in 1 .. n : changed[j].name = list[j].name
  BY <1>2
<1>8. DOMAIN updated = {changed[j].name : j \in 1 .. Len(changed)}
  BY <1>2, <1>4, <1>7
<1>9. \A j \in 1 .. Len(changed) : updated[changed[j].name] = Entry(changed[j])
  BY <1>2, <1>4, <1>5, <1>7
<1>10. updated = [name \in DOMAIN updated |-> updated[name]]
  BY <1>6
<1> HIDE DEF updated
<1>11. BookOf(changed) = updated
  <2>1. changed \in Seq(Accounts)
    BY <1>2
  <2> QED
    BY <2>1, <1>3, <1>8, <1>9, <1>10, BookIs
<1>12. [book[list[i].name] EXCEPT !.deposits = account.deposits] = Entry(account)
  <2>1. list[i] \in Accounts
    BY ElementOfSeq
  <2>2. book[list[i].name] = Entry(list[i])
    BY <1>4 DEF n
  <2>3. [Entry(list[i]) EXCEPT !.deposits = account.deposits] = Entry(account)
    BY <2>1, EntryUpdate DEF Entry
  <2> QED
    BY <2>2, <2>3
<1> QED
  BY <1>11, <1>12 DEF changed, book, updated

-----------------------------------------------------------------------------
(* The file and the list an enclave is storing *)

\* list is the stored one after the call, with current_account at i.
Opened(stored, list, i) ==
  \E name \in Names, password \in Passwords :
    /\ \A j \in DOMAIN stored : stored[j].name # name
    /\ list = Append(stored, NewAccount(name, password))
    /\ i = Len(stored) + 1

Deposited(stored, list, i, amount) ==
  /\ amount \in Amounts /\ i \in 1 .. Len(stored)
  /\ list = [stored EXCEPT ![i] = Deposit(stored[i], amount)]

Withdrawn(stored, list, i, amount) ==
  /\ amount \in Amounts /\ i \in 1 .. Len(stored)
  /\ list = [stored EXCEPT ![i] = Withdraw(stored[i], amount)]

(***************************************************************************)
(* While the enclave is idle the file holds its list; while it stores, the *)
(* file is one call behind, and the call says which.                       *)
(***************************************************************************)
Behind(s) ==
  \/ /\ call[s].op = "ecallNewAccount"
     /\ Opened(file.plain, account_list[s], current_account[s])
  \/ /\ call[s].op = "ecallMyDeposit"
     /\ Deposited(file.plain, account_list[s], current_account[s], call[s].amount)
  \/ /\ call[s].op = "ecallMyWithdraw"
     /\ Withdrawn(file.plain, account_list[s], current_account[s], call[s].amount)

OneBehind ==
  \A s \in Servers :
    /\ proc[s] = "idle" => file.plain = account_list[s]
    /\ proc[s] = "store" => ret[s] = Undefined /\ Behind(s)

BankInv == /\ TypeInv /\ UniqueNames
           /\ DiskInv /\ EarlierInv
           /\ OneBehind

LEMMA InitBankInv == Init => BankInv
BY InitTypeInv, InitDiskInv, InitEarlierInv, DistinctEmpty
   DEF Init, EmptyFile, BankInv, UniqueNames, OneBehind

LEMMA StepOneBehind ==
  ASSUME OneServer, ListsFit, ~FlushFails, ~TornWrites, BankInv, [Next]_vars
  PROVE  OneBehind'
<1> USE DEF OneBehind
<1>0. /\ \A s, t \in Servers : s = t
      /\ file \in Files /\ file.plain \in Seq(Accounts) /\ file.size \in Nat
      /\ \A s \in Servers : account_list[s] \in Seq(Accounts)
      /\ TypeInv /\ UniqueNames /\ DiskInv /\ EarlierInv
  BY DEF OneServer, BankInv, TypeInv, TypeOK, Files
<1>1. ASSUME NEW s \in Servers, proc'[s] \notin {"idle", "store"}
      PROVE  OneBehind'
  BY <1>0, <1>1
<1>2. ASSUME NEW s \in Servers, proc'[s] = "idle",
             file'.plain = account_list'[s]
      PROVE  OneBehind'
  BY <1>0, <1>2
<1>3. ASSUME NEW s \in Servers, proc'[s] = "store",
             ret'[s] = Undefined, Behind(s)'
      PROVE  OneBehind'
  BY <1>0, <1>3
<1>4. ASSUME NEW s \in Servers, InitManagerLoad(s)
      PROVE  OneBehind'
  <2>1. sized[s] = file.size /\ account_list[s] = <<>> /\ UNCHANGED file
    BY <1>0, <1>4 DEF InitManagerLoad, EarlierInv, SizedIsSize
  <2>2. CASE sized[s] = 0
    <3>1. proc'[s] = "idle" /\ account_list'[s] = file.plain
      BY <1>0, <1>4, <2>1, <2>2 DEF InitManagerLoad, EarlierInv, TypeInv, TypeOK
    <3> QED
      BY <1>2, <2>1, <3>1
  <2>3. CASE sized[s] > 0 /\ Unseals(file, sized[s])
    <3>1. proc'[s] = "idle" /\ account_list'[s] = file.plain
      BY <1>0, <1>4, <2>3 DEF InitManagerLoad, TypeInv, TypeOK
    <3> QED
      BY <1>2, <2>1, <3>1
  <2>4. CASE sized[s] > 0 /\ ~Unseals(file, sized[s])
    <3>1. proc'[s] = "orphan"
      BY <1>0, <1>4, <2>4 DEF InitManagerLoad, TypeInv, TypeOK
    <3> QED
      BY <1>1, <3>1
  <2> QED
    BY <1>0, <2>1, <2>2, <2>3, <2>4
<1>5. ASSUME NEW s \in Servers, NEW name \in Names, NEW password \in Passwords,
             OpenAccount(s, name, password)
      PROVE  OneBehind'
  <2>1. /\ proc[s] = "idle" /\ proc'[s] = "store"
        /\ ret'[s] = Undefined /\ UNCHANGED file
        /\ call'[s].op = "ecallNewAccount"
        /\ current_account'[s] = Len(account_list[s]) + 1
        /\ \A i \in DOMAIN account_list[s] : account_list[s][i].name # name
        /\ account_list'[s] =
             Append(account_list[s], NewAccount(name, password))
    BY <1>0, <1>5 DEF OpenAccount, EnterStore, TypeInv, TypeOK
  <2>2. Opened(file.plain, account_list'[s], current_account'[s])
    BY <1>0, <2>1 DEF Opened, BankInv
  <2>3. Behind(s)'
    BY <2>1, <2>2 DEF Behind
  <2> QED
    BY <1>3, <2>1, <2>3
<1>6. ASSUME NEW s \in Servers, NEW amount \in Amounts,
             EcallMyDeposit(s, amount)
      PROVE  OneBehind'
  <2>1. /\ proc[s] = "idle" /\ proc'[s] = "store" /\ AccountLogin(s)
        /\ ret'[s] = Undefined /\ UNCHANGED <<file, current_account>>
        /\ call'[s].op = "ecallMyDeposit" /\ call'[s].amount = amount
        /\ account_list'[s] = [account_list[s] EXCEPT ![current_account[s]] =
             Deposit(account_list[s][current_account[s]], amount)]
    BY <1>0, <1>6 DEF EcallMyDeposit, EnterStore, TypeInv, TypeOK
  <2>2. current_account[s] \in 1 .. Len(account_list[s])
    BY <1>0, <2>1, CurrentAccount
  <2>3. Deposited(file.plain, account_list'[s], current_account'[s], amount)
    BY <1>0, <2>1, <2>2 DEF Deposited, BankInv
  <2>4. Behind(s)'
    BY <2>1, <2>3 DEF Behind
  <2> QED
    BY <1>3, <2>1, <2>4
<1>7. ASSUME NEW s \in Servers, NEW amount \in Amounts,
             EcallMyWithdraw(s, amount)
      PROVE  OneBehind'
  <2>1. /\ proc[s] = "idle" /\ proc'[s] = "store" /\ AccountLogin(s)
        /\ ret'[s] = Undefined /\ UNCHANGED <<file, current_account>>
        /\ call'[s].op = "ecallMyWithdraw" /\ call'[s].amount = amount
        /\ account_list'[s] = [account_list[s] EXCEPT ![current_account[s]] =
             Withdraw(account_list[s][current_account[s]], amount)]
    BY <1>0, <1>7 DEF EcallMyWithdraw, EnterStore, TypeInv, TypeOK
  <2>2. current_account[s] \in 1 .. Len(account_list[s])
    BY <1>0, <2>1, CurrentAccount
  <2>3. Withdrawn(file.plain, account_list'[s], current_account'[s], amount)
    BY <1>0, <2>1, <2>2 DEF Withdrawn, BankInv
  <2>4. Behind(s)'
    BY <2>1, <2>3 DEF Behind
  <2> QED
    BY <1>3, <2>1, <2>4
<1>8. ASSUME NEW s \in Servers, Ecall(s)
      PROVE  OneBehind'
  <2>1. CASE \/ \E name \in Names, password \in Passwords :
                  LoginExisting(s, name, password)
             \/ NeedLogout(s) \/ EcallMyInquiry(s)
    <3>1. /\ proc[s] = "idle" /\ UNCHANGED <<proc, account_list, file>>
      BY <2>1 DEF LoginExisting, NeedLogout, EcallMyInquiry, Return
    <3> QED
      BY <1>2, <3>1 DEF BankInv
  <2>2. CASE EcallFails(s)
    BY <1>1, <2>2 DEF EcallFails
  <2> QED
    BY <1>5, <1>6, <1>7, <1>8, <2>1, <2>2 DEF Ecall
<1>9. ASSUME NEW s \in Servers, AccountListStoreStorage(s)
      PROVE  OneBehind'
  <2>1. /\ proc[s] = "store" /\ proc'[s] = "idle"
        /\ account_list'[s] = account_list[s]
        /\ file' = Overwritten(file, account_list[s])
    BY <1>0, <1>9 DEF AccountListStoreStorage, TypeInv, TypeOK
  <2>2. file'.plain = account_list[s]
    BY <1>0, <2>1, StoredNotEmpty, OverwrittenHolds DEF Holds
  <2> QED
    BY <1>2, <2>1, <2>2
<1>10. ASSUME NEW s \in Servers,
              \/ InitManagerSize(s) \/ MarshalOutOfMemory(s)
              \/ SealOutOfMemory(s) \/ EnclaveLost(s) \/ ProcessEnds(s)
       PROVE  OneBehind'
  BY <1>0, <1>1, <1>10 DEF InitManagerSize, MarshalOutOfMemory,
       SealOutOfMemory, EnclaveLost, ProcessEnds, TypeInv, TypeOK
<1>11. CASE UNCHANGED vars
  BY <1>11 DEF vars, BankInv, Behind
<1> QED
  BY <1>4, <1>8, <1>9, <1>10, <1>11 DEF Next, Store

LEMMA BankInvAlways ==
  ASSUME OneServer, ListsFit, ~FlushFails, ~TornWrites
  PROVE  Spec => []BankInv
<1>1. BankInv /\ [Next]_vars => BankInv'
  BY StepTypeInv, StepUniqueNames, StepDiskInv, StepEarlierInv, StepOneBehind
     DEF BankInv
<1> QED
  BY <1>1, InitBankInv, PTL DEF Spec

-----------------------------------------------------------------------------
(* What a call does to the book *)

LEMMA AddWraps ==
  ASSUME NEW d \in UInt64, NEW amount \in UInt64
  PROVE  /\ UINT64_MAX - d < amount <=> ~(d + amount <= UINT64_MAX)
         /\ d + amount <= UINT64_MAX => Wrap64(d + amount) = d + amount
         /\ d < amount <=> ~(amount <= d)
         /\ amount <= d => Wrap64(d - amount) = d - amount
BY WordAssumption DEF UInt64, Wrap64

\* The book with another balance for one name.
Rebalanced(book, name, deposits) == [book EXCEPT ![name].deposits = deposits]

LEMMA BalanceGranted ==
  ASSUME NEW stored \in Seq(Accounts), Distinct(stored),
         NEW i \in 1 .. Len(stored), NEW account \in Accounts,
         account.name = stored[i].name, account.password = stored[i].password
  PROVE  LET list == [stored EXCEPT ![i] = account]
         IN  /\ account.name \in Names /\ account.name \in DOMAIN BookOf(stored)
             /\ BookOf(stored)[account.name].deposits = stored[i].deposits
             /\ list[i] = account
             /\ BookOf(list) =
                  Rebalanced(BookOf(stored), account.name, account.deposits)
             /\ BookOf(list)[account.name].deposits = account.deposits
<1> DEFINE name == stored[i].name
           list == [stored EXCEPT ![i] = account]
<1>1. stored[i] \in Accounts
  BY ElementOfSeq
<1>2. name \in Names
  BY <1>1 DEF Accounts
<1>3. name \in DOMAIN BookOf(stored) /\ BookOf(stored)[name] = Entry(stored[i])
  BY BookLookup
<1>4. list \in Seq(Accounts) /\ Len(list) = Len(stored) /\ list[i] = account
  BY ExceptSeq
<1>5. Distinct(list)
  BY DistinctUpdate
<1>6. BookOf(list)[list[i].name] = Entry(list[i])
  BY <1>4, <1>5, BookLookup
<1>7. BookOf(list)
        = [BookOf(stored) EXCEPT ![stored[i].name].deposits = account.deposits]
  BY BookUpdate
<1>8. BookOf(list) = Rebalanced(BookOf(stored), name, account.deposits)
  <2> HIDE DEF BookOf
  <2> QED
    BY <1>7 DEF Rebalanced
<1> QED
  BY <1>2, <1>3, <1>4, <1>6, <1>8 DEF Entry

\* The same balance again.
LEMMA RebalancedSame ==
  ASSUME NEW list \in Seq(Accounts), Distinct(list), NEW i \in 1 .. Len(list)
  PROVE  Rebalanced(BookOf(list), list[i].name, list[i].deposits) = BookOf(list)
<1> DEFINE book == BookOf(list)
           name == list[i].name
<1>1. list[i] \in Accounts
  BY ElementOfSeq
<1>2. book[name] = Entry(list[i])
  BY BookLookup
<1>3. [book[name] EXCEPT !.deposits = list[i].deposits] = book[name]
  <2>1. [Entry(list[i]) EXCEPT !.deposits = list[i].deposits] = Entry(list[i])
    BY <1>1, EntryUpdate DEF Entry
  <2> HIDE DEF book, name
  <2> QED
    BY <1>2, <2>1
<1>4. book = [j \in DOMAIN book |-> book[j]]
  BY DEF BookOf
<1> HIDE DEF book, name
<1>5. Rebalanced(book, name, list[i].deposits) = book
  BY <1>3, <1>4 DEF Rebalanced
<1> QED
  BY <1>5 DEF book, name

LEMMA DepositGranted ==
  ASSUME NEW stored \in Seq(Accounts), Distinct(stored), NEW list, NEW i,
         NEW amount, Deposited(stored, list, i, amount)
  PROVE  LET book == BookOf(stored)
             name == list[i].name
         IN  /\ name \in Names /\ name \in DOMAIN book
             /\ BookOf(list) =
                  IF book[name].deposits + amount <= UINT64_MAX
                  THEN Rebalanced(book, name, book[name].deposits + amount)
                  ELSE book
             /\ list[i].deposits = BookOf(list)[name].deposits
<1> DEFINE old == stored[i]
           new == Deposit(old, amount)
<1>0. i \in 1 .. Len(stored) /\ amount \in Amounts /\ amount \in UInt64
  BY DealManagerAssumption DEF Deposited
<1>1. list = [stored EXCEPT ![i] = new]
  BY DEF Deposited
<1>2. old \in Accounts /\ old.deposits \in UInt64
  <2>1. old \in Accounts
    BY <1>0, ElementOfSeq
  <2> QED
    BY <2>1 DEF Accounts
<1>3. new \in Accounts /\ new.name = old.name /\ new.password = old.password
  BY <1>0, <1>2, DepositAccount
<1>4. new.deposits = IF old.deposits + amount <= UINT64_MAX
                     THEN old.deposits + amount ELSE old.deposits
  <2>1. CASE old.deposits + amount <= UINT64_MAX
    BY <1>0, <1>2, <2>1, AddWraps DEF Deposit, Accounts
  <2>2. CASE ~(old.deposits + amount <= UINT64_MAX)
    BY <1>0, <1>2, <2>2, AddWraps DEF Deposit
  <2> QED
    BY <2>1, <2>2
<1> HIDE DEF new
<1>5. /\ new.name \in Names /\ new.name \in DOMAIN BookOf(stored)
      /\ BookOf(stored)[new.name].deposits = old.deposits
      /\ list[i] = new
      /\ BookOf(list) = Rebalanced(BookOf(stored), new.name, new.deposits)
      /\ BookOf(list)[new.name].deposits = new.deposits
  <2>1. i \in 1 .. Len(stored)
    BY <1>0
  <2>2. new \in Accounts
    BY <1>3
  <2>3. new.name = stored[i].name /\ new.password = stored[i].password
    BY <1>3
  <2> DEFINE changed == [stored EXCEPT ![i] = new]
  <2>4. /\ new.name \in Names /\ new.name \in DOMAIN BookOf(stored)
        /\ BookOf(stored)[new.name].deposits = stored[i].deposits
        /\ changed[i] = new
        /\ BookOf(changed) = Rebalanced(BookOf(stored), new.name, new.deposits)
        /\ BookOf(changed)[new.name].deposits = new.deposits
    BY <2>1, <2>2, <2>3, BalanceGranted
  <2> HIDE DEF changed
  <2>5. list = changed
    BY <1>1 DEF changed
  <2> QED
    BY <2>4, <2>5
<1>6. Rebalanced(BookOf(stored), new.name, old.deposits) = BookOf(stored)
  BY <1>0, <1>3, RebalancedSame
<1> HIDE DEF old
<1> QED
  BY <1>4, <1>5, <1>6

LEMMA WithdrawGranted ==
  ASSUME NEW stored \in Seq(Accounts), Distinct(stored), NEW list, NEW i,
         NEW amount, Withdrawn(stored, list, i, amount)
  PROVE  LET book == BookOf(stored)
             name == list[i].name
         IN  /\ name \in Names /\ name \in DOMAIN book
             /\ BookOf(list) =
                  IF amount <= book[name].deposits
                  THEN Rebalanced(book, name, book[name].deposits - amount)
                  ELSE book
             /\ list[i].deposits = BookOf(list)[name].deposits
<1> DEFINE old == stored[i]
           new == Withdraw(old, amount)
<1>0. i \in 1 .. Len(stored) /\ amount \in Amounts /\ amount \in UInt64
  BY DealManagerAssumption DEF Withdrawn
<1>1. list = [stored EXCEPT ![i] = new]
  BY DEF Withdrawn
<1>2. old \in Accounts /\ old.deposits \in UInt64
  <2>1. old \in Accounts
    BY <1>0, ElementOfSeq
  <2> QED
    BY <2>1 DEF Accounts
<1>3. new \in Accounts /\ new.name = old.name /\ new.password = old.password
  BY <1>0, <1>2, WithdrawAccount
<1>4. new.deposits = IF amount <= old.deposits
                     THEN old.deposits - amount ELSE old.deposits
  <2>1. CASE amount <= old.deposits
    BY <1>0, <1>2, <2>1, AddWraps DEF Withdraw, Accounts
  <2>2. CASE ~(amount <= old.deposits)
    BY <1>0, <1>2, <2>2, AddWraps DEF Withdraw
  <2> QED
    BY <2>1, <2>2
<1> HIDE DEF new
<1>5. /\ new.name \in Names /\ new.name \in DOMAIN BookOf(stored)
      /\ BookOf(stored)[new.name].deposits = old.deposits
      /\ list[i] = new
      /\ BookOf(list) = Rebalanced(BookOf(stored), new.name, new.deposits)
      /\ BookOf(list)[new.name].deposits = new.deposits
  <2>1. i \in 1 .. Len(stored)
    BY <1>0
  <2>2. new \in Accounts
    BY <1>3
  <2>3. new.name = stored[i].name /\ new.password = stored[i].password
    BY <1>3
  <2> DEFINE changed == [stored EXCEPT ![i] = new]
  <2>4. /\ new.name \in Names /\ new.name \in DOMAIN BookOf(stored)
        /\ BookOf(stored)[new.name].deposits = stored[i].deposits
        /\ changed[i] = new
        /\ BookOf(changed) = Rebalanced(BookOf(stored), new.name, new.deposits)
        /\ BookOf(changed)[new.name].deposits = new.deposits
    BY <2>1, <2>2, <2>3, BalanceGranted
  <2> HIDE DEF changed
  <2>5. list = changed
    BY <1>1 DEF changed
  <2> QED
    BY <2>4, <2>5
<1>6. Rebalanced(BookOf(stored), new.name, old.deposits) = BookOf(stored)
  BY <1>0, <1>3, RebalancedSame
<1> HIDE DEF old
<1> QED
  BY <1>4, <1>5, <1>6

LEMMA OpenGranted ==
  ASSUME NEW stored \in Seq(Accounts), Distinct(stored), NEW list, NEW i,
         Opened(stored, list, i)
  PROVE  LET book == BookOf(stored)
             name == list[i].name
         IN  /\ name \in Names /\ list[i].password \in Passwords
             /\ name \notin DOMAIN book
             /\ BookOf(list) =
                  [n \in DOMAIN book \cup {name} |->
                     IF n = name
                     THEN [password |-> list[i].password, deposits |-> 0]
                     ELSE book[n]]
<1>1. PICK name \in Names, password \in Passwords :
        /\ \A j \in DOMAIN stored : stored[j].name # name
        /\ list = Append(stored, NewAccount(name, password))
        /\ i = Len(stored) + 1
  BY DEF Opened
<1> DEFINE account == NewAccount(name, password)
<1>2. /\ account \in Accounts /\ account.name = name
      /\ account.password = password /\ account.deposits = 0
  BY NewAccountType DEF NewAccount
<1> HIDE DEF account
<1>3. list = Append(stored, account) /\ list[i] = account
  BY <1>1, <1>2, AppendProperties DEF account
<1>4. /\ account.name \notin DOMAIN BookOf(stored)
      /\ BookOf(Append(stored, account)) =
           [n \in DOMAIN BookOf(stored) \cup {account.name} |->
              IF n = account.name THEN Entry(account) ELSE BookOf(stored)[n]]
  BY <1>1, <1>2, BookAppend
<1> QED
  BY <1>2, <1>3, <1>4 DEF Entry

-----------------------------------------------------------------------------
(* Each step of the enclave is a step of the bank *)

LEMMA TheServerExists ==
  ASSUME Servers # {}, OneServer
  PROVE  TheServer \in Servers /\ \A s \in Servers : s = TheServer
<1>1. TheServer \in Servers
  BY DEF TheServer
<1> QED
  BY <1>1 DEF OneServer

LEMMA NoCallNoRequest ==
  ASSUME NEW s \in Servers, proc[s] # "store"
  PROVE  RequestOf(s) = None
BY DEF RequestOf

\* What is being stored is a request for an account of the list.
LEMMA StoringRequest ==
  ASSUME BankInv, NEW s \in Servers, proc[s] = "store"
  PROVE  /\ RequestOf(s) \in Bank!Requests
         /\ RequestOf(s).op = "open" <=> RequestOf(s).name \notin DOMAIN BookOf(file.plain)
         /\ BookOf(account_list[s]) = Bank!Granted(RequestOf(s))
         /\ StoreResult(s) = IF RequestOf(s).op = "open" THEN PROCESS_SUCCESS
                             ELSE BookOf(account_list[s])[RequestOf(s).name].deposits
<1> DEFINE stored == file.plain
           list == account_list[s]
           at == current_account[s]
           book == BookOf(stored)
           name == Current(s).name
<1>C. Current(s) = list[at]
  BY DEF Current
<1>0. file.plain \in Seq(Accounts) /\ Distinct(file.plain) /\ Behind(s)
  BY DEF BankInv, OneBehind, TypeInv, TypeOK, Files, UniqueNames
<1>1. CASE /\ call[s].op = "ecallNewAccount"
           /\ Opened(file.plain, account_list[s], current_account[s])
  <2>1. RequestOf(s) = [op |-> "open", name |-> name, password |-> Current(s).password]
    BY <1>1 DEF RequestOf
  <2>2. /\ name \in Names /\ Current(s).password \in Passwords
        /\ name \notin DOMAIN book
        /\ BookOf(account_list[s]) =
             [n \in DOMAIN book \cup {name} |->
                IF n = name THEN [password |-> Current(s).password, deposits |-> 0]
                ELSE book[n]]
    <3>1. stored \in Seq(Accounts) /\ Distinct(stored) /\ Opened(stored, list, at)
      BY <1>0, <1>1
    <3> HIDE DEF stored, list, at
    <3>2. /\ list[at].name \in Names /\ list[at].password \in Passwords
          /\ list[at].name \notin DOMAIN BookOf(stored)
          /\ BookOf(list) =
               [n \in DOMAIN BookOf(stored) \cup {list[at].name} |->
                  IF n = list[at].name
                  THEN [password |-> list[at].password, deposits |-> 0]
                  ELSE BookOf(stored)[n]]
      BY <3>1, OpenGranted
    <3> QED
      BY <1>C, <3>2 DEF list
  <2> HIDE DEF book, name
  <2>3. StoreResult(s) = PROCESS_SUCCESS
    BY <1>1 DEF StoreResult
  <2>4. RequestOf(s) \in Bank!Requests
    BY <2>1, <2>2 DEF Bank!Requests
  <2>5. Bank!Granted(RequestOf(s)) =
             [n \in DOMAIN book \cup {name} |->
                IF n = name THEN [password |-> Current(s).password, deposits |-> 0]
                ELSE book[n]]
    BY <2>1 DEF Bank!Granted, book
  <2> QED
    BY <2>1, <2>2, <2>3, <2>4, <2>5 DEF book
<1>2. CASE /\ call[s].op = "ecallMyDeposit"
           /\ Deposited(file.plain, account_list[s], current_account[s], call[s].amount)
  <2> DEFINE amount == call[s].amount
  <2>1. RequestOf(s) = [op |-> "deposit", name |-> name, amount |-> amount]
    BY <1>2 DEF RequestOf
  <2>2. /\ name \in Names /\ name \in DOMAIN book /\ amount \in Amounts
        /\ BookOf(account_list[s]) =
             IF book[name].deposits + amount <= UINT64_MAX
             THEN Rebalanced(book, name, book[name].deposits + amount) ELSE book
        /\ Current(s).deposits = BookOf(account_list[s])[name].deposits
    <3>1. stored \in Seq(Accounts) /\ Distinct(stored)
          /\ Deposited(stored, list, at, amount) /\ amount \in Amounts
      BY <1>0, <1>2 DEF Deposited
    <3> HIDE DEF stored, list, at, amount
    <3>2. /\ list[at].name \in Names /\ list[at].name \in DOMAIN BookOf(stored)
          /\ BookOf(list) =
               IF BookOf(stored)[list[at].name].deposits + amount <= UINT64_MAX
               THEN Rebalanced(BookOf(stored), list[at].name,
                               BookOf(stored)[list[at].name].deposits + amount)
               ELSE BookOf(stored)
          /\ list[at].deposits = BookOf(list)[list[at].name].deposits
      BY <3>1, DepositGranted
    <3> QED
      BY <1>C, <3>1, <3>2 DEF list
  <2> HIDE DEF book, name, amount
  <2>3. StoreResult(s) = Current(s).deposits
    BY <1>2 DEF StoreResult
  <2>4. RequestOf(s) \in Bank!Requests
    BY <2>1, <2>2 DEF Bank!Requests
  <2>5. Bank!Granted(RequestOf(s)) =
             IF book[name].deposits + amount <= UINT64_MAX
             THEN Rebalanced(book, name, book[name].deposits + amount) ELSE book
    BY <2>1 DEF Bank!Granted, book, Rebalanced
  <2> QED
    BY <2>1, <2>2, <2>3, <2>4, <2>5 DEF book
<1>3. CASE /\ call[s].op = "ecallMyWithdraw"
           /\ Withdrawn(file.plain, account_list[s], current_account[s], call[s].amount)
  <2> DEFINE amount == call[s].amount
  <2>1. RequestOf(s) = [op |-> "withdraw", name |-> name, amount |-> amount]
    BY <1>3 DEF RequestOf
  <2>2. /\ name \in Names /\ name \in DOMAIN book /\ amount \in Amounts
        /\ BookOf(account_list[s]) =
             IF amount <= book[name].deposits
             THEN Rebalanced(book, name, book[name].deposits - amount) ELSE book
        /\ Current(s).deposits = BookOf(account_list[s])[name].deposits
    <3>1. stored \in Seq(Accounts) /\ Distinct(stored)
          /\ Withdrawn(stored, list, at, amount) /\ amount \in Amounts
      BY <1>0, <1>3 DEF Withdrawn
    <3> HIDE DEF stored, list, at, amount
    <3>2. /\ list[at].name \in Names /\ list[at].name \in DOMAIN BookOf(stored)
          /\ BookOf(list) =
               IF amount <= BookOf(stored)[list[at].name].deposits
               THEN Rebalanced(BookOf(stored), list[at].name,
                               BookOf(stored)[list[at].name].deposits - amount)
               ELSE BookOf(stored)
          /\ list[at].deposits = BookOf(list)[list[at].name].deposits
      BY <3>1, WithdrawGranted
    <3> QED
      BY <1>C, <3>1, <3>2 DEF list
  <2> HIDE DEF book, name, amount
  <2>3. StoreResult(s) = Current(s).deposits
    BY <1>3 DEF StoreResult
  <2>4. RequestOf(s) \in Bank!Requests
    BY <2>1, <2>2 DEF Bank!Requests
  <2>5. Bank!Granted(RequestOf(s)) =
             IF amount <= book[name].deposits
             THEN Rebalanced(book, name, book[name].deposits - amount) ELSE book
    BY <2>1 DEF Bank!Granted, book, Rebalanced
  <2> QED
    BY <2>1, <2>2, <2>3, <2>4, <2>5 DEF book
<1> QED
  BY <1>0, <1>1, <1>2, <1>3 DEF Behind

\* Nothing the bank knows of changes.
LEMMA BankStutters ==
  ASSUME NEW s \in Servers, s = TheServer, proc[s] # "store", proc'[s] # "store",
         UNCHANGED file, ret'[s] = ret[s]
  PROVE  UNCHANGED Bank!bankVars
<1>1. RequestOf(s) = None /\ RequestOf(s)' = None
  BY DEF RequestOf
<1> QED
  BY <1>1 DEF Bank!bankVars

\* The call under way, if any, comes to nothing.
LEMMA BankAbandons ==
  ASSUME NEW s \in Servers, s = TheServer, proc'[s] # "store",
         UNCHANGED file, ret'[s] = Undefined
  PROVE  Bank!Abandon
<1>1. RequestOf(s)' = None
  BY DEF RequestOf
<1> QED
  BY <1>1 DEF Bank!Abandon

LEMMA BankReports ==
  ASSUME BankInv, NEW s \in Servers, s = TheServer,
         \/ \E name \in Names, password \in Passwords :
              LoginExisting(s, name, password)
         \/ NeedLogout(s) \/ EcallMyInquiry(s)
  PROVE  Bank!Report
<1> DEFINE list == account_list[s]
           book == BookOf(list)
<1>0. /\ list \in Seq(Accounts) /\ Distinct(list)
      /\ ret \in [Servers -> UInt64 \cup {Undefined}]
  BY DEF BankInv, TypeInv, TypeOK, UniqueNames
<1>1. /\ proc[s] = "idle" /\ UNCHANGED <<proc, file>>
  BY DEF LoginExisting, NeedLogout, EcallMyInquiry, Return
<1>2. file.plain = list
  BY <1>1 DEF BankInv, OneBehind
<1>3. RequestOf(s) = None /\ RequestOf(s)' = None
  BY <1>1 DEF RequestOf
<1>4. ASSUME NEW i \in 1 .. Len(list)
      PROVE  /\ list[i].name \in DOMAIN book
             /\ book[list[i].name].password = list[i].password
             /\ book[list[i].name].deposits = list[i].deposits
  <2> HIDE DEF list
  <2>1. list[i].name \in DOMAIN book /\ book[list[i].name] = Entry(list[i])
    BY <1>0, BookLookup
  <2> HIDE DEF book
  <2> QED
    BY <2>1 DEF Entry
<1>5. \/ \E name \in DOMAIN book, password \in Passwords :
           ret'[s] = IF password = book[name].password
                     THEN PROCESS_SUCCESS ELSE ACCOUNT_SET_FAIL
      \/ ret'[s] = NEED_LOGOUT
      \/ \E name \in DOMAIN book : ret'[s] = book[name].deposits
  <2>1. ASSUME NEW name \in Names, NEW password \in Passwords,
               LoginExisting(s, name, password)
        PROVE  \E n \in DOMAIN book, p \in Passwords :
                 ret'[s] = IF p = book[n].password
                           THEN PROCESS_SUCCESS ELSE ACCOUNT_SET_FAIL
    <3>1. PICK i \in DOMAIN list :
            ret'[s] = IF password = list[i].password
                      THEN PROCESS_SUCCESS ELSE ACCOUNT_SET_FAIL
      BY <1>0, <2>1 DEF LoginExisting, Return
    <3>2. i \in 1 .. Len(list)
      BY <1>0, LenProperties
    <3>3. list[i].name \in DOMAIN book /\ book[list[i].name].password = list[i].password
      BY <1>4, <3>2
    <3> HIDE DEF book, list
    <3> QED
      BY <3>1, <3>3
  <2>2. ASSUME NeedLogout(s)
        PROVE  ret'[s] = NEED_LOGOUT
    BY <1>0, <2>2 DEF NeedLogout, Return
  <2>3. ASSUME EcallMyInquiry(s)
        PROVE  \E n \in DOMAIN book : ret'[s] = book[n].deposits
    <3>1. current_account[s] \in 1 .. Len(list)
      BY <2>3, CurrentAccount DEF EcallMyInquiry, BankInv
    <3>2. ret'[s] = list[current_account[s]].deposits
      BY <1>0, <2>3 DEF EcallMyInquiry, Return, Current
    <3>3. book[list[current_account[s]].name].deposits = ret'[s]
      BY <1>4, <3>1, <3>2
    <3>4. list[current_account[s]].name \in DOMAIN book
      BY <1>4, <3>1
    <3> HIDE DEF book, list
    <3> QED
      BY <3>3, <3>4
  <2> HIDE DEF book, list
  <2> QED
    BY <2>1, <2>2, <2>3
<1> HIDE DEF book, list
<1> QED
  BY <1>1, <1>2, <1>3, <1>5 DEF Bank!Report, book

LEMMA BankAsked ==
  ASSUME OneServer, ListsFit, ~FlushFails, ~TornWrites,
         BankInv, BankInv', NEW s \in Servers, s = TheServer,
         \/ \E name \in Names, password \in Passwords :
              OpenAccount(s, name, password)
         \/ \E amount \in Amounts :
              EcallMyDeposit(s, amount) \/ EcallMyWithdraw(s, amount)
  PROVE  Bank!Ask
<1>1. /\ proc[s] = "idle" /\ proc'[s] = "store"
      /\ UNCHANGED file /\ ret'[s] = Undefined
  BY DEF OpenAccount, EcallMyDeposit, EcallMyWithdraw, EnterStore, BankInv,
         TypeInv, TypeOK
<1>2. RequestOf(s) = None
  BY <1>1 DEF RequestOf
<1>3. /\ RequestOf(s)' \in Bank!Requests
      /\ RequestOf(s)'.op = "open" <=> RequestOf(s)'.name \notin DOMAIN BookOf(file.plain)
  <2>1. (BankInv /\ proc[s] = "store" =>
          /\ RequestOf(s) \in Bank!Requests
          /\ RequestOf(s).op = "open"
               <=> RequestOf(s).name \notin DOMAIN BookOf(file.plain))'
    BY StoringRequest, PTL
  <2> QED
    BY <1>1, <2>1
<1> QED
  BY <1>1, <1>2, <1>3 DEF Bank!Ask

LEMMA BankGranted ==
  ASSUME ListsFit, ~FlushFails, BankInv, NEW s \in Servers, s = TheServer,
         AccountListStoreStorage(s)
  PROVE  Bank!Grant
<1>1. /\ proc[s] = "store" /\ proc'[s] = "idle"
      /\ ret'[s] = StoreResult(s)
      /\ file' = Overwritten(file, account_list[s])
  BY DEF AccountListStoreStorage, BankInv, TypeInv, TypeOK
<1>2. file'.plain = account_list[s]
  <2>1. file \in Files
    BY DEF BankInv, TypeInv, TypeOK
  <2> QED
    BY <1>1, <2>1, StoredNotEmpty, OverwrittenHolds DEF Holds, BankInv
<1>3. /\ RequestOf(s) \in Bank!Requests
      /\ BookOf(file'.plain) = Bank!Granted(RequestOf(s))
      /\ ret'[s] = IF RequestOf(s).op = "open" THEN PROCESS_SUCCESS
                   ELSE BookOf(file'.plain)[RequestOf(s).name].deposits
  BY <1>1, <1>2, StoringRequest
<1>4. RequestOf(s) # None
  BY <1>3, RequestAssumption
<1>5. RequestOf(s)' = None
  BY <1>1 DEF RequestOf
<1> QED
  BY <1>3, <1>4, <1>5 DEF Bank!Grant

LEMMA StepBank ==
  ASSUME Servers # {}, OneServer, ListsFit, ~FlushFails, ~TornWrites,
         BankInv, BankInv', [Next]_vars
  PROVE  [Bank!Next]_(Bank!bankVars)
<1> USE DEF Bank!Next
<1>0. \A s \in Servers : s = TheServer
  BY TheServerExists
<1>1. ASSUME NEW s \in Servers, InitManagerSize(s) \/ InitManagerLoad(s)
      PROVE  UNCHANGED Bank!bankVars
  BY <1>0, <1>1, BankStutters
     DEF InitManagerSize, InitManagerLoad, BankInv, TypeInv, TypeOK
<1>2. ASSUME NEW s \in Servers, Ecall(s)
      PROVE  Bank!Next
  <2>1. CASE EcallFails(s)
    BY <1>0, <2>1, BankAbandons DEF EcallFails, BankInv, TypeInv, TypeOK
  <2> QED
    BY <1>0, <1>2, <2>1, BankReports, BankAsked DEF Ecall
<1>3. ASSUME NEW s \in Servers, AccountListStoreStorage(s)
      PROVE  Bank!Next
  BY <1>0, <1>3, BankGranted
<1>4. ASSUME NEW s \in Servers,
             MarshalOutOfMemory(s) \/ SealOutOfMemory(s) \/ EnclaveLost(s)
      PROVE  [Bank!Next]_(Bank!bankVars)
  <2>1. proc'[s] # "store" /\ UNCHANGED <<file, ret>>
    BY <1>4 DEF MarshalOutOfMemory, SealOutOfMemory, EnclaveLost, BankInv,
                TypeInv, TypeOK
  <2>2. CASE proc[s] = "store"
    BY <1>0, <2>1, <2>2, BankAbandons DEF BankInv, OneBehind
  <2>3. CASE proc[s] # "store"
    BY <1>0, <2>1, <2>3, BankStutters
  <2> QED
    BY <2>2, <2>3
<1>5. ASSUME NEW s \in Servers, ProcessEnds(s)
      PROVE  Bank!Next
  BY <1>0, <1>5, BankAbandons DEF ProcessEnds, BankInv, TypeInv, TypeOK
<1>6. CASE UNCHANGED vars
  BY <1>6 DEF vars, Bank!bankVars, RequestOf, Current
<1> QED
  BY <1>1, <1>2, <1>3, <1>4, <1>5, <1>6 DEF Next, Store

(***************************************************************************)
(* With one server and a disk that keeps its word the enclave implements   *)
(* BankService, for every heap, every set of names and passwords and every *)
(* amount: each ecall takes its whole effect on disk at most once, and     *)
(* exactly once when it is answered.                                       *)
(***************************************************************************)
THEOREM EnclaveImplementsBank ==
  ASSUME Servers # {}, OneServer, ListsFit, ~FlushFails, ~TornWrites
  PROVE  Spec => ImplementsBank
<1>1. Init => Bank!Init
  <2> SUFFICES ASSUME Init
               PROVE  Bank!Init
    OBVIOUS
  <2>1. TheServer \in Servers
    BY TheServerExists
  <2>2. RequestOf(TheServer) = None /\ ret[TheServer] = Undefined
    BY <2>1 DEF Init, RequestOf
  <2>3. BookOf(file.plain) = <<>>
    BY DEF Init, EmptyFile, BookOf
  <2> QED
    BY <2>2, <2>3 DEF Bank!Init
<1>2. BankInv /\ BankInv' /\ [Next]_vars => [Bank!Next]_(Bank!bankVars)
  BY StepBank
<1> QED
  BY <1>1, <1>2, BankInvAlways, PTL DEF Spec, ImplementsBank, Bank!Spec

=============================================================================

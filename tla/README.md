# Verification of the SGX bank

TLA+ models of a small bank: a client program on TCP, a server process (the
App) and an SGX enclave that keeps the accounts and seals them into a file.
The modules are translated from the source; TLC checks them on small
instances, TLAPS proves the theorems listed below for all values of the
constants. Paths below are relative to `src/`.

## 1. The system

| Part | Source | State | Operations |
| --- | --- | --- | --- |
| Account | `Enclave/Account.cpp` | name, password, `deposits` (uint64_t) | `NewAccount`, `Deposit`, `Withdraw` |
| Sealing, account file | `Enclave/sealing.cpp`, ocalls in `App/App.cpp` 184-242 | the file `account` | seal, unseal, overwrite, size, read |
| DealManager, ecalls | `Enclave/DealManager.cpp`, `Enclave/Enclave.cpp` | `account_list`, `current_account`, enclave heap | `ecallInitManager`, `ecallNewAccount`, `ecallMyDeposit`, `ecallMyWithdraw`, `ecallMyInquiry` |
| App main loop | `App/App.cpp` 245-390 | one accepted socket, `result`, the request being split | start, listen, accept, receive, split, ecall, reply |
| Client | `Seccap_client/client.cpp` | `send_info`, `receive_data`, `login`, `pre_amount`, `deposit_print` | the four menu choices, unknown choices, send, receive |
| Launch token | `App/App.cpp` 111-171 | token file in `$HOME`; `token`, `fp` while a server starts | open, read and clear, create the enclave, reopen, write, close |
| Threads (SDK sample) | `App/TrustedLibrary/Thread.cpp`, `Enclave/TrustedLibrary/Thread.cpp` | counter and its mutex, bounded buffer with mutex and two condition variables | four adders, a producer, four consumers, joined |
| Edge routines, libc (SDK sample) | `*/Edger8rSyntax`, `*/TrustedLibrary` | the calls under way and the data they pass | ecalls and ocalls with every EDL attribute, nested; library calls |

How they interact. The client sends a 1024-byte buffer and blocks in `recv`.
The App receives it, cuts it at commas, calls the enclave and writes the
reply. An ecall that changes `account_list` stores the whole list before it
returns: it marshals it, seals it and hands it to an ocall that overwrites the
head of the file. A server that starts reads the file back with two ocalls,
one for its size and one for its content. Before that it creates its enclave,
with the launch token an earlier start has saved in the user's home directory.
Several servers may run (the program takes an instance number) and all use the
same two files.

The two SDK samples are source the repository keeps and does not use: the
Makefile builds none of their files (lines 87 and 122), `Enclave/Enclave.edl`
imports none of their `.edl` files, and `main` calls none of the functions
`App/App.h` declares. They take no part in the bank and have no caller; what is
modelled is each of their functions by itself, called once.

What is hard:

- a crash of the process, or the loss of the enclave, between the change in
  memory, the store and the reply;
- a write that stops half way, and a flush that fails, with nothing or a part
  written, after the stream was tested and while the server goes on;
- several servers that store their lists over each other;
- an enclave heap that every store shrinks, until `calloc` returns NULL;
- values read although the call that should have written them failed, and
  buffers that still hold an earlier message;
- a start that dies while it saves the launch token, or fails at any of its calls;
- requests and replies that carry no number;
- a TCP stream read as if one `recv` were one message;
- a refused login, and a refused withdrawal, that the caller infers;
- a port that is not free yet after a crash, and errors that are only printed;
- in the thread sample, condition variables that are signalled once per item;
- in the edge routines, ecalls inside ocalls inside ecalls.

What makes each part correct: balances never wrap; what was reported is on
disk; a damaged file is not taken for an empty bank, and nobody who was on disk
is forgotten; a name is one account;
the enclave behaves like a book of accounts with atomic calls; replies answer
the request they follow; the client's total and login are the enclave's; a
request is read as it was typed and a number as it was sent; the SDK is handed
no torn token; no increment and no wake-up is lost; what a bridge copies is what
both of its sides assert.

## 2. Modules

| Module | Models | Extends |
| --- | --- | --- |
| `Account` | balance arithmetic modulo `UINT64_MAX + 1`, result codes | |
| `Sealing` | sizes, the uint16_t truncation, images, overwriting without truncating, when an image unseals | `Account` |
| `DealManager` | enclaves of several servers and the file they share | `Sealing` |
| `BankService` | the abstract promise: a book, a pending request, an answer | |
| `DealManagerProperties` | properties; the refinement mapping to `BankService` | `DealManager` |
| `LaunchToken`, `LaunchTokenProperties` | the start of each `DealManager` server with the token file | `DealManager`, its properties |
| `NetBank`, `NetBankProperties` | clients, connections and the App's main loop around one `DealManager` server | `DealManager` |
| `WireBuffer`, `WireBufferProperties` | the bytes of requests and replies: commas left in `send_info`, reads that are cut, the App's split, the numbers the client reads | |
| `ThreadFunctions`, `ThreadFunctionsProperties` | the threads of the SDK sample | |
| `EdgeRoutines` | the edge routines of the SDK sample | |
| `SampleFunctions`, `SampleProperties` | a call of one function of either | `ThreadFunctions`, `EdgeRoutines` |
| `*Proofs` | the theorems | the properties |
| `MC*` | instances for TLC: symmetry, words | the properties |

### DealManager

Each server has a `proc`: `down`, `load` (between the two ocalls of
`AccountListSetting`), `idle`, `store` (an ecall has changed the list and is
in `AccountListStoreStorage`) and `orphan` (the process runs, its enclave has
crashed or was lost). `current_account` is an index into `account_list`, 0
for NULL. One action per ecall: `InitManagerSize` and `InitManagerLoad`
(`ecallInitManager`), `LoginExisting` and `OpenAccount` (`ecallNewAccount`),
`NeedLogout`, `EcallMyDeposit`, `EcallMyWithdraw`, `EcallMyInquiry`. The end
of a store is `AccountListStoreStorage`, or `MarshalOutOfMemory`,
`SealOutOfMemory` when the heap does not suffice: nothing a store allocates is
freed. `EnclaveLost` and `ProcessEnds` may come at any point; with
`TornWrites` the latter leaves half a write. With `FlushFails` a store may write
nothing, or a part of its image, and still be reported as a success: a small
image is written in `ofs.close()` only, after `ofs.fail()` was tested (App.cpp
193-200). The server goes on, and its next store writes over the damage.

Data is abstracted to sizes: an account marshals to `AccountSize` bytes, as if
all names and passwords had one length, and a sealed image is `SealHeader`
longer than its text. Encryption is "the image unseals or not".
`AccountListSetting` has no `return` although its type asks for one; in the
debug build of the Makefile this does nothing, and the model has none. The
heap used before the first store is not counted.

### LaunchToken

`boot[s]` is where `initialize_enclave` is: `read`, `create`, `save`, `write`
are the states before `fread`, `sgx_create_enclave`, `freopen` and `fwrite`;
`token`, `fp` (the mode of the open stream) and `token_file` are its data. Every
call may fail, and the process may be killed between any two. A token is its
two halves, so that a read or a write can stop in the middle; what is handed to
the SDK is what `read_num` has let through. `BankRuns` is any step of
`DealManager`, whose servers may leave `down` only when `boot` is `done`. That
an existing file cannot be opened for reading is one of the failures: the code
then opens it for writing, which empties it.

### NetBank

`app` is where `main` is: `down`, `boot`, `accept`, `recv`, `call`, and two
states it reaches through errors it only prints: `deaf`, when `socket`, `bind`
or `listen` has failed and nobody can connect, and `spin`, when `accept` has
failed and `recv` fails for ever. `client[c]`
holds the local variables of a client; `conn[c]` is its end of the connection,
`inbox` and `outbox` what is on the way. A value the code reads without having
written it (`deposits` after a failed ecall, `receive_data` before the first
reply) is any member of `Noise`; `result` keeps what it had. `Atoi` keeps the
low `IntMod` values, sign-extended. `granted`, `typed`, `settled`, `fresh` and
`shown` are history variables for the properties. Here requests arrive whole,
with at most three commas in their buffer, and replies have room: `WireBuffer`
takes up what happens when they do not. No client sends `"end"` on purpose; if the
bytes of a fresh stack spell it, the server ends, which `AppDies` covers.

### WireBuffer

A word is its length and the offsets of the commas in it; a text is the commas
its format puts after each word. `Formatted` keeps the old commas after the
NUL, as `sprintf` does, and `Split` cuts at every comma (`Comma` is the k-th) of what
was received, as the App does. A fresh `send_info` holds any of `StackCommas`.

`wire` is the stream between a `send` of the client and a `recv` of the App: how
many bytes, and where their commas are. A `recv` returns all of a request or
one of `ReadSizes`, and what is left comes with the next one. At the beginning
of a request (`AtRequest`) the App finds a command; elsewhere the bytes name none
and are ignored, as `NetBank`'s Garbage is. A command with fewer fields than it
reads is handed NULL and crashes App or enclave (`AppFaults`). The client blocks
until it has a reply.

A reply is its first bytes: text, digits, NUL. `Received` lays it over what
`receive_data` held, and `ReplyNumber` is how many digits `atoi` finds then. The
values of the digits are `NetBank`'s. After a write past `data[2]` or past the
end of `send_data` the model stops: nothing is known of the process then.

### ThreadFunctions

`main` is `ecall_thread_functions`: `idle` when it is not under way, `adding`,
then the assertion, `buffering`, and `idle` again. It may be called `MaxCalls`
times, once in the run; the proofs do not depend on the number. `pc` is each
thread's next step. `++global_counter` is a load and a
store, the comparison with the total a third step, as in the code; for the
buffer the test under `while` is a step and the change another, and only the
mutex keeps what was tested true until then. A condition
variable is the set of its waiters: a signal wakes one of them, which locks
the mutex and tests again. The ecalls are taken to succeed: five threads at
most are in the enclave at once and `TCSNum` is 10.

### EdgeRoutines

`stack` holds a frame for each call that has not returned: the function, the
call it makes next (`Script`), the bridge's copy of its parameter and the
variable it passes on. `Edl` says, per routine, what the `.edl` files copy;
`Permitted` which ecalls are public or allowed inside an ocall. `Enters` and
`Returns` are the two halves of a bridge, `Works` the body of a routine that
calls nothing: its assertions (`Asserts`) and what it writes (`Leaves`).
`Resumes` compares what the caller finds with what it asserts. Data is as coarse
as the assertions: an int, an array by its indices, a text by the whole of it.
`status` becomes `done` when the App's function has returned, `failed` when an assertion fails, `lost` when a power
transition makes the ecalls under way fail and their callers abort.

`SampleFunctions` is a call of any one of these functions or of
`ecall_thread_functions`, and nothing after it: no code of the repository calls
them, so there is no order of calls to translate.

## 3. Runs

| Run | Instance | Checks |
| --- | --- | --- |
| `one_server` | 1 server, 2 names, 2 passwords, balances 0-3, heap for a few stores, crashes anywhere | `TypeOK`, `Durable`, `AccountsSurvive`, `ImplementsBank` |
| `faults` | the same with torn writes and failing flushes, and with the starts and 2 launch tokens | `StoredIsEarlier`, `NothingForgotten`, `TokenTypeOK`, `HandedIsWhole`, `NothingLeftOpen` |
| `two_servers` | 2 servers on one file, all faults, servers symmetric | `UniqueNames` |
| `session` | 1 client, all menu choices, 2 names, 2 passwords, balances 0-5 of which `atoi` keeps 3 values, images for one account, server restarts | `NetTypeOK`, `ShownIsBalance`, `LoginIsSession`, `BalanceMeansTaken`, `RepliedIsStored`, `StoredIsEarlier`, `TooBigShowsBalance` |
| `two_clients` | 2 clients that log in, resend and quit, under fairness | `LockStep`, `ReplyIsDue`, `NobodyHangs` |
| `wire` | names of 3-5 characters with and without a comma, passwords of 1-6, amounts of 1, 2 and 12 digits, balances of 1, 7 and 8, reads of 8, 12, 600 or all bytes, leftovers on the stack | `FieldsAreTyped`, `WhatOverruns`, `NumberIsWhole` |
| `threads` | 4 adders, 4 consumers, 2 rounds each, a buffer of 3, under fairness; or one edge routine | `ThreadsTypeOK`, `CounterIsTotal`, `RingHolds`, `NoLostWakeup`, `NobodyIsStuck`, `BufferDrains`, `ChecksPass`, `EveryThreadJoins` |
| `too_big_taken` | 1 client | finds `TooBigMeansRefused` violated |
| `refused_login` | as `one_server` | finds `RefusedLoginStays` violated |
| `unknown_choice` | 1 client | finds `OnlyMenuMovesMoney` violated |
| `lost_accounts` | 2 servers, no faults | finds `AccountsSurvive` violated |
| `stale_commas` | name of 5, password of 6 characters | finds `FieldsFit` violated |

Why the bounds suffice. Balances 0-3 with amounts up to 3 reach overflow,
refusal and the exact maximum within two deposits. Two names give a search
that hits, misses and has an account in front; two passwords give a wrong one.
The heap lets a few stores succeed and then fails in the first and in the
second allocation, in the middle of an ecall. In `session`, `IntMod` is 3 and
`UINT64_MAX` 5, where the code has 2^32 and 2^64 - 1: of the amounts typed, 3
becomes 0 and 5 becomes -1, which wraps round to 5, and balances from 2 on are
shown as other numbers. With a `SealModulus` of 7 an image holds one account,
and a list of two is reported as stored and is not. In the other runs of
`NetBank`, `IntMod` is `UINT64_MAX + 1` and `Atoi` changes nothing, and every
list fits its image. Two servers are enough for one to be stale; two clients for
one to be queued, since the App accepts once. Two launch tokens are enough for the
first half of one before the second of another. The `wire` lengths let later
requests end before, at and after the commas of earlier ones; reads of 8 and 12
bytes cut inside the words of a request, 600 behind all of them, and repeated
ones at other places; balances of 7 and 8 digits are the last that fits
`send_data` and the first that does not. In `threads` the 8 items of 2 rounds
go round a buffer of 3 more than twice, so that it fills, empties and wraps;
4 consumers can all wait at once.

`wire`, `stale_commas` and `threads` do not check for deadlock: a process that
has gone wrong, and a program whose one call has returned, do stop. `EveryThreadJoins` shows
that the threads stop only there. All other runs check for deadlock.

Fairness. `two_clients` (`FairNetSpec`) assumes that the server's process and a
client whose `recv` can return are scheduled (weak fairness of `ServerRuns` and
`ClientReceives`): both are processes that never block on anything else. No
user has to type, nobody has to start a server, no fault has to happen. A
client that is queued behind another, or behind an `accept` that has failed,
waits for ever while the server runs, and so does one whose first message is a
buffer it never filled (the App ignores it): `NobodyHangs` says exactly so. `threads` (`FairSpec`) assumes weak fairness of each thread:
a runnable thread runs. No fairness of a mutex is needed, because the others
end.

## 4. Disagreements between the code and what it says

Each of the first five has a run.

1. `App/App.cpp` 359 compares the amount with the balance left after the
   withdrawal, so a granted withdrawal of more than half is answered
   "too big." (`too_big_taken`).
2. `Enclave/Enclave.cpp` 43 moves `current_account` before the password is
   compared (`refused_login`).
3. A number that is not on the menu sends the last request again
   (`unknown_choice`).
4. A server stores its list over accounts another server has stored since
   (`lost_accounts`).
5. The split cuts at the commas of earlier, longer requests: after
   `login,alice,secret,` a `deposit,1,` has four (`stale_commas`).

Met while modelling, visible in the modules, without a run of their own:
after "too big." the client prints `pre_amount`, which a login does not set
(client.cpp 85); a deposit without a login is answered with the code
`NEED_LOGOUT`, printed as a total (Enclave.cpp 74, client.cpp 96); after the
server has gone the client prints the previous reply (client.cpp 79); a client
that quits never ends the server (App.cpp 303, 366); the file can grow between
the two ocalls of a starting server, which then unseals a part of it
(DealManager.cpp 81), or with an empty list, when the first account is stored
just then; a list of more than about 65000 bytes is reported as stored and is
not (sealing.cpp 19-34); a failed flush is reported as success (App.cpp 195),
and one that has failed half way has damaged the file, which no start can read
until the same server stores again (the theorems name these as their
assumptions); a
refused login prints a total of 0 before the refusal, since "login fail." begins
with "login" too (client.cpp 80); a server whose `bind` fails, as it does for a
while after a crash, goes on to wait where nobody can connect, and one whose
`accept` fails loops for ever (App.cpp 283-302).

Met in `WireBuffer`: a balance of 8 digits overruns `send_data` (App.cpp 347),
13 bytes and 8 digits after "login" (App.cpp 335); after a short read the rest
of a request is read as a message of its own, and without a comma crashes the
App (App.cpp 301, 326); a comma in a name or password shifts the fields, so that
another account is opened, and with a short read before the last comma even a
request with too many commas is carried out. `FieldsAreTyped` holds for words
without commas, and an amount is never read in part: the comma behind it is
needed for the field to be there at all.

Met in `LaunchToken`: two servers that start at once may mix their tokens in the
file, which is why `HandedIsWhole` is about one server.

## 5. Theorems

For any number of servers, clients and threads, unless the last column
says otherwise.

| Theorem | Module | States | Assumes |
| --- | --- | --- | --- |
| `TypeCorrect` | `DealManagerProofs` | `Spec => []TypeOK` | |
| `NamesStayUnique` | `DealManagerProofs` | `Spec => []UniqueNames` | |
| `ReportedIsStored` | `DealManagerProofs` | `Spec => []Durable` | `OneServer`, `ListsFit`, `~FlushFails` |
| `NothingIsForgotten` | `DealManagerProofs` | `Spec => NothingForgotten` | `OneServer`, `ListsFit` |
| `OlderListIsStored` | `DealManagerProofs` | `Spec => []StoredIsEarlier` | `OneServer` |
| `OneServerLosesNoAccount` | `DealManagerProofs` | `Spec => AccountsSurvive` | `OneServer`, `ListsFit`, `~TornWrites`, `~FlushFails` |
| `FewNamesFit` | `DealManagerProofs` | `ListsFit` | few enough names |
| `EnclaveImplementsBank` | `BankServiceProofs` | `Spec => ImplementsBank` | `OneServer`, `ListsFit`, `~FlushFails`, `~TornWrites` |
| `NetImplementsDealManager` | `NetBankProofs` | `NetSpec => Spec` | `AtoiClosed` |
| `NetNamesStayUnique` | `NetBankProofs` | `NetSpec => []UniqueNames` | `AtoiClosed` |
| `RepliesAreStored` | `NetBankProofs` | `NetSpec => []RepliedIsStored` | as `ReportedIsStored`, `AtoiClosed` |
| `NetImplementsBank` | `NetBankProofs` | `NetSpec => ImplementsBank` | as `EnclaveImplementsBank`, `AtoiClosed` |
| `NetTypeCorrect` | `NetBankProofs` | `NetSpec => []NetTypeOK` | `AtoiClosed` |
| `RepliesKeepStep` | `NetBankProofs` | `NetSpec => []LockStep` | `AtoiClosed` |
| `NoRequestIsLost` | `NetBankProofs` | `NetSpec => []ReplyIsDue` | `AtoiClosed` |
| `ScreenShowsBalance` | `NetBankProofs` | `NetSpec => []ShownIsBalance` | `AtoiClosed` |
| `RefusalShowsBalance` | `NetBankProofs` | `NetSpec => []TooBigShowsBalance` | `AtoiClosed` |
| `LoginsAreSessions` | `NetBankProofs` | `NetSpec => []LoginIsSession` | `AtoiClosed` |
| `ToldMeansTaken` | `NetBankProofs` | `NetSpec => []BalanceMeansTaken` | `AtoiClosed` |
| `StartImplementsServer` | `LaunchTokenProofs` | `StartSpec => Spec` | |
| `StartKeepsNames` | `LaunchTokenProofs` | `StartSpec => []UniqueNames` | |
| `StartKeepsFile` | `LaunchTokenProofs` | `StartSpec => []StoredIsEarlier /\ NothingForgotten` | `OneServer`, `ListsFit` |
| `StartImplementsBank` | `LaunchTokenProofs` | `StartSpec => ImplementsBank` | as `EnclaveImplementsBank` |
| `StartTypeCorrect` | `LaunchTokenProofs` | `StartSpec => []TokenTypeOK` | |
| `StartClosesFile` | `LaunchTokenProofs` | `StartSpec => []NothingLeftOpen` | |
| `StartHandsWholeTokens` | `LaunchTokenProofs` | `StartSpec => []HandedIsWhole` | `OneServer` |
| `OnlyShorterOverruns` | `WireBufferProofs` | `Spec => []WhatOverruns` | |
| `CommandsAreTyped` | `WireBufferProofs` | `Spec => []FieldsAreTyped` | |
| `NumberArrives` | `WireBufferProofs` | `Spec => []NumberIsWhole` | |
| `CounterIsExact` | `ThreadFunctionsProofs` | `Spec => []CounterIsTotal` | |
| `ThreadsTypeCorrect` | `ThreadFunctionsProofs` | `Spec => []ThreadsTypeOK` | |
| `NoWakeupIsLost` | `ThreadFunctionsProofs` | `Spec => []NoLostWakeup` | |
| `SampleCountsExactly` | `ThreadFunctionsProofs` | `SampleSpec => [](ThreadsTypeOK /\ CounterIsTotal)` | |
| `SampleLosesNoWakeup` | `ThreadFunctionsProofs` | `SampleSpec => []NoLostWakeup` | |
| `BufferIsARing` | `BufferProofs` | `Spec => []RingHolds` | |
| `CallsLeaveNothing` | `BufferProofs` | `Spec => []BufferDrains` | |
| `ThreadsNeverStick` | `BufferProofs` | `Spec => []NobodyIsStuck` | |
| `SampleNeverSticks` | `BufferProofs` | `SampleSpec => [](NobodyIsStuck /\ BufferDrains /\ RingHolds)` | |
| `AssertionsHold` | `EdgeRoutinesProofs` | `SampleSpec => []ChecksPass` | |

Assumptions. `OneServer`: no second server stores into the same file, without
which `lost_accounts` shows an account lost. `ListsFit`: no list marshals to
more than the uint16_t of `sealing.cpp` can say; `FewNamesFit` derives it from a
bound on the names. `~FlushFails`, `~TornWrites`: the flushes in `close()`
succeed, and a crash leaves a write whole or undone; each theorem has only
those it needs, and the runs `faults` and `two_servers` do without. `AtoiClosed`:
what `atoi` makes of an amount is an amount, as it is in the set of all of them.
The theorems on `ImplementsBank` and on `NetBank` also need that there is a
server. The modules assume that `None` is none of the values it stands beside
(`RequestAssumption`, `NoneAssumption`), that words are shorter than the
client's arrays (`WireBufferAssumption`) and that adders, consumers and the
producer are different threads (`ThreadFunctionsAssumption`). TLC evaluates all
of these on the runs.

### The enclave and its file

- `TypeInv` adds to `TypeOK` that an enclave that is loading has no account
  selected; without it a load could leave `current_account` beyond the
  new list. `UniqueNames` is inductive with it: an account is opened only after
  the search has missed, and a load and a store copy a list whole or cut off.
- `DiskInv` carries durability. It says that a size read while starting is
  still the size of the file (one server) and, when flushes succeed, `Durable`:
  a torn write ends the process, and a start that meets it ends the enclave, so
  nobody works beside a damaged file. That a stored image unseals needs that the marshalled
  size fits into `SealModulus`; that is `ListsFit`, which follows from unique
  names by the pigeonhole principle (`FewNamesFit`).
- `EarlierInv` says that the list in the file begins the list in memory: the
  same owners in front, each with the balance of some earlier time. An ecall
  appends one account or changes one balance, and a store writes the list in
  memory, so that it needs no list to fit: a size that wraps round leaves a
  damaged file, and its list is still an earlier one. With lists that fit,
  whole writes and flushes that succeed, what is stored is the list in memory,
  which that file begins, so no owner leaves it.
- `NothingIsForgotten` is about the time from which on an owner is on disk. A
  server then at work has the owner in memory, by `EarlierInv`. `Known` is
  what stays true from then on: the file is not empty, the owner is in the memory
  of every server at work, and in the file if it is one that unseals. A flush
  that fails half way leaves a file that does not, which only stops the starts
  until it has been written again, from a memory that has the owner.
- `EnclaveImplementsBank`. The book of the abstract bank is read off the file,
  so it changes when a store ends, or is lost when the process does. `OneBehind` says how
  far memory is ahead of the file: not at all between ecalls, and during a
  store by exactly the call that is under way. With `UniqueNames` a list is a
  function of names (`BookLookup`), and what the store does to the list is what
  `BankService` does to the book. A call whose store has failed, or whose
  enclave was lost, is one `BankService` abandons.

### Clients and App

- `NetImplementsDealManager` goes through the actions of `NetNext`: each is an
  action of `DealManager` or leaves its variables alone. What is proved of
  `DealManager` then holds in the service, and `StartImplementsServer` does the
  same for a server with a launch token.
- `NetInv` is inductive in three layers. `MainInv` says where `main` is and
  what the ecall under way has done. `LinesInv` is about one client and what is on
  the way to it: a request waits, is handled, or is answered, one of the three,
  and what is on the screen is what was received. `TalksInv` relates the client
  to the enclave's account through the rounds of a request: `Unserved` before
  it is accepted, `Quiet` between two requests, `Handled` while the App is at
  one, `Replied` while the answer is on its way. That the App accepts once is
  what makes it hold for many clients: all but one of them are `Unserved`. Each
  of the five invariants follows from `NetInv`.
- `ReplyIsDue` is inductive with `NetInv` (`DuesInv`): a step that takes a
  request, or the call it led to, from one place of its way puts it into the
  next, and a server that dies on the way resets the connection. That `main` is
  at work for the accepted client only, whose request it has read, is `LinesInv`.
- `RepliesAreStored` joins the two sides: `NetInv` says that a balance on its
  way is the one in the enclave's memory, and `Durable`, through
  `NetImplementsDealManager`, that memory and file agree between ecalls.
- The first form of `ShownIsBalance` was refuted by this proof, not by a run:
  after an unknown choice, which sends the last request again,
  the client prints a balance only if `deposit_print` is still set, so a balance
  may arrive and not be shown. The property now says so.

### Launch token

- `StreamInv` is `NothingLeftOpen` with the types of
  `boot` and `fp`: a step of a start moves one server that is not running, and a
  step of the bank begins only with a server that is done with its start.
- `TokenInv` says of one server that the token file is empty while it is being
  written, that what is being saved is whole, and so that the file holds a token
  cut off somewhere. What is read of it is whole, or `ReadsToken` clears it.
- `SavingInv`, for any number of servers, says that an open stream has a file
  and that what is being saved is a token the SDK has issued; `TokenTypeOK`
  alone would let a write put zeroes into the file.

### Buffers on the wire

- `BufferInv` is `TextInv` and `WireInv`. `TextInv` says
  that no comma lies beyond `longest`, the end of everything ever written, and
  that the commas up to the end of the last text are its own. A text with no
  comma in its words has at most three, so a fourth one lies behind its end, and
  the text is shorter than what was there. `WireInv` says that the last 1024 bytes on
  the wire, when there are that many, hold the commas of `send_info`, wherever
  earlier reads were cut: a read at the beginning of a request finds its commas,
  and elsewhere the fourth reason of `WhatOverruns` holds.
- `WholeInv` adds the other inclusion for `FieldsAreTyped`: `send_info` still has
  the commas of the last text, and a whole request on the wire has all of them.
  In a text without commas of its own the k-th comma of what the App reads is
  then the end of the k-th word (`Comma`, `CommaFound`), when the read has
  reached it; a command that runs has reached all it uses.
- `NumberIsWhole` is inductive by itself. `DigitsCounted` says that `atoi` stops
  at the first byte that is no digit, whatever earlier replies left behind it.

### Threads

- `CounterInv` says that `global_counter` and the rounds still ahead (`Ahead`, a
  set of pairs of an adder and a round) make `calls` times the total. That a load and a
  store count one round needs mutual exclusion, and that what was loaded is
  still the counter. `Told` says that once the total is reached some adder has
  reported it or will.
- `BufferInv` is mutual exclusion and what it
  protects: who is between lock and unlock holds the mutex, and what was tested
  still holds when the buffer is changed. With it `NoLostWakeup` is inductive.
  Taking an item removes one awake consumer and one item; putting one adds an
  item and the promise of a signal; the signal turns the promise into an awake
  consumer, unless none waits.
- `RingHolds` is inductive with the same `BufferInv`. `BufferProofs` first shows
  which slots `(nextout + k) % BUFFER_SIZE` are, for a size that is not known: the
  sums go round less than twice. Then putting adds the slot at the end, taking
  removes the one at the beginning, and nothing else moves.
- `WorkInv` counts what is left to do: the items in the buffer and those the
  producer has still to put are as many as the rounds in which the consumers
  have still to take one. `HolderInv` says that whoever holds a mutex is on its
  way to free it. If every joined thread were asleep or done, the count would
  leave an item for a waiting consumer or a slot for a waiting producer, which
  `NoLostWakeup` excludes; and when all are done nothing is left in the buffer.
- `SampleSpec` implements the specification of the threads, since the edge
  routines touch none of their variables.

### Edge routines

- What a function calls is a table, so the first half of `EdgeRoutinesProofs`
  goes through the tables once. `EveryCallFits`: a call the App makes is public,
  or is the one whose refusal is asserted; a call made inside is an ocall, or an
  ecall this ocall allows; and a call that runs gives its routine what the
  routine asserts and leaves what the caller asserts, given what the `.edl`
  files copy.
- `StackInv` lifts that to calls under way. Only the first frame is the App's;
  `Linked` relates each frame to the one above it, which runs the call the lower
  one is making and still holds what it was given, or already holds what
  it is to leave. A call returns to the one frame whose link says what
  it asserts. `ChecksPass` alone says nothing of the values a later step compares.

### Only checked by TLC

Liveness, which the prover does not reach: `NobodyHangs` and
`EveryThreadJoins`. Their safety halves are theorems: a request that waits is
never lost (`ReplyIsDue`), and some thread can always take a step
(`NobodyIsStuck`).

## 6. Not modelled

Any program that uses the SDK samples: there is none (section 1), so nothing is
said of several calls, or of calls from several threads.

Console output and the table of SDK error texts, which no state depends on; what
libc and libc++ do inside `Libc.cpp` and `Libcxx.cpp`, whose calls are modelled
and whose bodies keep nothing; the checksum of `Pointers.cpp`, which is only
printed, and the tolerance of `almost_equal`; build files, from which the facts
used above were read. The sealing and the marshalling are sizes, not bytes: the
scan back of a list (DealManager.cpp 86-118) is taken to find the accounts that
were written, since a request's fields cannot hold the commas it looks for.
Overflows of the 100-byte name and password buffers are bounded away by `Words`,
and a word of `WireBuffer` does not spell a command where a cut read begins.
What a process does after it has written past an array is not modelled.

## 7. Plan

All of it is done.

1. `Account`, `Sealing`, `DealManager`: crash safety, `BankService`; runs
   `one_server`, `faults`, `two_servers`, `lost_accounts`, `refused_login`;
   type correctness, unique names, durability and the refinement proved.
2. `NetBank`, composing clients, App and `DealManager`: runs `session`,
   `two_clients`, `too_big_taken`, `unknown_choice`; implementation and all
   invariants proved.
3. `WireBuffer`, with short reads and replies: runs `wire`, `stale_commas`;
   all invariants proved.
4. `ThreadFunctions`: run `threads`; all invariants proved.
5. `LaunchToken`, composed with `DealManager`: run `faults`; implementation
   and all invariants proved.
6. `EdgeRoutines`, beside `ThreadFunctions`: run `threads`; every
   assertion proved.
7. Every invariant and action property of the passing runs as a theorem, and
   the refinement `ImplementsBank`; done in the modules `*Proofs`.

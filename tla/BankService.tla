---------------------------- MODULE BankService ----------------------------
(***************************************************************************)
(* What the enclave promises the App, with one server and a disk that      *)
(* keeps its word: a book of accounts, and calls that change it.           *)
(*                                                                         *)
(* A call that changes the book is asked for, then granted: the book takes *)
(* its whole effect at once, and the answer is what the book then says.    *)
(* Instead of being granted it may be abandoned, with no effect and no     *)
(* answer.  Nothing else changes the book: no login, no refusal, no crash, *)
(* restart or loss of the enclave.                                         *)
(*                                                                         *)
(* Balances are integers here; that they never wrap is part of the promise.*)
(***************************************************************************)
EXTENDS Integers

CONSTANTS
  Names, Passwords, Amounts,
  MaxBalance,   \* the largest balance an account may have
  Success,      \* answers that are not balances
  NoAccount,
  WrongPassword,
  NoRequest,
  NoAnswer

VARIABLES
  book,     \* name |-> [password, deposits], for the names that have opened
  request,  \* the call that was asked for, or NoRequest
  answer    \* the last answer, or NoAnswer

bankVars == <<book, request, answer>>

Requests ==
       [op : {"open"}, name : Names, password : Passwords]
  \cup [op : {"deposit", "withdraw"}, name : Names, amount : Amounts]

\* The book once r has been granted.
Granted(r) ==
  CASE r.op = "open" ->
         [name \in DOMAIN book \cup {r.name} |->
            IF name = r.name THEN [password |-> r.password, deposits |-> 0]
            ELSE book[name]]
    [] r.op = "deposit" ->
         IF book[r.name].deposits + r.amount <= MaxBalance
         THEN [book EXCEPT ![r.name].deposits = @ + r.amount] ELSE book
    [] r.op = "withdraw" ->
         IF r.amount <= book[r.name].deposits
         THEN [book EXCEPT ![r.name].deposits = @ - r.amount] ELSE book

Init ==
  /\ book = <<>>
  /\ request = NoRequest
  /\ answer = NoAnswer

\* An account opens once; money moves only on accounts that have opened.
Ask ==
  /\ request = NoRequest
  /\ request' \in Requests
  /\ (request'.op = "open") <=> (request'.name \notin DOMAIN book)
  /\ answer' = NoAnswer
  /\ UNCHANGED book

Grant ==
  /\ request # NoRequest
  /\ request' = NoRequest
  /\ book' = Granted(request)
  /\ answer' = IF request.op = "open"
               THEN Success ELSE book'[request.name].deposits

Abandon ==
  /\ request' = NoRequest
  /\ answer' = NoAnswer
  /\ UNCHANGED book

\* A login, a call without a login, an inquiry.
Report ==
  /\ request = NoRequest
  /\ \/ \E name \in DOMAIN book, password \in Passwords :
          answer' = IF password = book[name].password
                    THEN Success ELSE WrongPassword
     \/ answer' = NoAccount
     \/ \E name \in DOMAIN book : answer' = book[name].deposits
  /\ UNCHANGED <<book, request>>

Next == Ask \/ Grant \/ Abandon \/ Report

Spec == Init /\ [][Next]_bankVars

=============================================================================

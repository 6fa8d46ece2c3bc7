------------------------- MODULE NetBankProperties -------------------------
(***************************************************************************)
(* What must hold between a client's screen and the enclave behind it.     *)
(***************************************************************************)
EXTENDS NetBank

NetTypeOK ==
  /\ app \in AppPhases
  /\ result \in {PROCESS_SUCCESS, ACCOUNT_SET_FAIL}
  /\ request \in Messages \cup {None}
  /\ accepted \in Clients \cup {None}
  /\ backlog \in Seq(Clients)
  /\ conn \in [Clients -> ConnStates]
  /\ inbox \in [Clients -> Messages \cup {Garbage, None}]
  /\ outbox \in [Clients -> Replies \cup {None}]
  /\ client \in [Clients -> Client]
  /\ granted \in BOOLEAN

\* The client has its answer and the enclave that gave it is still there.
Answered(c) ==
  /\ client[c].at = "menu" /\ client[c].fresh
  /\ accepted = c /\ conn[c] = "open" /\ proc[server] = "idle"

AnsweredWith(c, kind) == Answered(c) /\ client[c].receive_data.kind = kind

Balance == Current(server).deposits

(***************************************************************************)
(* Request and reply keep step: a client at its menu has nothing on the    *)
(* way, a waiting one has its request or the reply to it under way at most *)
(* once.  So no reply is ever taken for the answer to another request.     *)
(***************************************************************************)
OnTheWay(c) ==
    (IF inbox[c] # None THEN 1 ELSE 0)
  + (IF app = "call" /\ accepted = c /\ conn[c] = "open" THEN 1 ELSE 0)
  + (IF outbox[c] # None THEN 1 ELSE 0)

LockStep ==
  \A c \in Clients :
    client[c].at # "gone" =>
      OnTheWay(c) <= (IF client[c].at = "wait" THEN 1 ELSE 0)

(***************************************************************************)
(* And what a client waits for is never lost: as long as its connection    *)
(* stands, its request waits to be read, is being handled, or has been     *)
(* answered, whatever fails in the enclave (App/App.cpp:298-372).  Only a  *)
(* buffer it never filled gets no answer.                                  *)
(***************************************************************************)
ReplyIsDue ==
  \A c \in Clients :
    /\ client[c].at = "wait" /\ conn[c] = "open"
    /\ client[c].send_info # Garbage
    => OnTheWay(c) > 0

(***************************************************************************)
(* The total a client prints after a login or after it has moved money is  *)
(* the balance of its account, for balances an int can hold: it is neither *)
(* stale nor another request's.  (A request sent again by an unknown menu  *)
(* number moves money too, but nothing is printed then.)                   *)
(***************************************************************************)
ShownIsBalance ==
  \A c \in Clients :
    /\ \/ AnsweredWith(c, "login")
       \/ AnsweredWith(c, "balance") /\ client[c].deposit_print
    /\ AccountLogin(server)
    /\ 2 * Balance < IntMod
    => client[c].shown = Balance

(***************************************************************************)
(* The total printed with "too big." is pre_amount (client.cpp:85), and is *)
(* the balance when the withdrawal was refused and the client has moved    *)
(* money, and been told the new total, since it logged in last.            *)
(***************************************************************************)
TooBigShowsBalance ==
  \A c \in Clients :
    /\ AnsweredWith(c, "toobig") /\ client[c].settled
    /\ AccountLogin(server)
    /\ 2 * Balance < IntMod
    => client[c].shown = Balance

(***************************************************************************)
(* A client that believes it is logged in is: the enclave's account is the *)
(* one it named last, and the password it typed is that account's.         *)
(***************************************************************************)
LoginIsSession ==
  \A c \in Clients :
    Answered(c) /\ client[c].login =>
      /\ AccountLogin(server)
      /\ Current(server).name = client[c].typed.name
      /\ Current(server).password = client[c].typed.password

(***************************************************************************)
(* A withdrawal answered with a balance was taken from it (atoi may make   *)
(* the amount 0): the App, which never sees whether the enclave refused,   *)
(* tells a refused one from a granted one by comparing numbers.            *)
(***************************************************************************)
BalanceMeansTaken ==
  \A c \in Clients :
    /\ AnsweredWith(c, "balance") /\ AccountLogin(server)
    /\ client[c].send_info.op = "withdraw"
    /\ Atoi(client[c].send_info.amount) # 0
    => granted

(***************************************************************************)
(* A balance on its way to the client is the one on disk, while its list   *)
(* fits the image: should the server die now, the next one reads what the  *)
(* client is about to be told (App.cpp:332-369, Enclave.cpp:38-91).        *)
(***************************************************************************)
RepliedIsStored ==
  \A c \in Clients :
    /\ accepted = c /\ conn[c] = "open" /\ outbox[c] # None
    /\ outbox[c].kind \in {"login", "balance"}
    /\ proc[server] = "idle" /\ AccountLogin(server)
    /\ SealHeader + MarshalSize(account_list[server]) < SealModulus
    => /\ Unseals(file, file.size)
       /\ current_account[server] \in DOMAIN file.plain
       /\ outbox[c].value = file.plain[current_account[server]].deposits

(***************************************************************************)
(* A client that waits comes back to its menu or ends, whatever happens to *)
(* the enclave and to the server, when the server has accepted it or is    *)
(* gone, and unless it sent a buffer it had never filled: FairNetSpec.     *)
(***************************************************************************)
NobodyHangs ==
  \A c \in Clients :
    (/\ client[c].at = "wait" /\ client[c].send_info # Garbage
     /\ accepted = c \/ conn[c] # "open")
      ~> client[c].at # "wait"

-----------------------------------------------------------------------------
(* What the program says of itself and does not do *)

(***************************************************************************)
(* client.cpp:84: "the amount exceeds the balance, try again".  So after   *)
(* that message nothing has been withdrawn.                                *)
(***************************************************************************)
TooBigMeansRefused ==
  \A c \in Clients : AnsweredWith(c, "toobig") => ~granted

(***************************************************************************)
(* client.cpp:45 offers deposit and withdrawal as operations 2 and 3: no   *)
(* other choice moves money.                                               *)
(***************************************************************************)
OnlyMenuMovesMoney ==
  \A c \in Clients : Answered(c) /\ granted /\ client[c].send_info.op # "login"
    => client[c].deposit_print

=============================================================================

------------------------------- MODULE NetBank -------------------------------
(***************************************************************************)
(* The whole service: client processes (Seccap_client/client.cpp), the     *)
(* App's main loop (App/App.cpp) and, behind its ecalls, DealManager.      *)
(*                                                                         *)
(* The App accepts one connection, once, and handles one request at a      *)
(* time: receive, ecall, reply.  A client sends a request and blocks until *)
(* the reply.  The App ignores the status of an ecall and the client the   *)
(* result of recv, so what they read then is whatever the variable held.   *)
(* The server is one of DealManager's Servers.                             *)
(*                                                                         *)
(* A request that reaches the App here has at most three commas in its     *)
(* buffer; WireBuffer says when it has more.  Garbage is a buffer with a   *)
(* comma and none of the three operations in front; without a comma the    *)
(* App dies of a NULL pointer, and with "end" it ends, which AppDies may   *)
(* do at any time.                                                         *)
(***************************************************************************)
EXTENDS DealManager

CONSTANTS
  Clients,   \* client processes; each runs once
  Opcodes,   \* the menu numbers users type; 0 stands for any unknown one
  IntMod,    \* 2^32: atoi returns an int
  Noise      \* what an uninitialised number may hold; any word in the code

ASSUME NetBankAssumption ==
  /\ Noise \subseteq UInt64 /\ Noise # {}
  /\ Opcodes \subseteq 0 .. 4
  /\ IntMod \in Nat \ {0} /\ IntMod <= UINT64_MAX + 1

VARIABLES
  app,       \* where App's main is, see AppPhases
  result,    \* main's variable of that name
  request,   \* the request being handled: data[0..2]
  accepted,  \* the client behind client_sockfd
  backlog,   \* clients connected but not accepted
  conn,      \* the client's end of each connection, see ConnStates
  inbox,     \* each client's request on its way to the App
  outbox,    \* the App's reply on its way to each client
  client,    \* local variables of each client process, see Client
  granted    \* history: did the last ecall change account_list?

netVars == <<app, result, request, accepted, backlog, conn, inbox, outbox, granted>>
allVars == <<vars, netVars, client>>

\* down: no process; boot: until listen; accept, recv: blocked there;
\* call: between recv and the write of the reply; deaf: no socket listens on
\* the port; spin: client_sockfd is -1 and recv fails for ever.
AppPhases == {"down", "boot", "accept", "recv", "call", "deaf", "spin"}

\* none: not connected or left; refused: nobody listened; dead: the server
\* is gone; reset: and the client has run into that once.
ConnStates == {"none", "open", "refused", "dead", "reset"}

server == CHOOSE s \in Servers : TRUE

\* (uint64_t)atoi(...) of a number printed with %ld: the low 32 bits, sign-extended.
Atoi(x) ==
  LET low == x % IntMod
  IN  IF 2 * low < IntMod THEN low ELSE UINT64_MAX + 1 - (IntMod - low)

\* send_info, unless its bytes are still those of a fresh stack.
Messages ==
       [op : {"login"}, name : Names, password : Passwords]
  \cup [op : {"deposit", "withdraw"}, amount : Amounts]

Garbage == [op |-> "garbage"]

\* receive_data
Replies == [kind : {"login", "fail", "balance", "toobig"}, value : UInt64]

Reply(kind, value) == [kind |-> kind, value |-> value]

\* None is not something that can be there.
ASSUME NoneAssumption ==
  /\ None \notin Messages /\ None # Garbage
  /\ None \notin Replies /\ None \notin Clients

-----------------------------------------------------------------------------
(* Client processes *)

(***************************************************************************)
(* at             off, menu (reading std::cin), wait (in recv), gone       *)
(* send_info, receive_data, login, pre_amount, deposit_print as in main    *)
(* shown          the last current total printed for the last request      *)
(* fresh          history: was receive_data received for that request?     *)
(* typed          history: name and password last entered                  *)
(* settled        history: is pre_amount of this login, and no money has   *)
(*                moved since?                                             *)
(***************************************************************************)
Client == [at : {"off", "menu", "wait", "gone"},
           login : BOOLEAN, pre_amount : UInt64, deposit_print : BOOLEAN,
           send_info : Messages \cup {Garbage}, receive_data : Replies,
           shown : UInt64 \cup {None}, fresh : BOOLEAN,
           typed : Messages \cup {None}, settled : BOOLEAN]

\* A new process, or one whose variables are gone; an uninitialised
\* receive_data reads as some number.
NewClient(at, noise) ==
  [at |-> at, login |-> FALSE, pre_amount |-> 0, deposit_print |-> FALSE,
   send_info |-> Garbage, receive_data |-> Reply("balance", noise),
   shown |-> None, fresh |-> FALSE, typed |-> None, settled |-> FALSE]

ClientConnects(c) ==
  /\ client[c].at = "off"
  /\ \E noise \in Noise : client' = [client EXCEPT ![c] = NewClient("menu", noise)]
  /\ IF app \in {"accept", "recv", "call", "spin"}
     THEN /\ conn' = [conn EXCEPT ![c] = "open"]
          /\ backlog' = Append(backlog, c)
     ELSE /\ conn' = [conn EXCEPT ![c] = "refused"]
          /\ UNCHANGED backlog
  /\ UNCHANGED <<vars, app, result, request, accepted, inbox, outbox, granted>>

(***************************************************************************)
(* The client, now as k (its variables after a menu choice), sends         *)
(* send_info.  Once the server is gone the first send may still succeed or *)
(* report an error; a later one kills the process with SIGPIPE.            *)
(***************************************************************************)
Sends(c, k) ==
  /\ \/ /\ conn[c] = "open"
        /\ client' = [client EXCEPT ![c] = [k EXCEPT !.at = "wait"]]
        /\ inbox' = [inbox EXCEPT ![c] = k.send_info]
        /\ UNCHANGED conn
     \/ /\ conn[c] = "dead"
        /\ \E at \in {"wait", "menu"} :
             client' = [client EXCEPT ![c] = [k EXCEPT !.at = at]]
        /\ conn' = [conn EXCEPT ![c] = "reset"]
        /\ UNCHANGED inbox
     \/ /\ conn[c] \in {"refused", "reset"}
        /\ client' = [client EXCEPT ![c] = NewClient("gone", 0)]
        /\ conn' = [conn EXCEPT ![c] = "none"]
        /\ UNCHANGED inbox
  /\ UNCHANGED <<vars, app, result, request, accepted, backlog, outbox,
                 granted>>

\* A round of the loop starts: nothing printed yet, deposit_print is false.
Round(c) == [client[c] EXCEPT !.deposit_print = FALSE, !.shown = None, !.fresh = FALSE]

ClientLogsIn(c) ==
  /\ client[c].at = "menu" /\ 1 \in Opcodes
  /\ \E m \in Messages :
       /\ m.op = "login"
       /\ Sends(c, [Round(c) EXCEPT !.send_info = m, !.typed = m, !.login = TRUE])

ClientMovesMoney(c) ==
  /\ client[c].at = "menu"
  /\ \E m \in Messages :
       /\ (m.op = "deposit" /\ 2 \in Opcodes) \/ (m.op = "withdraw" /\ 3 \in Opcodes)
       /\ Sends(c, [Round(c) EXCEPT !.send_info = m, !.deposit_print = TRUE])

\* Any other number, and every round once std::cin has failed.
ClientResends(c) ==
  /\ client[c].at = "menu" /\ 0 \in Opcodes
  /\ Sends(c, Round(c))

\* The process ends without a word to the server: from the menu, or killed
\* while it waits.
ClientQuits(c) ==
  /\ (client[c].at = "menu" /\ 4 \in Opcodes) \/ client[c].at = "wait"
  /\ client' = [client EXCEPT ![c] = NewClient("gone", 0)]
  /\ conn' = [conn EXCEPT ![c] = "none"]
  /\ outbox' = [outbox EXCEPT ![c] = None]
  /\ UNCHANGED <<vars, app, result, request, accepted, backlog, inbox, granted>>

(***************************************************************************)
(* What the client makes of receive_data.  "login fail." begins with       *)
(* "login" too, and atoi of a text that is not a number is 0.              *)
(***************************************************************************)
Number(data) == IF data.kind = "balance" THEN Atoi(data.value) ELSE 0

\* Variants for the mutants: a refused login leaves login as it is; the old
\* total is printed; pre_amount is not updated.
AfterReplyForgets(k, data) ==
  CASE data.kind = "toobig" ->
         [k EXCEPT !.shown = k.pre_amount]
    [] data.kind = "fail" /\ ~k.deposit_print ->
         [k EXCEPT !.shown = 0]
    [] data.kind # "toobig" /\ k.deposit_print ->
         [k EXCEPT !.shown = Number(data), !.pre_amount = Number(data)]
    [] data.kind = "login" /\ ~k.deposit_print ->
         [k EXCEPT !.shown = Atoi(data.value)]
    [] data.kind = "balance" /\ ~k.deposit_print -> k

AfterReplyLags(k, data) ==
  [AfterReplyForgets(k, data) EXCEPT
     !.login = @ /\ data.kind # "fail", !.shown = k.pre_amount]

AfterReplyOnlyShows(k, data) ==
  CASE data.kind = "toobig" ->
         [k EXCEPT !.shown = k.pre_amount]
    [] data.kind = "fail" /\ ~k.deposit_print ->
         [k EXCEPT !.shown = 0, !.login = FALSE]
    [] data.kind # "toobig" /\ k.deposit_print ->
         [k EXCEPT !.shown = Number(data)]
    [] data.kind = "login" /\ ~k.deposit_print ->
         [k EXCEPT !.shown = Atoi(data.value)]
    [] data.kind = "balance" /\ ~k.deposit_print -> k

AfterReply(k, data) ==
  CASE data.kind = "toobig" ->
         [k EXCEPT !.shown = k.pre_amount]
    [] data.kind = "fail" /\ ~k.deposit_print ->
         [k EXCEPT !.shown = 0, !.login = FALSE]
    [] data.kind # "toobig" /\ k.deposit_print ->
         [k EXCEPT !.shown = Number(data), !.pre_amount = Number(data)]
    [] data.kind = "login" /\ ~k.deposit_print ->
         [k EXCEPT !.shown = Atoi(data.value)]
    [] data.kind = "balance" /\ ~k.deposit_print -> k

\* Whether pre_amount is what a login, or a move of money, has left.
Settles(k, data) ==
  \/ data.kind = "balance" /\ k.deposit_print
  \/ data.kind = "toobig" /\ k.settled /\ ~granted

\* recv; on a dead connection it returns at once and receive_data is stale.
ClientReceives(c) ==
  /\ client[c].at = "wait"
  /\ outbox[c] # None \/ conn[c] \in {"dead", "reset"}
  /\ LET fresh == outbox[c] # None
         data  == IF fresh THEN outbox[c] ELSE client[c].receive_data
         k     == [client[c] EXCEPT !.at = "menu", !.fresh = fresh,
                                    !.receive_data = data,
                                    !.settled = Settles(client[c], data)]
     IN  client' = [client EXCEPT ![c] = AfterReply(k, data)]
  /\ outbox' = [outbox EXCEPT ![c] = None]
  /\ UNCHANGED <<vars, app, result, request, accepted, backlog, conn, inbox, granted>>

-----------------------------------------------------------------------------
(* The App *)

AppStarts ==
  /\ app = "down"
  /\ InitManagerSize(server)
  /\ app' = "boot"
  /\ UNCHANGED <<result, request, accepted, backlog, conn, inbox, outbox,
                 client, granted>>

(***************************************************************************)
(* ecallInitManager has returned, or failed and left result uninitialised. *)
(* A socket, bind or listen that fails, as bind does for a while after     *)
(* another server has had the port, is only reported: main goes on.        *)
(***************************************************************************)
AppListens ==
  /\ app = "boot" /\ proc[server] \in {"idle", "orphan"}
  /\ app' \in {"accept", "deaf"}
  /\ result' \in IF proc[server] = "idle" THEN {PROCESS_SUCCESS}
                 ELSE {PROCESS_SUCCESS, ACCOUNT_SET_FAIL}
  /\ UNCHANGED <<vars, request, accepted, backlog, conn, inbox, outbox,
                 client, granted>>

AppAccepts ==
  /\ app = "accept" /\ backlog # <<>>
  /\ app' = "recv"
  /\ accepted' = Head(backlog)
  /\ backlog' = Tail(backlog)
  /\ UNCHANGED <<vars, result, request, conn, inbox, outbox, client, granted>>

\* That is only reported, too.
AppAcceptFails ==
  /\ app = "accept"
  /\ app' = "spin"
  /\ UNCHANGED <<vars, result, request, accepted, backlog, conn, inbox, outbox, client, granted>>

\* The ecall a request leads to.
AppCalls(m) ==
  \/ EcallFails(server)
  \/ /\ m.op = "login"
     /\ \/ LoginExisting(server, m.name, m.password)
        \/ OpenAccount(server, m.name, m.password)
  \/ /\ m.op = "deposit"
     /\ NeedLogout(server) \/ EcallMyDeposit(server, Atoi(m.amount))
  \/ /\ m.op = "withdraw"
     /\ NeedLogout(server) \/ EcallMyWithdraw(server, Atoi(m.amount))

\* Variant for the mutants: the request is handled but stays in the socket.
AppPeeks ==
  /\ app = "recv" /\ inbox[accepted] \in Messages
  /\ AppCalls(inbox[accepted])
  /\ app' = "call"
  /\ request' = inbox[accepted]
  /\ granted' = (account_list' # account_list)
  /\ UNCHANGED <<result, accepted, backlog, conn, inbox, outbox, client>>

AppReceives ==
  /\ app = "recv" /\ inbox[accepted] \in Messages
  /\ AppCalls(inbox[accepted])
  /\ app' = "call"
  /\ request' = inbox[accepted]
  /\ inbox' = [inbox EXCEPT ![accepted] = None]
  /\ granted' = (account_list' # account_list)
  /\ UNCHANGED <<result, accepted, backlog, conn, outbox, client>>

\* Bytes that name no operation get no reply.
AppIgnores ==
  /\ app = "recv" /\ inbox[accepted] = Garbage
  /\ inbox' = [inbox EXCEPT ![accepted] = None]
  /\ UNCHANGED <<vars, app, result, request, accepted, backlog, conn, outbox,
                 client, granted>>

\* The reply goes out, if the client is still there, and the loop goes on.
Writes(reply) ==
  /\ outbox' = IF conn[accepted] = "open"
               THEN [outbox EXCEPT ![accepted] = reply] ELSE outbox
  /\ app' = "recv"
  /\ request' = None
  /\ UNCHANGED <<accepted, backlog, conn, inbox, client, granted>>

EcallIsOver == app = "call" /\ proc[server] \in {"idle", "orphan"}

\* What the ecall wrote to result, or what result still held.
Verdict == IF ret[server] = Undefined THEN result ELSE ret[server]

\* The variable deposits, uninitialised unless the ecall has returned.
Deposits == IF ret[server] = Undefined THEN Noise ELSE {ret[server]}

\* Variants for the mutants: a refused login gets no reply; the inquiry
\* overwrites result.
AppAnswersLoginSilently ==
  /\ EcallIsOver /\ request.op = "login"
  /\ result' = Verdict
  /\ \/ /\ Verdict = ACCOUNT_SET_FAIL
        /\ app' = "recv" /\ request' = None
        /\ UNCHANGED <<vars, accepted, backlog, conn, inbox, outbox, client, granted>>
     \/ /\ Verdict # ACCOUNT_SET_FAIL
        /\ EcallMyInquiry(server)
        /\ Writes(Reply("login", ret'[server]))

AppAnswersLoginIntoResult ==
  /\ EcallIsOver /\ request.op = "login"
  /\ \/ /\ Verdict = ACCOUNT_SET_FAIL
        /\ Writes(Reply("fail", 0))
        /\ UNCHANGED <<vars, result>>
     \/ /\ Verdict # ACCOUNT_SET_FAIL
        /\ EcallMyInquiry(server)
        /\ result' = ret'[server]
        /\ Writes(Reply("login", ret'[server]))

AppAnswersLogin ==
  /\ EcallIsOver /\ request.op = "login"
  /\ result' = Verdict
  /\ \/ /\ Verdict = ACCOUNT_SET_FAIL
        /\ Writes(Reply("fail", 0))
        /\ UNCHANGED vars
     \/ /\ Verdict # ACCOUNT_SET_FAIL
        /\ EcallMyInquiry(server)
        /\ Writes(Reply("login", ret'[server]))
     \/ /\ Verdict # ACCOUNT_SET_FAIL
        /\ EcallFails(server)
        /\ \E noise \in Noise : Writes(Reply("login", noise))

AppAnswersDeposit ==
  /\ EcallIsOver /\ request.op = "deposit"
  /\ \E deposits \in Deposits : Writes(Reply("balance", deposits))
  /\ UNCHANGED <<vars, result>>

\* Variant for the mutants: the amount is not compared.
AppAnswersWithdrawBlindly ==
  /\ EcallIsOver /\ request.op = "withdraw"
  /\ \E deposits \in Deposits : Writes(Reply("balance", deposits))
  /\ UNCHANGED <<vars, result>>

\* The amount is compared with what is left after the withdrawal.
AppAnswersWithdraw ==
  /\ EcallIsOver /\ request.op = "withdraw"
  /\ \E deposits \in Deposits :
       Writes(IF Atoi(request.amount) > deposits
              THEN Reply("toobig", 0) ELSE Reply("balance", deposits))
  /\ UNCHANGED <<vars, result>>

-----------------------------------------------------------------------------
(* The enclave and the end of the server process *)

\* Steps inside an ecall, and the loss of the enclave: the App notices nothing.
EnclaveLoads  == InitManagerLoad(server) /\ UNCHANGED <<netVars, client>>
EnclaveStores ==
  /\ AccountListStoreStorage(server) \/ MarshalOutOfMemory(server)
  /\ UNCHANGED <<netVars, client>>
EnclaveIsLost == EnclaveLost(server) /\ UNCHANGED <<netVars, client>>

\* The kernel closes the sockets; replies already sent can still be read.
Disconnects ==
  /\ app' = "down"
  /\ request' = None
  /\ accepted' = None
  /\ backlog' = <<>>
  /\ conn' = [c \in Clients |-> IF conn[c] = "open" THEN "dead" ELSE conn[c]]
  /\ inbox' = [c \in Clients |-> None]
  /\ UNCHANGED <<result, outbox, client, granted>>

AppDiesStoring == SealOutOfMemory(server) /\ Disconnects
AppDies        == ProcessEnds(server) /\ Disconnects

-----------------------------------------------------------------------------

NetInit ==
  /\ Init
  /\ app = "down" /\ result = PROCESS_SUCCESS /\ request = None
  /\ accepted = None /\ backlog = <<>>
  /\ conn   = [c \in Clients |-> "none"]
  /\ inbox  = [c \in Clients |-> None]
  /\ outbox = [c \in Clients |-> None]
  /\ client = [c \in Clients |-> NewClient("off", 0)]
  /\ granted = FALSE

\* What the server does by itself, once started, while nothing goes wrong.
ServerRuns ==
  \/ EnclaveLoads \/ EnclaveStores \/ AppDiesStoring
  \/ AppListens \/ AppAccepts \/ AppReceives \/ AppIgnores
  \/ AppAnswersLogin \/ AppAnswersDeposit \/ AppAnswersWithdraw

ClientActs(c) ==
  \/ ClientConnects(c) \/ ClientLogsIn(c) \/ ClientMovesMoney(c)
  \/ ClientResends(c) \/ ClientQuits(c) \/ ClientReceives(c)

NetNext ==
  \/ AppStarts \/ ServerRuns
  \/ EnclaveIsLost \/ AppDies \/ AppAcceptFails
  \/ \E c \in Clients : ClientActs(c)

NetSpec == NetInit /\ [][NetNext]_allVars

(***************************************************************************)
(* Processes that can run do run.  Nobody has to type, start a server or   *)
(* break anything.                                                         *)
(***************************************************************************)
FairNetSpec ==
  /\ NetSpec
  /\ WF_allVars(ServerRuns)
  /\ \A c \in Clients : WF_allVars(ClientReceives(c))

=============================================================================

---------------------------- MODULE NetBankProofs ----------------------------
(***************************************************************************)
(* The service uses the enclave as DealManager says: whatever is proved of *)
(* DealManager holds of it in the whole service.  And for any number of    *)
(* clients, a reply answers the last request, and what a client shows and  *)
(* believes is what the enclave holds.                                     *)
(***************************************************************************)
EXTENDS NetBankProperties, BankServiceProofs

(***************************************************************************)
(* Amounts reach the enclave through atoi: the set of amounts must hold    *)
(* what atoi makes of its members, as the set of all words does.           *)
(***************************************************************************)
AtoiClosed == \A amount \in Amounts : Atoi(amount) \in Amounts

LEMMA ServerExists ==
  ASSUME Servers # {}
  PROVE  server \in Servers
BY DEF server

\* Every ecall the App makes is one of the enclave's.
LEMMA AppCallsEcall ==
  ASSUME Servers # {}, AtoiClosed, NEW m \in Messages, AppCalls(m)
  PROVE  Ecall(server)
<1>1. CASE EcallFails(server)
  BY <1>1 DEF Ecall
<1>2. CASE m.op = "login" /\ \/ LoginExisting(server, m.name, m.password)
                             \/ OpenAccount(server, m.name, m.password)
  <2>1. m.name \in Names /\ m.password \in Passwords
    BY <1>2 DEF Messages
  <2> QED
    BY <1>2, <2>1 DEF Ecall
<1>3. CASE m.op = "deposit" /\ \/ NeedLogout(server)
                               \/ EcallMyDeposit(server, Atoi(m.amount))
  <2>1. Atoi(m.amount) \in Amounts
    BY <1>3 DEF Messages, AtoiClosed
  <2> QED
    BY <1>3, <2>1 DEF Ecall
<1>4. CASE m.op = "withdraw" /\ \/ NeedLogout(server)
                                \/ EcallMyWithdraw(server, Atoi(m.amount))
  <2>1. Atoi(m.amount) \in Amounts
    BY <1>4 DEF Messages, AtoiClosed
  <2> QED
    BY <1>4, <2>1 DEF Ecall
<1> QED
  BY <1>1, <1>2, <1>3, <1>4 DEF AppCalls

LEMMA NetStep ==
  ASSUME Servers # {}, AtoiClosed, [NetNext]_allVars
  PROVE  [Next]_vars
<1> USE ServerExists
<1>1. CASE AppReceives
  <2>1. AppCalls(inbox[accepted]) /\ inbox[accepted] \in Messages
    BY <1>1 DEF AppReceives
  <2> QED
    BY <2>1, AppCallsEcall DEF Next
<1>2. CASE AppStarts
  BY <1>2 DEF AppStarts, Next
<1>3. CASE AppAnswersLogin
  BY <1>3 DEF AppAnswersLogin, Next, Ecall
<1>4. CASE \/ AppListens \/ AppAccepts \/ AppAcceptFails \/ AppIgnores
           \/ AppAnswersDeposit \/ AppAnswersWithdraw
  BY <1>4 DEF AppListens, AppAccepts, AppAcceptFails, AppIgnores,
              AppAnswersDeposit, AppAnswersWithdraw
<1>5. CASE EnclaveLoads \/ EnclaveStores \/ AppDiesStoring
  BY <1>5 DEF EnclaveLoads, EnclaveStores, AppDiesStoring, Next, Store
<1>6. CASE EnclaveIsLost \/ AppDies
  BY <1>6 DEF EnclaveIsLost, AppDies, Next
<1>7. ASSUME NEW c \in Clients, ClientActs(c)
      PROVE  UNCHANGED vars
  BY <1>7 DEF ClientActs, ClientConnects, ClientLogsIn, ClientMovesMoney,
              ClientResends, ClientQuits, ClientReceives, Sends
<1>8. CASE UNCHANGED allVars
  BY <1>8 DEF allVars
<1> QED
  BY <1>1, <1>2, <1>3, <1>4, <1>5, <1>6, <1>7, <1>8 DEF NetNext, ServerRuns

(***************************************************************************)
(* The service implements DealManager: main calls the enclave only as      *)
(* DealManager allows, in every interleaving of clients, server, crashes   *)
(* and losses of the enclave.                                              *)
(***************************************************************************)
THEOREM NetImplementsDealManager ==
  ASSUME Servers # {}, AtoiClosed
  PROVE  NetSpec => Spec
<1>1. NetInit => Init
  BY DEF NetInit
<1>2. [NetNext]_allVars => [Next]_vars
  BY NetStep
<1> QED
  BY <1>1, <1>2, PTL DEF NetSpec, Spec

(***************************************************************************)
(* So a name identifies one account whatever the clients type and whenever *)
(* the server dies.                                                        *)
(***************************************************************************)
COROLLARY NetNamesStayUnique ==
  ASSUME Servers # {}, AtoiClosed
  PROVE  NetSpec => []UniqueNames
BY NetImplementsDealManager, NamesStayUnique, PTL

(***************************************************************************)
(* And with one server whose lists fit and whose disk does not fail, the   *)
(* enclave behind the service is the abstract bank.                        *)
(***************************************************************************)
COROLLARY NetImplementsBank ==
  ASSUME Servers # {}, OneServer, ListsFit, ~FlushFails, ~TornWrites, AtoiClosed
  PROVE  NetSpec => ImplementsBank
BY NetImplementsDealManager, EnclaveImplementsBank, PTL

-----------------------------------------------------------------------------
(* The inductive invariant, in three layers *)

(***************************************************************************)
(* main: whom it serves, what it handles, and where the enclave is then.   *)
(***************************************************************************)
AppInv ==
  /\ IF app \in {"recv", "call"} THEN accepted \in Clients ELSE accepted = None
  /\ IF app = "call" THEN request \in Messages ELSE request = None
  /\ app = "boot" => proc[server] \in {"load", "idle", "orphan"}
  /\ app \in {"accept", "recv", "deaf", "spin"} => proc[server] \in {"idle", "orphan"}
  /\ app = "call" => proc[server] \in {"idle", "store", "orphan"}

\* What the ecall under way has done already, while the enclave is there.
LoginCall ==
  /\ ret[server] \in {PROCESS_SUCCESS, ACCOUNT_SET_FAIL, Undefined}
  /\ proc[server] \in {"idle", "store"} =>
       /\ AccountLogin(server)
       /\ Current(server).name = request.name
  /\ proc[server] = "store" =>
       /\ call[server].op = "ecallNewAccount"
       /\ Current(server).password = request.password
  /\ proc[server] = "idle" =>
       /\ ret[server] # Undefined
       /\ ret[server] = PROCESS_SUCCESS
            => Current(server).password = request.password

MoneyCall ==
  /\ proc[server] = "store" => call[server].op # "ecallNewAccount"
  /\ proc[server] = "idle" => ret[server] # Undefined
  /\ proc[server] = "idle" /\ AccountLogin(server) => ret[server] = Balance
  /\ /\ request.op = "withdraw" /\ ~granted
     /\ proc[server] \in {"idle", "store"} /\ AccountLogin(server)
     => Atoi(request.amount) = 0 \/ Balance < Atoi(request.amount)

CallInv ==
  app = "call" => IF request.op = "login" THEN LoginCall ELSE MoneyCall

MainInv == NetTypeOK /\ AppInv /\ CallInv

(***************************************************************************)
(* One client and what is on the way to it and from it.                    *)
(***************************************************************************)
InCall(c) == app = "call" /\ accepted = c /\ conn[c] = "open"

LineInv(c) ==
  /\ client[c].at = "off" =>
       /\ conn[c] = "none" /\ accepted # c
       /\ \A i \in DOMAIN backlog : backlog[i] # c
  /\ conn[c] = "open" => client[c].at \in {"menu", "wait"}
  /\ InCall(c) => request = client[c].send_info
  /\ client[c].at # "gone" =>
       /\ inbox[c] # None => conn[c] = "open" /\ inbox[c] = client[c].send_info
       /\ outbox[c] # None =>
            (outbox[c].kind \in {"login", "fail"} <=> client[c].send_info.op = "login")
       /\ client[c].at # "wait" =>
            inbox[c] = None /\ outbox[c] = None /\ ~InCall(c)
       /\ inbox[c] = None \/ (outbox[c] = None /\ ~InCall(c))
       /\ outbox[c] = None \/ ~InCall(c)

\* What it prints is what it has been sent.
ScreenInv(c) ==
  /\ client[c].deposit_print => client[c].send_info.op \in {"deposit", "withdraw"}
  /\ client[c].send_info.op = "login" => client[c].typed = client[c].send_info
  /\ client[c].at = "menu" /\ client[c].fresh =>
       /\ client[c].receive_data.kind = "toobig"
            => client[c].shown = client[c].pre_amount
       /\ client[c].receive_data.kind = "login"
            => client[c].shown = Atoi(client[c].receive_data.value)
       /\ client[c].receive_data.kind = "balance" /\ client[c].deposit_print
            => client[c].shown = Atoi(client[c].receive_data.value)

(***************************************************************************)
(* One client and the enclave's account, through the rounds of a request.  *)
(***************************************************************************)
Session(c) ==
  /\ AccountLogin(server)
  /\ Current(server).name = client[c].typed.name
  /\ Current(server).password = client[c].typed.password

Settled(c) == AccountLogin(server) => client[c].pre_amount = Atoi(Balance)

\* data says the truth about the client's last request and its account.
Truthful(c, data) ==
  /\ data.kind \in {"login", "balance"} /\ AccountLogin(server) => data.value = Balance
  /\ /\ data.kind = "balance" /\ AccountLogin(server)
     /\ client[c].send_info.op = "withdraw"
     /\ Atoi(client[c].send_info.amount) # 0
     => granted

\* Before the client is accepted nothing has come back to it.
Unserved(c) ==
  /\ ~client[c].fresh /\ ~client[c].settled /\ outbox[c] = None
  /\ client[c].at = "menu" => ~client[c].login
  /\ client[c].at = "wait" =>
       /\ inbox[c] = client[c].send_info
       /\ client[c].login => client[c].send_info.op = "login"

\* No request of the client is being handled, and no reply is on its way.
Quiet(c) ==
  /\ client[c].login =>
       Session(c) \/ (inbox[c] # None /\ client[c].send_info.op = "login")
  /\ client[c].settled => Settled(c)
  /\ client[c].at = "menu" /\ client[c].fresh => Truthful(c, client[c].receive_data)

\* Its request is being handled.
Handled(c) ==
  request.op # "login" =>
    /\ client[c].login => Session(c)
    /\ client[c].settled /\ ~granted => Settled(c)

\* The reply to it is on its way.
Replied(c) ==
  /\ Truthful(c, outbox[c])
  /\ client[c].login /\ outbox[c].kind # "fail" => Session(c)
  /\ outbox[c].kind = "toobig" /\ client[c].settled /\ ~granted => Settled(c)

TalkInv(c) ==
  conn[c] = "open" =>
    IF accepted # c THEN Unserved(c)
    ELSE /\ app = "recv" /\ proc[server] = "idle" =>
              IF outbox[c] = None THEN Quiet(c) ELSE Replied(c)
         /\ app = "call" /\ proc[server] \in {"idle", "store"} => Handled(c)

LinesInv == \A c \in Clients : LineInv(c) /\ ScreenInv(c)
TalksInv == \A c \in Clients : TalkInv(c)

NetInv == MainInv /\ LinesInv /\ TalksInv

-----------------------------------------------------------------------------
(* Numbers, replies and clients *)

LEMMA AtoiType ==
  ASSUME NEW x \in UInt64
  PROVE  Atoi(x) \in UInt64
<1> DEFINE low == x % IntMod
<1>1. x \in Nat /\ UINT64_MAX \in Nat /\ IntMod \in Nat \ {0} /\ IntMod <= UINT64_MAX + 1
  BY UInt64Facts, NetBankAssumption
<1>2. low \in Nat /\ low < IntMod
  BY <1>1, ModBound
<1> HIDE DEF low
<1>3. Atoi(x) = IF 2 * low < IntMod THEN low ELSE UINT64_MAX + 1 - (IntMod - low)
  BY DEF Atoi, low
<1> QED
  BY <1>1, <1>2, <1>3 DEF UInt64

\* atoi changes no number an int can hold.
LEMMA AtoiSmall ==
  ASSUME NEW x \in UInt64, 2 * x < IntMod
  PROVE  Atoi(x) = x
<1>1. x \in Nat /\ IntMod \in Nat /\ x < IntMod
  BY UInt64Facts, NetBankAssumption
<1>2. x % IntMod = x
  BY <1>1, SmallMod
<1> QED
  BY <1>2 DEF Atoi

LEMMA ReplyType ==
  ASSUME NEW kind \in {"login", "fail", "balance", "toobig"}, NEW value \in UInt64
  PROVE  /\ Reply(kind, value) \in Replies
         /\ Reply(kind, value).kind = kind
         /\ Reply(kind, value).value = value
BY DEF Reply, Replies

LEMMA NewClientType ==
  ASSUME NEW at \in {"off", "menu", "wait", "gone"}, NEW noise \in UInt64
  PROVE  /\ NewClient(at, noise) \in Client
         /\ NewClient(at, noise).at = at
         /\ ~NewClient(at, noise).login
         /\ ~NewClient(at, noise).deposit_print
         /\ NewClient(at, noise).send_info = Garbage
         /\ ~NewClient(at, noise).fresh
         /\ ~NewClient(at, noise).settled
<1>1. Reply("balance", noise) \in Replies /\ 0 \in UInt64
  BY ReplyType, UInt64Facts DEF UInt64
<1> QED
  BY <1>1 DEF NewClient, Client

LEMMA NumberType ==
  ASSUME NEW data \in Replies
  PROVE  Number(data) \in UInt64
BY AtoiType, UInt64Facts DEF Number, Replies, UInt64

\* A reply changes what is printed, and sometimes login and pre_amount.
LEMMA AfterReplyFacts ==
  ASSUME NEW k \in Client, NEW data \in Replies
  PROVE  LET r == AfterReply(k, data)
         IN  /\ r \in Client
             /\ r.at = k.at /\ r.send_info = k.send_info /\ r.typed = k.typed
             /\ r.fresh = k.fresh /\ r.receive_data = k.receive_data
             /\ r.settled = k.settled /\ r.deposit_print = k.deposit_print
             /\ r.login => k.login
             /\ data.kind = "fail" /\ ~k.deposit_print => ~r.login
             /\ data.kind = "toobig" =>
                  r.shown = k.pre_amount /\ r.pre_amount = k.pre_amount
             /\ data.kind = "login" /\ ~k.deposit_print => r.shown = Atoi(data.value)
             /\ data.kind = "balance" /\ k.deposit_print =>
                  r.shown = Atoi(data.value) /\ r.pre_amount = Atoi(data.value)
<1> DEFINE r == AfterReply(k, data)
<1>0. /\ Number(data) \in UInt64 /\ 0 \in UInt64
      /\ data.value \in UInt64 /\ Atoi(data.value) \in UInt64
      /\ k.pre_amount \in UInt64
      /\ data.kind \in {"login", "fail", "balance", "toobig"}
      /\ k.deposit_print \in BOOLEAN
  BY NumberType, AtoiType, UInt64Facts DEF Replies, Client, UInt64
<1>1. CASE data.kind = "toobig"
  <2>1. r = [k EXCEPT !.shown = k.pre_amount]
    BY <1>1 DEF AfterReply
  <2> QED
    BY <1>0, <1>1, <2>1 DEF Client
<1>2. CASE data.kind = "fail" /\ ~k.deposit_print
  <2>1. r = [k EXCEPT !.shown = 0, !.login = FALSE]
    BY <1>2 DEF AfterReply
  <2> QED
    BY <1>0, <1>2, <2>1 DEF Client
<1>3. CASE data.kind # "toobig" /\ k.deposit_print
  <2>1. r = [k EXCEPT !.shown = Number(data), !.pre_amount = Number(data)]
    BY <1>3 DEF AfterReply
  <2>2. data.kind = "balance" => Number(data) = Atoi(data.value)
    BY DEF Number
  <2> QED
    BY <1>0, <1>3, <2>1, <2>2 DEF Client
<1>4. CASE data.kind = "login" /\ ~k.deposit_print
  <2>1. r = [k EXCEPT !.shown = Atoi(data.value)]
    BY <1>4 DEF AfterReply
  <2> QED
    BY <1>0, <1>4, <2>1 DEF Client
<1>5. CASE data.kind = "balance" /\ ~k.deposit_print
  <2>1. r = k
    BY <1>5 DEF AfterReply
  <2> QED
    BY <1>0, <1>5, <2>1 DEF Client
<1> QED
  BY <1>0, <1>1, <1>2, <1>3, <1>4, <1>5

LEMMA RoundType ==
  ASSUME NetTypeOK, NEW c \in Clients
  PROVE  /\ Round(c) \in Client
         /\ Round(c).send_info = client[c].send_info
         /\ Round(c).typed = client[c].typed
         /\ Round(c).login = client[c].login
         /\ Round(c).settled = client[c].settled
         /\ Round(c).pre_amount = client[c].pre_amount
         /\ ~Round(c).fresh /\ ~Round(c).deposit_print
<1>1. client[c] \in Client
  BY DEF NetTypeOK
<1> QED
  BY <1>1 DEF Round, Client

-----------------------------------------------------------------------------
(* What a client's step is *)

\* The three menu choices that send, and the variables they send with.
Choice(c, k) ==
  /\ client[c].at = "menu"
  /\ k \in Client
  /\ ~k.fresh /\ k.settled = client[c].settled /\ k.pre_amount = client[c].pre_amount
  /\ \/ /\ k.send_info.op = "login" /\ k.typed = k.send_info /\ ~k.deposit_print
     \/ /\ k.typed = client[c].typed /\ k.login = client[c].login
        /\ k.send_info.op \in {"deposit", "withdraw"} /\ k.deposit_print
     \/ /\ k.typed = client[c].typed /\ k.login = client[c].login
        /\ k.send_info = client[c].send_info /\ ~k.deposit_print

LEMMA ClientChoice ==
  ASSUME NetTypeOK, NEW c \in Clients,
         ClientLogsIn(c) \/ ClientMovesMoney(c) \/ ClientResends(c)
  PROVE  \E k \in Client : Choice(c, k) /\ Sends(c, k)
<1>0. Round(c) \in Client
  BY RoundType
<1>1. CASE ClientLogsIn(c)
  <2>1. PICK m \in Messages :
          /\ m.op = "login"
          /\ Sends(c, [Round(c) EXCEPT !.send_info = m, !.typed = m, !.login = TRUE])
    BY <1>1 DEF ClientLogsIn
  <2> DEFINE k == [Round(c) EXCEPT !.send_info = m, !.typed = m, !.login = TRUE]
  <2>2. /\ k \in Client /\ k.send_info = m /\ k.typed = m
        /\ k.fresh = Round(c).fresh /\ k.deposit_print = Round(c).deposit_print
        /\ k.settled = Round(c).settled /\ k.pre_amount = Round(c).pre_amount
    BY <1>0 DEF Client
  <2>3. client[c].at = "menu"
    BY <1>1 DEF ClientLogsIn
  <2> HIDE DEF k
  <2>4. Choice(c, k)
    BY <2>1, <2>2, <2>3, RoundType DEF Choice
  <2> QED
    BY <2>1, <2>2, <2>4 DEF k
<1>2. CASE ClientMovesMoney(c)
  <2>1. PICK m \in Messages :
          /\ m.op \in {"deposit", "withdraw"}
          /\ Sends(c, [Round(c) EXCEPT !.send_info = m, !.deposit_print = TRUE])
    BY <1>2 DEF ClientMovesMoney
  <2> DEFINE k == [Round(c) EXCEPT !.send_info = m, !.deposit_print = TRUE]
  <2>2. /\ k \in Client /\ k.send_info = m /\ k.deposit_print
        /\ k.fresh = Round(c).fresh /\ k.typed = Round(c).typed
        /\ k.login = Round(c).login
        /\ k.settled = Round(c).settled /\ k.pre_amount = Round(c).pre_amount
    BY <1>0 DEF Client
  <2>3. client[c].at = "menu"
    BY <1>2 DEF ClientMovesMoney
  <2> HIDE DEF k
  <2>4. Choice(c, k)
    BY <2>1, <2>2, <2>3, RoundType DEF Choice
  <2> QED
    BY <2>1, <2>2, <2>4 DEF k
<1>3. CASE ClientResends(c)
  BY <1>0, <1>3, RoundType DEF ClientResends, Choice
<1> QED
  BY <1>1, <1>2, <1>3

\* What one client receives, and its variables afterwards.
Received(c, data, k) ==
  /\ client[c].at = "wait" /\ k \in Client /\ data \in Replies
  /\ k.at = "menu" /\ k.send_info = client[c].send_info
  /\ k.typed = client[c].typed /\ k.deposit_print = client[c].deposit_print
  /\ k.fresh = (outbox[c] # None) /\ (k.fresh => data = outbox[c])
  /\ k.receive_data = data /\ k.settled = Settles(client[c], data)
  /\ k.login => client[c].login
  /\ data.kind = "fail" /\ ~k.deposit_print => ~k.login
  /\ data.kind = "toobig" =>
       k.shown = client[c].pre_amount /\ k.pre_amount = client[c].pre_amount
  /\ data.kind = "login" /\ ~k.deposit_print => k.shown = Atoi(data.value)
  /\ data.kind = "balance" /\ k.deposit_print =>
       k.shown = Atoi(data.value) /\ k.pre_amount = Atoi(data.value)

LEMMA ClientReceived ==
  ASSUME NetTypeOK, NEW c \in Clients, ClientReceives(c)
  PROVE  \E data \in Replies, k \in Client :
           Received(c, data, k) /\ client' = [client EXCEPT ![c] = k]
<1> DEFINE fresh == outbox[c] # None
           data  == IF fresh THEN outbox[c] ELSE client[c].receive_data
           j     == [client[c] EXCEPT !.at = "menu", !.fresh = fresh,
                                      !.receive_data = data,
                                      !.settled = Settles(client[c], data)]
           k     == AfterReply(j, data)
<1>1. client[c] \in Client /\ outbox[c] \in Replies \cup {None}
  BY DEF NetTypeOK
<1>2. data \in Replies
  BY <1>1 DEF Client
<1>3. Settles(client[c], data) \in BOOLEAN
  BY <1>1 DEF Settles, Client, NetTypeOK
<1>4. client[c].at = "wait" /\ client' = [client EXCEPT ![c] = k]
  BY <1>1 DEF ClientReceives
<1> HIDE DEF data
<1>5. j \in Client
  BY <1>1, <1>2, <1>3 DEF Client
<1>6. /\ j.at = "menu" /\ j.send_info = client[c].send_info
      /\ j.typed = client[c].typed /\ j.deposit_print = client[c].deposit_print
      /\ j.fresh = fresh /\ j.receive_data = data
      /\ j.settled = Settles(client[c], data) /\ j.login = client[c].login
      /\ j.pre_amount = client[c].pre_amount
  BY <1>1 DEF Client
<1> HIDE DEF j
<1>7. fresh => data = outbox[c]
  BY DEF data
<1>8. /\ k \in Client
      /\ k.at = j.at /\ k.send_info = j.send_info /\ k.typed = j.typed
      /\ k.fresh = j.fresh /\ k.receive_data = j.receive_data
      /\ k.settled = j.settled /\ k.deposit_print = j.deposit_print
      /\ k.login => j.login
      /\ data.kind = "fail" /\ ~j.deposit_print => ~k.login
      /\ data.kind = "toobig" =>
           k.shown = j.pre_amount /\ k.pre_amount = j.pre_amount
      /\ data.kind = "login" /\ ~j.deposit_print => k.shown = Atoi(data.value)
      /\ data.kind = "balance" /\ j.deposit_print =>
           k.shown = Atoi(data.value) /\ k.pre_amount = Atoi(data.value)
  BY <1>2, <1>5, AfterReplyFacts
<1> HIDE DEF k
<1>9. k.fresh = fresh /\ (k.fresh => data = outbox[c])
  BY <1>6, <1>7, <1>8
<1> HIDE DEF fresh
<1>10. Received(c, data, k)
  <2>1. k.fresh = (outbox[c] # None)
    BY <1>9 DEF fresh
  <2> QED
    BY <1>2, <1>4, <1>6, <1>8, <1>9, <2>1 DEF Received
<1> QED
  BY <1>2, <1>4, <1>8, <1>10

LEMMA ClientTypes ==
  ASSUME NetTypeOK, NEW c \in Clients, ClientActs(c)
  PROVE  /\ NetTypeOK'
         /\ UNCHANGED <<vars, app, result, request, accepted, granted>>
<1>0. /\ client \in [Clients -> Client] /\ conn \in [Clients -> ConnStates]
      /\ inbox \in [Clients -> Messages \cup {Garbage, None}]
      /\ outbox \in [Clients -> Replies \cup {None}]
      /\ backlog \in Seq(Clients) /\ 0 \in UInt64
  BY UInt64Facts DEF NetTypeOK, UInt64
<1>1. CASE ClientConnects(c)
  <2>1. client' \in [Clients -> Client]
    BY <1>0, <1>1, NewClientType, NetBankAssumption DEF ClientConnects
  <2>2. Append(backlog, c) \in Seq(Clients)
    BY <1>0, AppendProperties
  <2>3. \/ /\ conn' = [conn EXCEPT ![c] = "open"]
           /\ backlog' = Append(backlog, c)
        \/ /\ conn' = [conn EXCEPT ![c] = "refused"]
           /\ UNCHANGED backlog
    BY <1>1 DEF ClientConnects
  <2>4. backlog' \in Seq(Clients) /\ conn' \in [Clients -> ConnStates]
    BY <1>0, <2>2, <2>3 DEF ConnStates
  <2> QED
    BY <1>1, <2>1, <2>4 DEF ClientConnects, NetTypeOK
<1>2. CASE ClientLogsIn(c) \/ ClientMovesMoney(c) \/ ClientResends(c)
  <2>1. PICK k \in Client : Choice(c, k) /\ Sends(c, k)
    BY <1>2, ClientChoice
  <2>2. \A at \in {"menu", "wait"} : [k EXCEPT !.at = at] \in Client
    BY DEF Client
  <2>3. NewClient("gone", 0) \in Client
    BY <1>0, NewClientType
  <2>4. client' \in [Clients -> Client]
    BY <1>0, <2>1, <2>2, <2>3 DEF Sends
  <2>5. k.send_info \in Messages \cup {Garbage}
    BY DEF Client
  <2>6. /\ inbox' \in [Clients -> Messages \cup {Garbage, None}]
        /\ conn' \in [Clients -> ConnStates]
    BY <1>0, <2>1, <2>5 DEF Sends, ConnStates
  <2>7. UNCHANGED <<vars, app, result, request, accepted, backlog, outbox, granted>>
    BY <2>1 DEF Sends
  <2> QED
    BY <2>4, <2>6, <2>7 DEF NetTypeOK
<1>3. CASE ClientQuits(c)
  <2>1. client' \in [Clients -> Client]
    BY <1>0, <1>3, NewClientType DEF ClientQuits
  <2>2. /\ conn' \in [Clients -> ConnStates]
        /\ outbox' \in [Clients -> Replies \cup {None}]
    BY <1>0, <1>3 DEF ClientQuits, ConnStates
  <2> QED
    BY <1>3, <2>1, <2>2 DEF ClientQuits, NetTypeOK
<1>4. CASE ClientReceives(c)
  <2>1. client' \in [Clients -> Client]
    BY <1>0, <1>4, ClientReceived
  <2>2. outbox' \in [Clients -> Replies \cup {None}]
    BY <1>0, <1>4 DEF ClientReceives
  <2>3. UNCHANGED <<vars, app, result, request, accepted, backlog, conn, inbox, granted>>
    BY <1>4 DEF ClientReceives
  <2> QED
    BY <2>1, <2>2, <2>3 DEF NetTypeOK
<1> QED
  BY <1>1, <1>2, <1>3, <1>4 DEF ClientActs

-----------------------------------------------------------------------------
(* What an answer is *)

Answer(reply) ==
  /\ app = "call" /\ proc[server] \in {"idle", "orphan"}
  /\ reply \in Replies /\ Writes(reply)
  /\ UNCHANGED <<proc, account_list, current_account>>
  /\ result' \in {PROCESS_SUCCESS, ACCOUNT_SET_FAIL}
  /\ reply.kind \in {"login", "fail"} <=> request.op = "login"
  /\ proc[server] = "idle" =>
       /\ reply.kind \in {"login", "balance"} /\ AccountLogin(server)
            => reply.value = Balance
       /\ reply.kind = "login" =>
            /\ AccountLogin(server)
            /\ Current(server).name = request.name
            /\ Current(server).password = request.password
       /\ /\ reply.kind = "balance" /\ AccountLogin(server)
          /\ request.op = "withdraw" /\ Atoi(request.amount) # 0
          => granted

LEMMA DepositsType ==
  ASSUME TypeInv, Servers # {}
  PROVE  Deposits \subseteq UInt64
<1>1. ret[server] \in UInt64 \cup {Undefined}
  BY ServerExists DEF TypeInv, TypeOK
<1> QED
  BY <1>1, NetBankAssumption DEF Deposits

LEMMA AnswersLogin ==
  ASSUME Servers # {}, TypeInv, MainInv, AppAnswersLogin
  PROVE  \E reply \in Replies : Answer(reply)
<1>1. /\ app = "call" /\ proc[server] \in {"idle", "orphan"}
      /\ request.op = "login" /\ result' = Verdict
  BY DEF AppAnswersLogin, EcallIsOver
<1>2. LoginCall /\ result \in {PROCESS_SUCCESS, ACCOUNT_SET_FAIL}
  BY <1>1 DEF MainInv, CallInv, NetTypeOK
<1>3. Verdict \in {PROCESS_SUCCESS, ACCOUNT_SET_FAIL}
  BY <1>2 DEF Verdict, LoginCall
<1>4. PROCESS_SUCCESS # ACCOUNT_SET_FAIL /\ 0 \in UInt64
  BY UInt64Facts DEF PROCESS_SUCCESS, ACCOUNT_SET_FAIL, UInt64
<1>5. CASE Verdict = ACCOUNT_SET_FAIL
  <2>1. Writes(Reply("fail", 0)) /\ UNCHANGED vars
    BY <1>5 DEF AppAnswersLogin
  <2>2. /\ Reply("fail", 0) \in Replies
        /\ Reply("fail", 0).kind = "fail"
    BY <1>4, ReplyType
  <2>3. Answer(Reply("fail", 0))
    BY <1>1, <1>3, <2>1, <2>2 DEF Answer, vars
  <2> QED
    BY <2>2, <2>3
<1>6. CASE Verdict # ACCOUNT_SET_FAIL /\ EcallMyInquiry(server)
                                      /\ Writes(Reply("login", ret'[server]))
  <2>1. /\ proc[server] = "idle" /\ AccountLogin(server)
        /\ ret' = [ret EXCEPT ![server] = Balance]
        /\ UNCHANGED <<proc, account_list, current_account>>
    BY <1>6 DEF EcallMyInquiry, Return, Balance
  <2>2. ret'[server] = Balance /\ Balance \in UInt64
    BY <2>1, ServerExists, CurrentAccount DEF TypeInv, TypeOK, Balance
  <2>3. /\ Reply("login", Balance) \in Replies
        /\ Reply("login", Balance).kind = "login"
        /\ Reply("login", Balance).value = Balance
    BY <2>2, ReplyType
  <2>4. ret[server] = PROCESS_SUCCESS
    BY <1>2, <1>3, <1>6, <2>1 DEF Verdict, LoginCall
  <2>5. /\ Current(server).name = request.name
        /\ Current(server).password = request.password
    BY <1>2, <2>1, <2>4 DEF LoginCall
  <2>6. Writes(Reply("login", Balance))
    BY <1>6, <2>2
  <2>7. Answer(Reply("login", Balance))
    BY <1>1, <1>3, <2>1, <2>3, <2>5, <2>6 DEF Answer
  <2> QED
    BY <2>3, <2>7
<1>7. ASSUME NEW noise \in Noise, EcallFails(server),
             Writes(Reply("login", noise))
      PROVE  \E reply \in Replies : Answer(reply)
  <2>1. /\ Reply("login", noise) \in Replies
        /\ Reply("login", noise).kind = "login"
    BY NetBankAssumption, ReplyType
  <2>2. /\ proc[server] = "orphan"
        /\ UNCHANGED <<proc, account_list, current_account>>
    BY <1>7 DEF EcallFails
  <2>3. Answer(Reply("login", noise))
    BY <1>1, <1>3, <1>7, <2>1, <2>2 DEF Answer
  <2> QED
    BY <2>1, <2>3
<1> QED
  BY <1>5, <1>6, <1>7 DEF AppAnswersLogin

LEMMA AnswersDeposit ==
  ASSUME Servers # {}, TypeInv, MainInv, AppAnswersDeposit
  PROVE  \E reply \in Replies : Answer(reply)
<1>1. PICK deposits \in Deposits : Writes(Reply("balance", deposits))
  BY DEF AppAnswersDeposit
<1>2. /\ app = "call" /\ proc[server] \in {"idle", "orphan"}
      /\ request.op = "deposit"
      /\ UNCHANGED <<proc, account_list, current_account, result>>
  BY DEF AppAnswersDeposit, EcallIsOver, vars
<1>3. deposits \in UInt64
  BY DepositsType
<1>4. /\ Reply("balance", deposits) \in Replies
      /\ Reply("balance", deposits).kind = "balance"
      /\ Reply("balance", deposits).value = deposits
  BY <1>3, ReplyType
<1>5. MoneyCall
  BY <1>2 DEF MainInv, CallInv
<1>6. proc[server] = "idle" /\ AccountLogin(server) => deposits = Balance
  BY <1>5 DEF MoneyCall, Deposits
<1>7. result' \in {PROCESS_SUCCESS, ACCOUNT_SET_FAIL}
  BY <1>2 DEF MainInv, NetTypeOK
<1> QED
  BY <1>1, <1>2, <1>4, <1>6, <1>7 DEF Answer

LEMMA AnswersWithdraw ==
  ASSUME Servers # {}, TypeInv, MainInv, AppAnswersWithdraw
  PROVE  \E reply \in Replies : Answer(reply)
<1>1. PICK deposits \in Deposits :
        Writes(IF Atoi(request.amount) > deposits
               THEN Reply("toobig", 0) ELSE Reply("balance", deposits))
  BY DEF AppAnswersWithdraw
<1>2. /\ app = "call" /\ proc[server] \in {"idle", "orphan"}
      /\ request.op = "withdraw"
      /\ UNCHANGED <<proc, account_list, current_account, result>>
  BY DEF AppAnswersWithdraw, EcallIsOver, vars
<1>3. deposits \in UInt64 /\ 0 \in UInt64
  BY DepositsType, UInt64Facts DEF UInt64
<1>4. /\ Reply("balance", deposits) \in Replies
      /\ Reply("balance", deposits).kind = "balance"
      /\ Reply("balance", deposits).value = deposits
      /\ Reply("toobig", 0) \in Replies
      /\ Reply("toobig", 0).kind = "toobig"
  BY <1>3, ReplyType
<1>5. MoneyCall
  BY <1>2 DEF MainInv, CallInv
<1>6. proc[server] = "idle" /\ AccountLogin(server) => deposits = Balance
  BY <1>5 DEF MoneyCall, Deposits
<1>7. result' \in {PROCESS_SUCCESS, ACCOUNT_SET_FAIL}
  BY <1>2 DEF MainInv, NetTypeOK
<1>8. CASE Atoi(request.amount) > deposits
  <2>1. Answer(Reply("toobig", 0))
    BY <1>1, <1>2, <1>4, <1>7, <1>8 DEF Answer
  <2> QED
    BY <1>4, <2>1
<1>9. CASE ~(Atoi(request.amount) > deposits)
  <2>1. Atoi(request.amount) \in UInt64
    <3>1. request \in Messages
      BY <1>2 DEF MainInv, AppInv
    <3>2. request.amount \in UInt64
      BY <1>2, <3>1, DealManagerAssumption DEF Messages
    <3> QED
      BY <3>2, AtoiType
  <2>2. /\ proc[server] = "idle" /\ AccountLogin(server)
        /\ Atoi(request.amount) # 0
        => granted
    BY <1>2, <1>3, <1>5, <1>6, <1>9, <2>1, UInt64Facts DEF MoneyCall
  <2>3. Answer(Reply("balance", deposits))
    BY <1>1, <1>2, <1>4, <1>6, <1>7, <1>9, <2>2 DEF Answer
  <2> QED
    BY <1>4, <2>3
<1> QED
  BY <1>8, <1>9

LEMMA AppAnswers ==
  ASSUME Servers # {}, TypeInv, MainInv,
         AppAnswersLogin \/ AppAnswersDeposit \/ AppAnswersWithdraw
  PROVE  \E reply \in Replies : Answer(reply)
BY AnswersLogin, AnswersDeposit, AnswersWithdraw

-----------------------------------------------------------------------------
(* The first layer: main and the ecall *)

LEMMA InitMain == NetInit /\ Servers # {} => MainInv
<1> SUFFICES ASSUME NetInit, Servers # {} PROVE MainInv
  OBVIOUS
<1>1. NewClient("off", 0) \in Client
  BY NewClientType, UInt64Facts DEF UInt64
<1>2. client \in [Clients -> Client]
  BY <1>1 DEF NetInit
<1>3. NetTypeOK
  BY <1>2, EmptySeq DEF NetInit, NetTypeOK, AppPhases, ConnStates
<1> QED
  BY <1>3 DEF NetInit, MainInv, AppInv, CallInv

LEMMA MainUnchanged ==
  ASSUME AppInv, CallInv, UNCHANGED <<vars, app, request, accepted, granted>>
  PROVE  AppInv' /\ CallInv'
<1>1. AppInv'
  BY DEF AppInv, vars
<1>2. CallInv'
  BY DEF CallInv, LoginCall, MoneyCall, AccountLogin, Current, Balance, vars
<1> QED
  BY <1>1, <1>2

\* What the ecall leaves behind when it is refused outright.
LEMMA WithdrawNothing ==
  ASSUME NEW account \in Accounts, NEW amount \in Amounts,
         Withdraw(account, amount) = account
  PROVE  amount = 0 \/ account.deposits < amount
<1>1. /\ account.deposits \in UInt64 /\ amount \in UInt64
      /\ UINT64_MAX \in Nat /\ UInt64 = 0 .. UINT64_MAX
  BY DealManagerAssumption, WordAssumption DEF Accounts, UInt64
<1>2. CASE ~(account.deposits < amount)
  <2> DEFINE d == account.deposits
  <2>1. Wrap64(d - amount) = d
    <3>1. Withdraw(account, amount) = [account EXCEPT !.deposits = Wrap64(d - amount)]
      BY <1>2 DEF Withdraw
    <3> QED
      BY <3>1 DEF Accounts
  <2>2. d - amount \in Nat /\ d - amount < UINT64_MAX + 1
    BY <1>1, <1>2
  <2>3. Wrap64(d - amount) = d - amount
    BY <1>1, <2>2, SmallMod DEF Wrap64
  <2> QED
    BY <1>1, <2>1, <2>3
<1> QED
  BY <1>2

LEMMA CallLogin ==
  ASSUME Servers # {}, TypeInv, NEW m \in Messages, m.op = "login", AppCalls(m),
         request' = m
  PROVE  /\ LoginCall'
         /\ proc[server] \in {"idle", "orphan"}
         /\ proc'[server] \in {"idle", "store", "orphan"}
<1>0. /\ server \in Servers /\ proc \in [Servers -> Phases]
      /\ current_account \in [Servers -> Nat]
      /\ account_list \in [Servers -> Seq(Accounts)]
      /\ call \in [Servers -> Calls \cup {None}]
      /\ ret \in [Servers -> UInt64 \cup {Undefined}]
  BY ServerExists DEF TypeInv, TypeOK
<1>1. m.name \in Names /\ m.password \in Passwords
  BY DEF Messages
<1>2. /\ Undefined \notin {PROCESS_SUCCESS, ACCOUNT_SET_FAIL}
      /\ PROCESS_SUCCESS # ACCOUNT_SET_FAIL
  BY UInt64Facts, DealManagerAssumption DEF PROCESS_SUCCESS, ACCOUNT_SET_FAIL
<1>3. CASE EcallFails(server)
  BY <1>0, <1>3 DEF EcallFails, LoginCall
<1>4. CASE LoginExisting(server, m.name, m.password)
  <2>1. PICK i \in DOMAIN account_list[server] :
          /\ IsFirst(account_list[server], i, m.name)
          /\ current_account' = [current_account EXCEPT ![server] = i]
          /\ ret' = [ret EXCEPT ![server] =
                       IF m.password = account_list[server][i].password
                       THEN PROCESS_SUCCESS ELSE ACCOUNT_SET_FAIL]
          /\ UNCHANGED <<proc, account_list>>
    BY <1>4 DEF LoginExisting, Return
  <2>2. i # 0
    BY <1>0, LenProperties
  <2>3. /\ current_account'[server] = i
        /\ ret'[server] = IF m.password = account_list[server][i].password
                          THEN PROCESS_SUCCESS ELSE ACCOUNT_SET_FAIL
    BY <1>0, <2>1
  <2>4. account_list[server][i].name = m.name /\ proc[server] = "idle"
    BY <1>4, <2>1 DEF IsFirst, LoginExisting
  <2> QED
    BY <1>2, <2>1, <2>2, <2>3, <2>4 DEF LoginCall, AccountLogin, Current
<1>5. CASE OpenAccount(server, m.name, m.password)
  <2> DEFINE list == account_list[server]
             account == NewAccount(m.name, m.password)
  <2>1. /\ proc[server] = "idle" /\ proc'[server] = "store"
        /\ account_list'[server] = Append(list, account)
        /\ current_account'[server] = Len(list) + 1
        /\ call'[server].op = "ecallNewAccount" /\ ret'[server] = Undefined
    BY <1>0, <1>5 DEF OpenAccount, EnterStore
  <2>2. account \in Accounts /\ account.name = m.name /\ account.password = m.password
    BY <1>1, NewAccountType DEF NewAccount
  <2>3. Len(list) \in Nat /\ list \in Seq(Accounts)
    BY <1>0, LenProperties
  <2> HIDE DEF list, account
  <2>4. Append(list, account)[Len(list) + 1] = account
    BY <2>2, <2>3, AppendProperties
  <2> QED
    BY <2>1, <2>2, <2>3, <2>4 DEF LoginCall, AccountLogin, Current
<1> QED
  BY <1>3, <1>4, <1>5 DEF AppCalls

\* An ecall that moves money leaves everybody logged in where they were.
LEMMA CallMoney ==
  ASSUME Servers # {}, AtoiClosed, TypeInv,
         NEW m \in Messages, m.op # "login", AppCalls(m),
         request' = m, granted' = (account_list' # account_list)
  PROVE  /\ MoneyCall'
         /\ proc[server] \in {"idle", "orphan"}
         /\ proc'[server] \in {"idle", "store", "orphan"}
         /\ UNCHANGED current_account
         /\ AccountLogin(server) =>
              /\ Current(server)'.name = Current(server).name
              /\ Current(server)'.password = Current(server).password
<1>0. /\ server \in Servers /\ proc \in [Servers -> Phases]
      /\ current_account \in [Servers -> Nat]
      /\ account_list \in [Servers -> Seq(Accounts)]
      /\ call \in [Servers -> Calls \cup {None}]
      /\ ret \in [Servers -> UInt64 \cup {Undefined}]
  BY ServerExists DEF TypeInv, TypeOK
<1>1. CASE EcallFails(server)
  BY <1>0, <1>1 DEF EcallFails, MoneyCall, Current
<1>2. CASE NeedLogout(server)
  <2>1. /\ proc[server] = "idle" /\ ~AccountLogin(server)
        /\ UNCHANGED <<proc, account_list, current_account>>
        /\ ret'[server] = NEED_LOGOUT
    BY <1>0, <1>2 DEF NeedLogout, Return
  <2>2. NEED_LOGOUT # Undefined
    BY UInt64Facts, DealManagerAssumption
  <2> QED
    BY <2>1, <2>2 DEF MoneyCall, AccountLogin
<1>3. CASE m.op = "deposit" /\ EcallMyDeposit(server, Atoi(m.amount))
  <2> DEFINE amount == Atoi(m.amount)
  <2>1. amount \in Amounts
    BY <1>3 DEF Messages, AtoiClosed
  <2>2. /\ proc[server] = "idle" /\ AccountLogin(server)
        /\ proc'[server] = "store" /\ call'[server].op = "ecallMyDeposit"
        /\ UNCHANGED current_account
    BY <1>0, <1>3 DEF EcallMyDeposit, EnterStore
  <2>3. current_account[server] \in DOMAIN account_list[server]
    BY <1>0, <2>2, CurrentAccount, LenProperties
  <2> HIDE DEF amount
  <2>4. account_list'[server][current_account[server]] =
          Deposit(account_list[server][current_account[server]], amount)
    BY <1>0, <1>3, <2>3 DEF EcallMyDeposit, amount
  <2>5. Current(server)' = Deposit(Current(server), amount)
    BY <2>2, <2>4 DEF Current
  <2>6. /\ Current(server)'.name = Current(server).name
        /\ Current(server)'.password = Current(server).password
    <3>1. Current(server) \in Accounts
      BY <1>0, <2>2, CurrentAccount
    <3>2. /\ Deposit(Current(server), amount).name = Current(server).name
          /\ Deposit(Current(server), amount).password = Current(server).password
      BY <2>1, <3>1, DepositAccount
    <3> QED
      BY <2>5, <3>2
  <2> QED
    BY <1>3, <2>2, <2>6 DEF MoneyCall
<1>4. CASE m.op = "withdraw" /\ EcallMyWithdraw(server, Atoi(m.amount))
  <2> DEFINE amount == Atoi(m.amount)
  <2>1. amount \in Amounts
    BY <1>4 DEF Messages, AtoiClosed
  <2>2. /\ proc[server] = "idle" /\ AccountLogin(server)
        /\ proc'[server] = "store" /\ call'[server].op = "ecallMyWithdraw"
        /\ UNCHANGED current_account
    BY <1>0, <1>4 DEF EcallMyWithdraw, EnterStore
  <2>3. current_account[server] \in DOMAIN account_list[server]
    BY <1>0, <2>2, CurrentAccount, LenProperties
  <2> HIDE DEF amount
  <2>4. account_list'[server][current_account[server]] =
          Withdraw(account_list[server][current_account[server]], amount)
    BY <1>0, <1>4, <2>3 DEF EcallMyWithdraw, amount
  <2>5. Current(server)' = Withdraw(Current(server), amount)
    BY <2>2, <2>4 DEF Current
  <2>6. /\ Current(server)'.name = Current(server).name
        /\ Current(server)'.password = Current(server).password
    <3>1. Current(server) \in Accounts
      BY <1>0, <2>2, CurrentAccount
    <3>2. /\ Withdraw(Current(server), amount).name = Current(server).name
          /\ Withdraw(Current(server), amount).password = Current(server).password
      BY <2>1, <3>1, WithdrawAccount
    <3> QED
      BY <2>5, <3>2
  <2>7. ~granted' => amount = 0 \/ Balance' < amount
    <3>1. SUFFICES ASSUME ~granted' PROVE amount = 0 \/ Balance' < amount
      OBVIOUS
    <3>2. Current(server)' = Current(server)
      BY <2>2, <3>1 DEF Current
    <3>3. Current(server) \in Accounts
      BY <1>0, <2>2, CurrentAccount
    <3>4. Withdraw(Current(server), amount) = Current(server)
      BY <2>5, <3>2
    <3>5. amount = 0 \/ Current(server).deposits < amount
      BY <2>1, <3>3, <3>4, WithdrawNothing
    <3> QED
      BY <3>2, <3>5 DEF Balance
  <2>8. request'.amount = m.amount
    OBVIOUS
  <2> QED
    BY <1>4, <2>2, <2>6, <2>7, <2>8 DEF MoneyCall, amount
<1> QED
  BY <1>1, <1>2, <1>3, <1>4 DEF AppCalls

LEMMA StoreMain ==
  ASSUME Servers # {}, TypeInv, MainInv, EnclaveStores
  PROVE  MainInv'
<1>0. /\ server \in Servers /\ proc \in [Servers -> Phases]
      /\ ret \in [Servers -> UInt64 \cup {Undefined}]
      /\ UNCHANGED netVars /\ UNCHANGED client
      /\ proc[server] = "store" /\ app \in {"down", "call"}
  BY ServerExists
     DEF TypeInv, TypeOK, EnclaveStores, AccountListStoreStorage,
         MarshalOutOfMemory, MainInv, AppInv, NetTypeOK, AppPhases
<1>1. NetTypeOK'
  BY <1>0 DEF MainInv, NetTypeOK, netVars
<1>2. CASE MarshalOutOfMemory(server)
  <2>1. proc'[server] = "orphan" /\ UNCHANGED ret
    BY <1>0, <1>2 DEF MarshalOutOfMemory
  <2>2. AppInv' /\ CallInv'
    BY <1>0, <2>1 DEF MainInv, AppInv, CallInv, LoginCall, MoneyCall, netVars
  <2> QED
    BY <1>1, <2>2 DEF MainInv
<1>3. CASE AccountListStoreStorage(server)
  <2>1. /\ proc'[server] = "idle" /\ ret'[server] = StoreResult(server)
        /\ UNCHANGED <<account_list, current_account>>
    BY <1>0, <1>3 DEF AccountListStoreStorage
  <2>2. AccountLogin(server) /\ Balance \in UInt64 /\ Balance # Undefined
    BY <1>0, CurrentAccount, DealManagerAssumption DEF TypeInv, TypeOK, Balance
  <2>3. PROCESS_SUCCESS # Undefined
    BY UInt64Facts, DealManagerAssumption
  <2>4. AppInv'
    BY <1>0, <2>1 DEF MainInv, AppInv, netVars
  <2>5. CallInv'
    <3>1. CASE app = "call" /\ request.op = "login"
      <4>1. LoginCall
        BY <3>1 DEF MainInv, CallInv
      <4>2. ret'[server] = PROCESS_SUCCESS
        BY <1>0, <2>1, <4>1 DEF LoginCall, StoreResult
      <4> QED
        BY <1>0, <2>1, <2>2, <2>3, <3>1, <4>1, <4>2
           DEF CallInv, LoginCall, AccountLogin, Current, netVars
    <3>2. CASE app = "call" /\ request.op # "login"
      <4>1. MoneyCall
        BY <3>2 DEF MainInv, CallInv
      <4>2. ret'[server] = Balance
        BY <1>0, <2>1, <4>1 DEF MoneyCall, StoreResult, Balance
      <4>3. Balance' = Balance
        BY <2>1 DEF Balance, Current
      <4> QED
        BY <1>0, <2>1, <2>2, <3>2, <4>1, <4>2, <4>3
           DEF CallInv, MoneyCall, AccountLogin, netVars
    <3> QED
      BY <1>0, <3>1, <3>2 DEF CallInv, netVars
  <2> QED
    BY <1>1, <2>4, <2>5 DEF MainInv
<1> QED
  BY <1>2, <1>3 DEF EnclaveStores

LEMMA StepMain ==
  ASSUME Servers # {}, AtoiClosed, TypeInv, MainInv, [NetNext]_allVars
  PROVE  MainInv'
<1>0. /\ server \in Servers /\ proc \in [Servers -> Phases]
      /\ ret \in [Servers -> UInt64 \cup {Undefined}]
      /\ NetTypeOK /\ AppInv /\ CallInv
  BY ServerExists DEF TypeInv, TypeOK, MainInv
<1>1. ASSUME NEW c \in Clients, ClientActs(c)
      PROVE  MainInv'
  BY <1>0, <1>1, ClientTypes, MainUnchanged DEF MainInv
<1>2. CASE AppStarts
  <2>1. /\ app = "down" /\ app' = "boot" /\ proc'[server] = "load"
        /\ UNCHANGED <<result, request, accepted, backlog, conn, inbox, outbox, client, granted>>
    BY <1>0, <1>2 DEF AppStarts, InitManagerSize
  <2>2. NetTypeOK'
    BY <1>0, <2>1 DEF NetTypeOK, AppPhases
  <2>3. AppInv' /\ CallInv'
    BY <1>0, <2>1 DEF AppInv, CallInv
  <2> QED
    BY <2>2, <2>3 DEF MainInv
<1>3. CASE AppListens \/ AppAcceptFails
  <2>1. /\ app' \in {"accept", "deaf", "spin"} /\ app \in {"boot", "accept"}
        /\ proc'[server] \in {"idle", "orphan"}
        /\ result' \in {PROCESS_SUCCESS, ACCOUNT_SET_FAIL}
        /\ UNCHANGED <<request, accepted, backlog, conn, inbox, outbox, client, granted>>
    BY <1>0, <1>3 DEF AppListens, AppAcceptFails, AppInv, vars, NetTypeOK
  <2>2. NetTypeOK'
    BY <1>0, <2>1 DEF NetTypeOK, AppPhases
  <2>3. AppInv' /\ CallInv'
    BY <1>0, <2>1 DEF AppInv, CallInv
  <2> QED
    BY <2>2, <2>3 DEF MainInv
<1>4. CASE AppAccepts
  <2>1. backlog \in Seq(Clients) /\ backlog # <<>>
    BY <1>0, <1>4 DEF AppAccepts, NetTypeOK
  <2>2. Head(backlog) \in Clients /\ Tail(backlog) \in Seq(Clients)
    BY <2>1, HeadTailProperties
  <2>3. NetTypeOK'
    BY <1>0, <1>4, <2>2 DEF AppAccepts, NetTypeOK, AppPhases
  <2>4. AppInv' /\ CallInv'
    BY <1>0, <1>4, <2>2 DEF AppAccepts, AppInv, CallInv, vars
  <2> QED
    BY <2>3, <2>4 DEF MainInv
<1>5. CASE AppReceives
  <2>1. /\ app = "recv" /\ app' = "call" /\ accepted \in Clients
        /\ inbox[accepted] \in Messages /\ AppCalls(inbox[accepted])
        /\ request' = inbox[accepted]
        /\ inbox' = [inbox EXCEPT ![accepted] = None]
        /\ granted' = (account_list' # account_list)
        /\ UNCHANGED <<result, accepted, backlog, conn, outbox, client>>
    BY <1>0, <1>5 DEF AppReceives, AppInv
  <2>2. NetTypeOK'
    BY <1>0, <2>1 DEF NetTypeOK, AppPhases
  <2>3. CASE inbox[accepted].op = "login"
    <3>1. LoginCall' /\ proc'[server] \in {"idle", "store", "orphan"}
      BY <2>1, <2>3, CallLogin
    <3> QED
      BY <2>1, <2>2, <2>3, <3>1 DEF MainInv, AppInv, CallInv
  <2>4. CASE inbox[accepted].op # "login"
    <3>1. MoneyCall' /\ proc'[server] \in {"idle", "store", "orphan"}
      BY <2>1, <2>4, CallMoney
    <3> QED
      BY <2>1, <2>2, <2>4, <3>1 DEF MainInv, AppInv, CallInv
  <2> QED
    BY <2>3, <2>4
<1>6. CASE AppIgnores
  <2>1. NetTypeOK'
    BY <1>0, <1>6 DEF AppIgnores, NetTypeOK
  <2> QED
    BY <1>0, <1>6, <2>1, MainUnchanged DEF AppIgnores, MainInv
<1>7. CASE AppAnswersLogin \/ AppAnswersDeposit \/ AppAnswersWithdraw
  <2>1. PICK reply \in Replies : Answer(reply)
    BY <1>7, AppAnswers
  <2>2. NetTypeOK'
    BY <1>0, <2>1 DEF Answer, Writes, NetTypeOK, AppPhases
  <2>3. AppInv' /\ CallInv'
    BY <1>0, <2>1 DEF Answer, Writes, AppInv, CallInv
  <2> QED
    BY <2>2, <2>3 DEF MainInv
<1>8. CASE EnclaveLoads
  <2>1. /\ proc[server] = "load" /\ proc'[server] \in {"idle", "orphan"}
        /\ UNCHANGED netVars /\ UNCHANGED client
    BY <1>0, <1>8 DEF EnclaveLoads, InitManagerLoad
  <2>2. NetTypeOK'
    BY <1>0, <2>1 DEF NetTypeOK, netVars
  <2>3. AppInv' /\ CallInv'
    BY <1>0, <2>1 DEF AppInv, CallInv, netVars
  <2> QED
    BY <2>2, <2>3 DEF MainInv
<1>9. CASE EnclaveStores
  BY <1>9, StoreMain
<1>10. CASE EnclaveIsLost
  <2>1. /\ proc[server] \in {"load", "idle", "store"} /\ proc'[server] = "orphan"
        /\ UNCHANGED <<netVars, client, ret>>
    BY <1>0, <1>10 DEF EnclaveIsLost, EnclaveLost
  <2>2. NetTypeOK'
    BY <1>0, <2>1 DEF NetTypeOK, netVars
  <2>3. AppInv' /\ CallInv'
    BY <1>0, <2>1 DEF AppInv, CallInv, LoginCall, MoneyCall, netVars
  <2> QED
    BY <2>2, <2>3 DEF MainInv
<1>11. CASE AppDies \/ AppDiesStoring
  <2>1. Disconnects
    BY <1>11 DEF AppDies, AppDiesStoring
  <2>2. conn' \in [Clients -> ConnStates]
    BY <1>0, <2>1 DEF Disconnects, NetTypeOK, ConnStates
  <2>3. NetTypeOK'
    BY <1>0, <2>1, <2>2, EmptySeq DEF Disconnects, NetTypeOK, AppPhases
  <2>4. AppInv' /\ CallInv'
    BY <2>1 DEF Disconnects, AppInv, CallInv
  <2> QED
    BY <2>3, <2>4 DEF MainInv
<1>12. CASE UNCHANGED allVars
  <2>1. NetTypeOK'
    BY <1>0, <1>12 DEF NetTypeOK, allVars, netVars
  <2> QED
    BY <1>0, <1>12, <2>1, MainUnchanged DEF MainInv, allVars, netVars
<1> QED
  BY <1>1, <1>2, <1>3, <1>4, <1>5, <1>6, <1>7, <1>8, <1>9, <1>10, <1>11, <1>12
     DEF NetNext, ServerRuns

-----------------------------------------------------------------------------
(* The second layer: the lines to the clients and their screens *)

LEMMA InitLines == NetInit /\ Servers # {} => LinesInv
<1> SUFFICES ASSUME NetInit, Servers # {}, NEW c \in Clients
             PROVE  LineInv(c) /\ ScreenInv(c)
  BY DEF LinesInv
<1>1. /\ client[c] = NewClient("off", 0) /\ conn[c] = "none"
      /\ inbox[c] = None /\ outbox[c] = None
      /\ backlog = <<>> /\ accepted = None /\ app = "down"
  BY DEF NetInit
<1>2. /\ client[c].at = "off" /\ ~client[c].deposit_print /\ ~client[c].fresh
      /\ client[c].send_info.op = "garbage"
  BY <1>1 DEF NewClient, Garbage
<1>3. \A i \in DOMAIN backlog : backlog[i] # c
  BY <1>1
<1>4. LineInv(c)
  BY <1>1, <1>2, <1>3, NoneAssumption DEF LineInv, InCall
<1>5. ScreenInv(c)
  BY <1>2 DEF ScreenInv
<1> QED
  BY <1>4, <1>5

\* A client nothing happens to.
LEMMA LineKept ==
  ASSUME NEW c \in Clients, LineInv(c), ScreenInv(c),
         UNCHANGED <<app, accepted, request, client[c], conn[c], inbox[c], outbox[c]>>,
         client[c].at = "off" => \A i \in DOMAIN backlog' : backlog'[i] # c
  PROVE  LineInv(c)' /\ ScreenInv(c)'
<1>1. LineInv(c)'
  BY DEF LineInv, InCall
<1>2. ScreenInv(c)'
  BY DEF ScreenInv
<1> QED
  BY <1>1, <1>2

\* A client that has left, or has just come.
LEMMA LineNew ==
  ASSUME NEW c \in Clients, NEW at \in {"menu", "gone"}, NEW noise \in UInt64,
         client'[c] = NewClient(at, noise),
         conn'[c] # "open" \/ at # "gone", ~InCall(c)',
         at = "menu" => inbox'[c] = None /\ outbox'[c] = None
  PROVE  LineInv(c)' /\ ScreenInv(c)'
<1>1. /\ client'[c].at = at /\ ~client'[c].deposit_print /\ ~client'[c].fresh
      /\ client'[c].send_info.op = "garbage"
  BY DEF NewClient, Garbage
<1>2. LineInv(c)'
  BY <1>1 DEF LineInv
<1>3. ScreenInv(c)'
  BY <1>1 DEF ScreenInv
<1> QED
  BY <1>2, <1>3

LEMMA LineSends ==
  ASSUME MainInv, LinesInv, NEW c \in Clients, NEW k \in Client,
         Choice(c, k), Sends(c, k)
  PROVE  LineInv(c)' /\ ScreenInv(c)'
<1>0. /\ client \in [Clients -> Client] /\ conn \in [Clients -> ConnStates]
      /\ inbox \in [Clients -> Messages \cup {Garbage, None}]
      /\ LineInv(c) /\ ScreenInv(c)
  BY DEF MainInv, NetTypeOK, LinesInv
<1>1. /\ client[c].at = "menu" /\ inbox[c] = None /\ outbox[c] = None /\ ~InCall(c)
      /\ UNCHANGED <<app, accepted, request, backlog, outbox>>
  BY <1>0 DEF Choice, LineInv, Sends
<1>2. k.send_info \in Messages \cup {Garbage} /\ k.send_info # None
  BY NoneAssumption DEF Client
<1>3. /\ k.deposit_print => k.send_info.op \in {"deposit", "withdraw"}
      /\ k.send_info.op = "login" => k.typed = k.send_info
      /\ ~k.fresh
  BY <1>0 DEF Choice, ScreenInv
<1>4. ASSUME NEW at \in {"menu", "wait"}, client'[c] = [k EXCEPT !.at = at]
      PROVE  /\ client'[c].at = at /\ client'[c].send_info = k.send_info
             /\ ScreenInv(c)'
  <2>1. /\ client'[c].at = at /\ client'[c].send_info = k.send_info
        /\ client'[c].typed = k.typed /\ client'[c].fresh = k.fresh
        /\ client'[c].deposit_print = k.deposit_print
    BY <1>4 DEF Client
  <2> QED
    BY <1>3, <2>1 DEF ScreenInv
<1>5. CASE /\ conn[c] = "open" /\ UNCHANGED conn
           /\ client' = [client EXCEPT ![c] = [k EXCEPT !.at = "wait"]]
           /\ inbox' = [inbox EXCEPT ![c] = k.send_info]
  <2>1. /\ client'[c] = [k EXCEPT !.at = "wait"] /\ inbox'[c] = k.send_info
        /\ outbox'[c] = None /\ conn'[c] = "open"
    BY <1>0, <1>1, <1>5
  <2>2. client'[c].at = "wait" /\ client'[c].send_info = k.send_info /\ ScreenInv(c)'
    BY <1>4, <2>1
  <2>3. ~InCall(c)'
    BY <1>1, <1>5 DEF InCall
  <2>4. LineInv(c)'
    BY <2>1, <2>2, <2>3 DEF LineInv
  <2> QED
    BY <2>2, <2>4
<1>6. ASSUME NEW at \in {"menu", "wait"}, conn[c] = "dead", UNCHANGED inbox,
             client' = [client EXCEPT ![c] = [k EXCEPT !.at = at]],
             conn' = [conn EXCEPT ![c] = "reset"]
      PROVE  LineInv(c)' /\ ScreenInv(c)'
  <2>1. /\ client'[c] = [k EXCEPT !.at = at] /\ inbox'[c] = None
        /\ outbox'[c] = None /\ conn'[c] = "reset"
    BY <1>0, <1>1, <1>6
  <2>2. client'[c].at = at /\ ScreenInv(c)'
    BY <1>4, <2>1
  <2>3. ~InCall(c)'
    BY <2>1 DEF InCall
  <2>4. LineInv(c)'
    BY <2>1, <2>2, <2>3 DEF LineInv
  <2> QED
    BY <2>2, <2>4
<1>7. CASE /\ client' = [client EXCEPT ![c] = NewClient("gone", 0)]
           /\ conn' = [conn EXCEPT ![c] = "none"]
  <2>1. client'[c] = NewClient("gone", 0) /\ conn'[c] = "none" /\ 0 \in UInt64
    BY <1>0, <1>7, UInt64Facts DEF UInt64
  <2>2. ~InCall(c)'
    BY <2>1 DEF InCall
  <2> QED
    BY <2>1, <2>2, LineNew
<1> QED
  BY <1>5, <1>6, <1>7 DEF Sends

LEMMA LineReceives ==
  ASSUME MainInv, LinesInv, NEW c \in Clients, ClientReceives(c)
  PROVE  LineInv(c)' /\ ScreenInv(c)'
<1>0. /\ client \in [Clients -> Client] /\ outbox \in [Clients -> Replies \cup {None}]
      /\ LineInv(c) /\ ScreenInv(c)
  BY DEF MainInv, NetTypeOK, LinesInv
<1>1. PICK data \in Replies, k \in Client :
        Received(c, data, k) /\ client' = [client EXCEPT ![c] = k]
  BY ClientReceived DEF MainInv
<1>2. /\ client[c].at = "wait" /\ client'[c] = k /\ outbox'[c] = None
      /\ UNCHANGED <<app, accepted, request, backlog, conn, inbox>>
      /\ outbox[c] # None \/ conn[c] \in {"dead", "reset"}
  BY <1>0, <1>1 DEF ClientReceives
<1>3. inbox[c] = None /\ ~InCall(c)
  BY <1>0, <1>2 DEF LineInv, InCall
<1>4. /\ k.at = "menu" /\ k.send_info = client[c].send_info
      /\ k.typed = client[c].typed /\ k.deposit_print = client[c].deposit_print
      /\ k.receive_data = data
      /\ k.fresh => outbox[c] # None /\ data = outbox[c]
  BY <1>1 DEF Received
<1>5. LineInv(c)'
  BY <1>0, <1>2, <1>3, <1>4 DEF LineInv, InCall
<1>6. k.fresh /\ data.kind = "login" => ~k.deposit_print
  BY <1>0, <1>2, <1>4 DEF LineInv, ScreenInv
<1>7. ScreenInv(c)'
  BY <1>0, <1>1, <1>2, <1>4, <1>6 DEF ScreenInv, Received
<1> QED
  BY <1>5, <1>7

\* A client's step does nothing to another client.
LEMMA OtherClients ==
  ASSUME NetTypeOK, NEW c \in Clients, ClientActs(c), NEW d \in Clients, d # c
  PROVE  /\ UNCHANGED <<client[d], conn[d], inbox[d], outbox[d]>>
         /\ (\A i \in DOMAIN backlog : backlog[i] # d)
              => \A i \in DOMAIN backlog' : backlog'[i] # d
<1>0. /\ client \in [Clients -> Client] /\ conn \in [Clients -> ConnStates]
      /\ inbox \in [Clients -> Messages \cup {Garbage, None}]
      /\ outbox \in [Clients -> Replies \cup {None}]
      /\ backlog \in Seq(Clients)
  BY DEF NetTypeOK
<1>1. CASE ClientConnects(c)
  <2>1. /\ Append(backlog, c) \in Seq(Clients)
        /\ Len(Append(backlog, c)) = Len(backlog) + 1
        /\ \A i \in 1 .. Len(backlog) : Append(backlog, c)[i] = backlog[i]
        /\ Append(backlog, c)[Len(backlog) + 1] = c
        /\ Len(backlog) \in Nat
    BY <1>0, AppendProperties, LenProperties
  <2>2. DOMAIN Append(backlog, c) = 1 .. Len(backlog) + 1
        /\ DOMAIN backlog = 1 .. Len(backlog)
    BY <1>0, <2>1, LenProperties
  <2>3. ASSUME NEW i \in DOMAIN Append(backlog, c),
               \A j \in DOMAIN backlog : backlog[j] # d
        PROVE  Append(backlog, c)[i] # d
    BY <2>1, <2>2, <2>3
  <2>4. backlog' = Append(backlog, c) \/ backlog' = backlog
    BY <1>1 DEF ClientConnects
  <2>5. UNCHANGED <<client[d], conn[d], inbox[d], outbox[d]>>
    BY <1>0, <1>1 DEF ClientConnects
  <2> QED
    BY <2>3, <2>4, <2>5
<1>2. CASE ClientLogsIn(c) \/ ClientMovesMoney(c) \/ ClientResends(c)
  <2>1. PICK k \in Client : Sends(c, k)
    BY <1>2, ClientChoice
  <2> QED
    BY <1>0, <2>1 DEF Sends
<1>3. CASE ClientQuits(c) \/ ClientReceives(c)
  BY <1>0, <1>3 DEF ClientQuits, ClientReceives
<1> QED
  BY <1>1, <1>2, <1>3 DEF ClientActs

LEMMA LineClient ==
  ASSUME MainInv, LinesInv, NEW c \in Clients, ClientActs(c)
  PROVE  LineInv(c)' /\ ScreenInv(c)'
<1>0. /\ client \in [Clients -> Client] /\ conn \in [Clients -> ConnStates]
      /\ outbox \in [Clients -> Replies \cup {None}]
      /\ LineInv(c) /\ ScreenInv(c) /\ 0 \in UInt64
  BY UInt64Facts DEF MainInv, NetTypeOK, LinesInv, UInt64
<1>1. CASE ClientConnects(c)
  <2>1. PICK noise \in Noise : client' = [client EXCEPT ![c] = NewClient("menu", noise)]
    BY <1>1 DEF ClientConnects
  <2>2. client'[c] = NewClient("menu", noise) /\ noise \in UInt64
    BY <1>0, <2>1, NetBankAssumption
  <2>3. client[c].at = "off" /\ UNCHANGED <<app, accepted, inbox, outbox>>
    BY <1>1 DEF ClientConnects
  <2>4. accepted # c /\ inbox[c] = None /\ outbox[c] = None
    BY <1>0, <2>3 DEF LineInv
  <2>5. ~InCall(c)'
    BY <2>3, <2>4 DEF InCall
  <2> QED
    BY <2>2, <2>3, <2>4, <2>5, LineNew
<1>2. CASE ClientLogsIn(c) \/ ClientMovesMoney(c) \/ ClientResends(c)
  BY <1>2, ClientChoice, LineSends DEF MainInv
<1>3. CASE ClientQuits(c)
  <2>1. client'[c] = NewClient("gone", 0) /\ conn'[c] = "none"
    BY <1>0, <1>3 DEF ClientQuits
  <2>2. ~InCall(c)'
    BY <2>1 DEF InCall
  <2> QED
    BY <1>0, <2>1, <2>2, LineNew
<1>4. CASE ClientReceives(c)
  BY <1>4, LineReceives
<1> QED
  BY <1>1, <1>2, <1>3, <1>4 DEF ClientActs

LEMMA StepLines ==
  ASSUME Servers # {}, AtoiClosed, TypeInv, MainInv, LinesInv, [NetNext]_allVars
  PROVE  LinesInv'
<1>0. /\ NetTypeOK /\ AppInv /\ CallInv
      /\ conn \in [Clients -> ConnStates]
      /\ inbox \in [Clients -> Messages \cup {Garbage, None}]
      /\ outbox \in [Clients -> Replies \cup {None}]
      /\ backlog \in Seq(Clients)
  BY DEF MainInv, NetTypeOK
<1> SUFFICES ASSUME NEW d \in Clients PROVE LineInv(d)' /\ ScreenInv(d)'
  BY DEF LinesInv
<1>00. LineInv(d) /\ ScreenInv(d)
  BY DEF LinesInv
<1>1. ASSUME NEW c \in Clients, ClientActs(c)
      PROVE  LineInv(d)' /\ ScreenInv(d)'
  <2>1. CASE c = d
    BY <1>1, <2>1, LineClient
  <2>2. CASE c # d
    <3>1. UNCHANGED <<app, accepted, request>>
      BY <1>0, <1>1, ClientTypes
    <3>2. UNCHANGED <<client[d], conn[d], inbox[d], outbox[d]>>
      BY <1>0, <1>1, <2>2, OtherClients
    <3>3. client[d].at = "off" => \A i \in DOMAIN backlog' : backlog'[i] # d
      BY <1>0, <1>00, <1>1, <2>2, OtherClients DEF LineInv
    <3> QED
      BY <1>00, <3>1, <3>2, <3>3, LineKept
  <2> QED
    BY <2>1, <2>2
<1>2. CASE UNCHANGED <<app, accepted, request, client, conn, inbox, outbox, backlog>>
  BY <1>00, <1>2, LineKept DEF LineInv
<1>3. CASE /\ app # "call" /\ app' # "call"
           /\ UNCHANGED <<accepted, client, conn, inbox, outbox, backlog>>
  <2>1. LineInv(d)'
    BY <1>00, <1>3 DEF LineInv, InCall
  <2>2. ScreenInv(d)'
    BY <1>00, <1>3 DEF ScreenInv
  <2> QED
    BY <2>1, <2>2
<1>4. CASE AppAccepts
  <2>1. /\ backlog # <<>> /\ app' = "recv" /\ accepted' = Head(backlog)
        /\ backlog' = Tail(backlog) /\ UNCHANGED <<client, conn, inbox, outbox>>
        /\ ~InCall(d)' /\ app = "accept"
    BY <1>4 DEF AppAccepts, InCall
  <2>2. /\ Head(backlog) = backlog[1] /\ 1 \in DOMAIN backlog
        /\ \A i \in DOMAIN Tail(backlog) :
             i + 1 \in DOMAIN backlog /\ Tail(backlog)[i] = backlog[i + 1]
    BY <1>0, <2>1, HeadTailProperties, LenProperties
  <2>3. client[d].at = "off" =>
          accepted' # d /\ \A i \in DOMAIN backlog' : backlog'[i] # d
    BY <1>00, <2>1, <2>2 DEF LineInv
  <2>4. LineInv(d)'
    BY <1>00, <2>1, <2>3 DEF LineInv
  <2>5. ScreenInv(d)'
    BY <1>00, <2>1 DEF ScreenInv
  <2> QED
    BY <2>4, <2>5
<1>5. CASE AppReceives
  <2>1. /\ app = "recv" /\ app' = "call" /\ accepted \in Clients
        /\ inbox[accepted] \in Messages /\ request' = inbox[accepted]
        /\ inbox' = [inbox EXCEPT ![accepted] = None]
        /\ UNCHANGED <<accepted, backlog, conn, outbox, client>>
    BY <1>0, <1>5 DEF AppReceives, AppInv
  <2>2. ~InCall(d) /\ inbox[accepted] # None
    BY <2>1, NoneAssumption DEF InCall
  <2>3. CASE accepted = d
    <3>1. inbox'[d] = None
      BY <1>0, <2>1, <2>3
    <3>2. LineInv(d)'
      BY <1>00, <2>1, <2>2, <2>3, <3>1 DEF LineInv, InCall
    <3> QED
      BY <1>00, <2>1, <3>2 DEF ScreenInv
  <2>4. CASE accepted # d
    <3>1. inbox'[d] = inbox[d] /\ ~InCall(d)'
      BY <1>0, <2>1, <2>4 DEF InCall
    <3>2. LineInv(d)'
      BY <1>00, <2>1, <2>2, <2>4, <3>1 DEF LineInv
    <3> QED
      BY <1>00, <2>1, <3>2 DEF ScreenInv
  <2> QED
    BY <2>3, <2>4
<1>6. CASE AppIgnores
  <2>1. /\ app = "recv" /\ inbox' = [inbox EXCEPT ![accepted] = None]
        /\ UNCHANGED <<app, request, accepted, backlog, conn, outbox, client>>
    BY <1>6 DEF AppIgnores
  <2>2. inbox'[d] \in {inbox[d], None} /\ ~InCall(d) /\ ~InCall(d)'
    BY <1>0, <2>1 DEF InCall
  <2>3. LineInv(d)'
    BY <1>00, <2>1, <2>2 DEF LineInv
  <2> QED
    BY <1>00, <2>1, <2>3 DEF ScreenInv
<1>7. CASE AppAnswersLogin \/ AppAnswersDeposit \/ AppAnswersWithdraw
  <2>1. PICK reply \in Replies : Answer(reply)
    BY <1>7, AppAnswers
  <2>2. /\ app = "call" /\ app' = "recv" /\ ~InCall(d)' /\ accepted \in Clients
        /\ reply.kind \in {"login", "fail"} <=> request.op = "login"
        /\ outbox' = IF conn[accepted] = "open"
                     THEN [outbox EXCEPT ![accepted] = reply] ELSE outbox
        /\ UNCHANGED <<accepted, backlog, conn, inbox, client>>
    BY <1>0, <2>1 DEF Answer, Writes, InCall, AppInv
  <2>3. CASE InCall(d)
    <3>1. outbox'[d] = reply
      BY <1>0, <2>2, <2>3 DEF InCall
    <3>2. LineInv(d)'
      BY <1>00, <2>2, <2>3, <3>1 DEF LineInv
    <3> QED
      BY <1>00, <2>2, <3>2 DEF ScreenInv
  <2>4. CASE ~InCall(d)
    <3>1. outbox'[d] = outbox[d]
      BY <1>0, <2>2, <2>4 DEF InCall
    <3>2. LineInv(d)'
      BY <1>00, <2>2, <2>4, <3>1 DEF LineInv
    <3> QED
      BY <1>00, <2>2, <3>2 DEF ScreenInv
  <2> QED
    BY <2>3, <2>4
<1>8. CASE AppDies \/ AppDiesStoring
  <2>1. /\ app' = "down" /\ accepted' = None /\ backlog' = <<>>
        /\ conn' = [c \in Clients |-> IF conn[c] = "open" THEN "dead" ELSE conn[c]]
        /\ inbox' = [c \in Clients |-> None]
        /\ UNCHANGED <<outbox, client>>
    BY <1>8 DEF AppDies, AppDiesStoring, Disconnects
  <2>2. /\ conn'[d] = IF conn[d] = "open" THEN "dead" ELSE conn[d]
        /\ inbox'[d] = None /\ ~InCall(d)' /\ accepted' # d
    BY <2>1, NoneAssumption DEF InCall
  <2>3. LineInv(d)'
    BY <1>00, <2>1, <2>2 DEF LineInv
  <2> QED
    BY <1>00, <2>1, <2>3 DEF ScreenInv
<1>9. CASE AppStarts \/ AppListens \/ AppAcceptFails
  BY <1>3, <1>9 DEF AppStarts, AppListens, AppAcceptFails
<1>10. CASE EnclaveLoads \/ EnclaveStores \/ EnclaveIsLost \/ UNCHANGED allVars
  BY <1>2, <1>10 DEF EnclaveLoads, EnclaveStores, EnclaveIsLost, allVars, netVars
<1> QED
  BY <1>1, <1>4, <1>5, <1>6, <1>7, <1>8, <1>9, <1>10 DEF NetNext, ServerRuns

-----------------------------------------------------------------------------
(* The third layer: what a client is told, and the account *)

LEMMA InitTalks == NetInit => TalksInv
BY DEF NetInit, TalksInv, TalkInv

\* A client nothing happens to, whose account stays as it is.
LEMMA TalkKept ==
  ASSUME NEW c \in Clients, TalkInv(c),
         UNCHANGED <<app, accepted, request, granted>>,
         UNCHANGED <<client[c], conn[c], inbox[c], outbox[c]>>,
         UNCHANGED <<proc[server], account_list[server], current_account[server]>>
  PROVE  TalkInv(c)'
<1>1. Unserved(c) => Unserved(c)'
  BY DEF Unserved
<1>2. Session(c)' = Session(c) /\ Settled(c)' = Settled(c)
      /\ AccountLogin(server)' = AccountLogin(server) /\ Balance' = Balance
  BY DEF Session, Settled, AccountLogin, Current, Balance
<1>3. Quiet(c) => Quiet(c)'
  BY <1>2 DEF Quiet, Truthful
<1>4. Replied(c) => Replied(c)'
  BY <1>2 DEF Replied, Truthful
<1>5. Handled(c) => Handled(c)'
  BY <1>2 DEF Handled
<1> QED
  BY <1>1, <1>3, <1>4, <1>5 DEF TalkInv

LEMMA TalkUnserved ==
  ASSUME NEW c \in Clients, Unserved(c)', accepted' # c
  PROVE  TalkInv(c)'
BY DEF TalkInv

LEMMA TalkSends ==
  ASSUME MainInv, LinesInv, TalksInv, NEW c \in Clients, NEW k \in Client,
         Choice(c, k), Sends(c, k)
  PROVE  TalkInv(c)'
<1>0. /\ client \in [Clients -> Client] /\ conn \in [Clients -> ConnStates]
      /\ inbox \in [Clients -> Messages \cup {Garbage, None}]
      /\ LineInv(c) /\ TalkInv(c)
  BY DEF MainInv, NetTypeOK, LinesInv, TalksInv
<1>1. /\ client[c].at = "menu" /\ inbox[c] = None /\ outbox[c] = None /\ ~InCall(c)
      /\ UNCHANGED <<app, accepted, request, outbox, granted>>
      /\ UNCHANGED <<proc, account_list, current_account>>
  BY <1>0 DEF Choice, LineInv, Sends, vars
<1>2. CASE conn'[c] # "open"
  BY <1>2 DEF TalkInv
<1>3. CASE conn'[c] = "open"
  <2>1. /\ conn[c] = "open" /\ client'[c] = [k EXCEPT !.at = "wait"]
        /\ inbox'[c] = k.send_info
    BY <1>0, <1>3 DEF Sends
  <2>2. /\ client'[c].at = "wait" /\ client'[c].send_info = k.send_info
        /\ client'[c].typed = k.typed /\ client'[c].fresh = k.fresh
        /\ client'[c].login = k.login /\ client'[c].settled = k.settled
        /\ client'[c].pre_amount = k.pre_amount
    BY <2>1 DEF Client
  <2>3. /\ k.settled = client[c].settled /\ k.pre_amount = client[c].pre_amount
        /\ ~k.fresh
        /\ k.send_info.op = "login"
             \/ (k.typed = client[c].typed /\ k.login = client[c].login)
    BY DEF Choice
  <2>4. inbox'[c] # None
    BY <2>1, NoneAssumption DEF Client
  <2>5. CASE accepted # c
    <3>1. Unserved(c)
      BY <1>0, <2>1, <2>5 DEF TalkInv
    <3>2. Unserved(c)'
      BY <1>1, <2>1, <2>2, <2>3, <3>1 DEF Unserved
    <3> QED
      BY <1>1, <2>5, <3>2, TalkUnserved
  <2>6. CASE accepted = c /\ app = "recv" /\ proc[server] = "idle"
    <3>1. Quiet(c)
      BY <1>0, <1>1, <2>1, <2>6 DEF TalkInv
    <3>2. client'[c].login => Session(c)' \/ k.send_info.op = "login"
      <4>1. k.login /\ k.send_info.op # "login" => Session(c)
        BY <1>1, <2>3, <3>1 DEF Quiet
      <4> QED
        BY <1>1, <2>2, <2>3, <4>1 DEF Session, AccountLogin, Current
    <3>3. client'[c].settled => Settled(c)'
      BY <1>1, <2>2, <2>3, <3>1
         DEF Quiet, Settled, AccountLogin, Current, Balance
    <3>4. Quiet(c)'
      BY <2>2, <2>4, <3>2, <3>3 DEF Quiet
    <3> QED
      BY <1>1, <2>6, <3>4 DEF TalkInv
  <2>7. CASE accepted = c /\ ~(app = "recv" /\ proc[server] = "idle")
    BY <1>1, <2>1, <2>7 DEF TalkInv, InCall
  <2> QED
    BY <2>5, <2>6, <2>7
<1> QED
  BY <1>2, <1>3

LEMMA TalkReceives ==
  ASSUME MainInv, LinesInv, TalksInv, NEW c \in Clients, ClientReceives(c)
  PROVE  TalkInv(c)'
<1>0. /\ client \in [Clients -> Client] /\ outbox \in [Clients -> Replies \cup {None}]
      /\ LineInv(c) /\ ScreenInv(c) /\ TalkInv(c) /\ AppInv
  BY DEF MainInv, NetTypeOK, LinesInv, TalksInv
<1>1. PICK data \in Replies, k \in Client :
        Received(c, data, k) /\ client' = [client EXCEPT ![c] = k]
  BY ClientReceived DEF MainInv
<1>2. /\ client[c].at = "wait" /\ client'[c] = k /\ outbox'[c] = None
      /\ UNCHANGED <<app, accepted, request, conn, inbox, granted>>
      /\ UNCHANGED <<proc, account_list, current_account>>
      /\ outbox[c] # None \/ conn[c] \in {"dead", "reset"}
  BY <1>0, <1>1 DEF ClientReceives, vars
<1>3. CASE conn[c] # "open"
  BY <1>2, <1>3 DEF TalkInv
<1>4. CASE conn[c] = "open"
  <2>1. outbox[c] # None /\ inbox[c] = None /\ ~InCall(c) /\ accepted = c
    BY <1>0, <1>2, <1>4 DEF LineInv, TalkInv, Unserved
  <2>2. app # "call"
    BY <1>4, <2>1 DEF InCall
  <2>3. CASE app = "recv" /\ proc[server] = "idle"
    <3>1. Replied(c)
      BY <1>0, <1>4, <2>1, <2>3 DEF TalkInv
    <3>2. /\ k.at = "menu" /\ k.send_info = client[c].send_info
          /\ k.typed = client[c].typed /\ k.deposit_print = client[c].deposit_print
          /\ k.receive_data = data /\ data = outbox[c]
          /\ k.settled = Settles(client[c], data)
          /\ k.login => client[c].login
      BY <1>1, <2>1 DEF Received
    <3>3. k.login => Session(c)'
      <4>1. data.kind = "fail" => ~k.login
        <5>1. data.kind = "fail" => client[c].send_info.op = "login"
          BY <1>0, <1>2, <2>1, <3>2 DEF LineInv
        <5>2. data.kind = "fail" => ~k.deposit_print
          BY <1>0, <3>2, <5>1 DEF ScreenInv
        <5> QED
          BY <1>1, <5>2 DEF Received
      <4>2. k.login => Session(c)
        BY <3>1, <3>2, <4>1 DEF Replied
      <4> QED
        BY <1>2, <3>2, <4>2 DEF Session, AccountLogin, Current
    <3>4. k.settled => Settled(c)'
      <4>1. CASE data.kind = "balance" /\ client[c].deposit_print
        <5>1. k.pre_amount = Atoi(data.value)
          BY <1>1, <3>2, <4>1 DEF Received
        <5>2. AccountLogin(server) => data.value = Balance
          BY <3>1, <3>2, <4>1 DEF Replied, Truthful
        <5> QED
          BY <1>2, <5>1, <5>2 DEF Settled, AccountLogin, Current, Balance
      <4>2. CASE data.kind = "toobig" /\ client[c].settled /\ ~granted
        <5>1. k.pre_amount = client[c].pre_amount
          BY <1>1, <4>2 DEF Received
        <5>2. Settled(c)
          BY <3>1, <3>2, <4>2 DEF Replied
        <5> QED
          BY <1>2, <5>1, <5>2 DEF Settled, AccountLogin, Current, Balance
      <4> QED
        BY <3>2, <4>1, <4>2 DEF Settles
    <3>5. Truthful(c, data)'
      BY <1>2, <3>1, <3>2 DEF Replied, Truthful, AccountLogin, Current, Balance
    <3>6. Quiet(c)'
      BY <1>2, <3>2, <3>3, <3>4, <3>5 DEF Quiet, Truthful
    <3> QED
      BY <1>2, <2>1, <2>2, <3>6 DEF TalkInv
  <2>4. CASE ~(app = "recv" /\ proc[server] = "idle")
    BY <1>2, <2>1, <2>2, <2>4 DEF TalkInv
  <2> QED
    BY <2>3, <2>4
<1> QED
  BY <1>3, <1>4

LEMMA TalkClient ==
  ASSUME MainInv, LinesInv, TalksInv, NEW c \in Clients, ClientActs(c)
  PROVE  TalkInv(c)'
<1>0. /\ client \in [Clients -> Client] /\ conn \in [Clients -> ConnStates]
      /\ LineInv(c)
  BY DEF MainInv, NetTypeOK, LinesInv
<1>1. CASE ClientConnects(c)
  <2>1. PICK noise \in Noise : client' = [client EXCEPT ![c] = NewClient("menu", noise)]
    BY <1>1 DEF ClientConnects
  <2>2. client'[c] = NewClient("menu", noise) /\ noise \in UInt64
    BY <1>0, <2>1, NetBankAssumption
  <2>3. client[c].at = "off" /\ UNCHANGED <<accepted, outbox>>
    BY <1>1 DEF ClientConnects
  <2>4. accepted' # c /\ outbox'[c] = None
    BY <1>0, <2>3 DEF LineInv
  <2>5. Unserved(c)'
    BY <2>2, <2>4, NewClientType DEF Unserved
  <2> QED
    BY <2>4, <2>5, TalkUnserved
<1>2. CASE ClientLogsIn(c) \/ ClientMovesMoney(c) \/ ClientResends(c)
  BY <1>2, ClientChoice, TalkSends DEF MainInv
<1>3. CASE ClientQuits(c)
  <2>1. conn'[c] = "none"
    BY <1>0, <1>3 DEF ClientQuits
  <2> QED
    BY <2>1 DEF TalkInv
<1>4. CASE ClientReceives(c)
  BY <1>4, TalkReceives
<1> QED
  BY <1>1, <1>2, <1>3, <1>4 DEF ClientActs

LEMMA TalkAccepts ==
  ASSUME MainInv, LinesInv, TalksInv, AppAccepts, NEW d \in Clients
  PROVE  TalkInv(d)'
<1>0. LineInv(d) /\ TalkInv(d) /\ AppInv
  BY DEF LinesInv, TalksInv, MainInv
<1>1. /\ app = "accept" /\ app' = "recv" /\ accepted = None
      /\ UNCHANGED <<conn, inbox, outbox, client, granted>>
      /\ UNCHANGED <<proc, account_list, current_account>>
  BY <1>0 DEF AppAccepts, AppInv, vars
<1>2. CASE conn[d] = "open"
  <2>1. Unserved(d) /\ client[d].at \in {"menu", "wait"}
    BY <1>0, <1>1, <1>2, NoneAssumption DEF TalkInv, LineInv
  <2>2. inbox[d] # None \/ client[d].at = "menu"
    <3>1. client \in [Clients -> Client]
      BY DEF MainInv, NetTypeOK
    <3>2. client[d].send_info # None
      BY <3>1, NoneAssumption DEF Client
    <3> QED
      BY <2>1, <3>2 DEF Unserved
  <2>3. Quiet(d)' /\ outbox'[d] = None
    BY <1>1, <2>1, <2>2 DEF Quiet, Unserved
  <2>4. Unserved(d)'
    BY <1>1, <2>1 DEF Unserved
  <2> QED
    BY <1>1, <2>3, <2>4 DEF TalkInv
<1>3. CASE conn[d] # "open"
  BY <1>1, <1>3 DEF TalkInv
<1> QED
  BY <1>2, <1>3

LEMMA TalkCalled ==
  ASSUME Servers # {}, AtoiClosed, TypeInv, MainInv, LinesInv, TalksInv,
         AppReceives, NEW d \in Clients
  PROVE  TalkInv(d)'
<1>0. /\ LineInv(d) /\ TalkInv(d) /\ AppInv
      /\ inbox \in [Clients -> Messages \cup {Garbage, None}]
  BY DEF LinesInv, TalksInv, MainInv, NetTypeOK
<1>1. /\ app = "recv" /\ app' = "call" /\ accepted \in Clients
      /\ inbox[accepted] \in Messages /\ AppCalls(inbox[accepted])
      /\ request' = inbox[accepted]
      /\ inbox' = [inbox EXCEPT ![accepted] = None]
      /\ granted' = (account_list' # account_list)
      /\ UNCHANGED <<accepted, conn, outbox, client>>
  BY <1>0 DEF AppReceives, AppInv
<1>2. CASE accepted # d
  <2>1. inbox'[d] = inbox[d]
    BY <1>0, <1>1, <1>2
  <2>2. Unserved(d) => Unserved(d)'
    BY <1>1, <2>1 DEF Unserved
  <2> QED
    BY <1>0, <1>1, <1>2, <2>2 DEF TalkInv
<1>3. CASE accepted = d /\ conn[d] = "open"
  <2> DEFINE m == inbox[d]
  <2>1. m \in Messages /\ m # None /\ AppCalls(m) /\ request' = m
    BY <1>1, <1>3, NoneAssumption
  <2>2. client[d].at # "gone" /\ outbox[d] = None /\ m = client[d].send_info
    BY <1>0, <1>3, <2>1 DEF LineInv
  <2>3. CASE m.op = "login"
    BY <1>1, <1>3, <2>1, <2>3 DEF TalkInv, Handled
  <2>4. CASE m.op # "login" /\ proc'[server] \in {"idle", "store"}
    <3> HIDE DEF m
    <3>1. /\ proc[server] = "idle" /\ UNCHANGED current_account
          /\ AccountLogin(server) =>
               /\ Current(server)'.name = Current(server).name
               /\ Current(server)'.password = Current(server).password
      <4>1. /\ proc[server] \in {"idle", "orphan"} /\ UNCHANGED current_account
            /\ AccountLogin(server) =>
                 /\ Current(server)'.name = Current(server).name
                 /\ Current(server)'.password = Current(server).password
        BY <1>1, <2>1, <2>4, CallMoney
      <4>2. proc[server] # "orphan"
        <5>1. proc[server] = "orphan" => UNCHANGED proc
          BY <2>1 DEF AppCalls, EcallFails, LoginExisting, OpenAccount, NeedLogout,
                      EcallMyDeposit, EcallMyWithdraw
        <5> QED
          BY <2>4, <5>1
      <4> QED
        BY <4>1, <4>2
    <3>2. Quiet(d)
      BY <1>0, <1>1, <1>3, <2>2, <3>1 DEF TalkInv
    <3>3. client[d].login => Session(d)
      BY <2>2, <2>4, <3>2 DEF Quiet
    <3>4. client'[d].login => Session(d)'
      BY <1>1, <3>1, <3>3 DEF Session, AccountLogin
    <3>5. client'[d].settled /\ ~granted' => Settled(d)'
      <4>1. SUFFICES ASSUME client'[d].settled, ~granted' PROVE Settled(d)'
        OBVIOUS
      <4>2. UNCHANGED <<account_list, current_account, client>>
        BY <1>1, <3>1, <4>1
      <4>3. Settled(d)
        BY <1>1, <3>2, <4>1 DEF Quiet
      <4> QED
        BY <4>2, <4>3 DEF Settled, AccountLogin, Current, Balance
    <3> QED
      BY <1>1, <1>3, <3>4, <3>5 DEF TalkInv, Handled
  <2>5. CASE proc'[server] \notin {"idle", "store"}
    BY <1>1, <1>3, <2>5 DEF TalkInv
  <2> QED
    BY <2>3, <2>4, <2>5
<1>4. CASE conn[d] # "open"
  BY <1>1, <1>4 DEF TalkInv
<1> QED
  BY <1>2, <1>3, <1>4

LEMMA TalkAnswered ==
  ASSUME MainInv, LinesInv, TalksInv, NEW d \in Clients,
         NEW reply \in Replies, Answer(reply)
  PROVE  TalkInv(d)'
<1>0. /\ LineInv(d) /\ ScreenInv(d) /\ TalkInv(d) /\ AppInv
      /\ outbox \in [Clients -> Replies \cup {None}]
  BY DEF LinesInv, TalksInv, MainInv, NetTypeOK
<1>1. /\ app = "call" /\ app' = "recv" /\ accepted \in Clients
      /\ outbox' = IF conn[accepted] = "open"
                   THEN [outbox EXCEPT ![accepted] = reply] ELSE outbox
      /\ UNCHANGED <<accepted, conn, inbox, client, granted>>
      /\ UNCHANGED <<proc, account_list, current_account>>
  BY <1>0 DEF Answer, Writes, AppInv
<1>2. CASE accepted # d
  <2>1. outbox'[d] = outbox[d]
    BY <1>0, <1>1, <1>2
  <2>2. Unserved(d) => Unserved(d)'
    BY <1>1, <2>1 DEF Unserved
  <2> QED
    BY <1>0, <1>1, <1>2, <2>2 DEF TalkInv
<1>3. CASE accepted = d /\ conn[d] = "open" /\ proc[server] = "idle"
  <2>1. outbox'[d] = reply /\ reply # None
    BY <1>0, <1>1, <1>3, NoneAssumption
  <2>2. request = client[d].send_info
    BY <1>0, <1>1, <1>3 DEF LineInv, InCall
  <2>3. Handled(d)
    BY <1>0, <1>1, <1>3 DEF TalkInv
  <2>4. Truthful(d, reply)
    BY <1>3, <2>2 DEF Answer, Truthful
  <2>5. client[d].login /\ reply.kind # "fail" => Session(d)
    <3>1. CASE request.op = "login" /\ reply.kind # "fail"
      <4>1. reply.kind = "login"
        BY <3>1 DEF Answer
      <4>2. /\ AccountLogin(server) /\ Current(server).name = request.name
            /\ Current(server).password = request.password
        BY <1>3, <4>1 DEF Answer
      <4>3. client[d].typed = request
        BY <1>0, <2>2, <3>1 DEF ScreenInv
      <4> QED
        BY <4>2, <4>3 DEF Session
    <3>2. CASE request.op # "login"
      BY <2>3, <3>2 DEF Handled
    <3> QED
      BY <3>1, <3>2
  <2>6. reply.kind = "toobig" /\ client[d].settled /\ ~granted => Settled(d)
    <3>1. reply.kind = "toobig" => request.op # "login"
      BY DEF Answer
    <3> QED
      BY <2>3, <3>1 DEF Handled
  <2>7. Replied(d)'
    BY <1>1, <2>1, <2>4, <2>5, <2>6
       DEF Replied, Truthful, Session, Settled, AccountLogin, Current, Balance
  <2> QED
    BY <1>1, <1>3, <2>1, <2>7 DEF TalkInv
<1>4. CASE conn[d] # "open" \/ (accepted = d /\ proc[server] # "idle")
  BY <1>1, <1>4 DEF TalkInv
<1> QED
  BY <1>2, <1>3, <1>4

LEMMA StepTalks ==
  ASSUME Servers # {}, AtoiClosed, TypeInv, MainInv, LinesInv, TalksInv,
         [NetNext]_allVars
  PROVE  TalksInv'
<1>0. /\ NetTypeOK /\ AppInv /\ server \in Servers /\ proc \in [Servers -> Phases]
  BY ServerExists DEF MainInv, TypeInv, TypeOK
<1> SUFFICES ASSUME NEW d \in Clients PROVE TalkInv(d)'
  BY DEF TalksInv
<1>00. TalkInv(d) /\ LineInv(d)
  BY DEF TalksInv, LinesInv
<1>1. ASSUME NEW c \in Clients, ClientActs(c)
      PROVE  TalkInv(d)'
  <2>1. CASE c = d
    BY <1>1, <2>1, TalkClient
  <2>2. CASE c # d
    <3>1. /\ UNCHANGED <<app, accepted, request, granted>>
          /\ UNCHANGED <<proc, account_list, current_account>>
      BY <1>0, <1>1, ClientTypes DEF vars
    <3>2. UNCHANGED <<client[d], conn[d], inbox[d], outbox[d]>>
      BY <1>0, <1>1, <2>2, OtherClients
    <3> QED
      BY <1>00, <3>1, <3>2, TalkKept
  <2> QED
    BY <2>1, <2>2
\* Nobody has been accepted yet.
<1>2. CASE /\ accepted = None /\ UNCHANGED <<accepted, conn, inbox, outbox, client>>
  <2>1. Unserved(d) => Unserved(d)'
    BY <1>2 DEF Unserved
  <2> QED
    BY <1>00, <1>2, <2>1, NoneAssumption DEF TalkInv
\* The enclave is gone, and its balance with it.
<1>3. CASE /\ proc'[server] = "orphan"
           /\ UNCHANGED <<app, accepted, conn, inbox, outbox, client>>
  <2>1. Unserved(d) => Unserved(d)'
    BY <1>3 DEF Unserved
  <2> QED
    BY <1>00, <1>3, <2>1 DEF TalkInv
<1>4. CASE AppStarts \/ AppListens \/ AppAcceptFails
  BY <1>0, <1>2, <1>4 DEF AppStarts, AppListens, AppAcceptFails, AppInv
<1>5. CASE AppAccepts
  BY <1>5, TalkAccepts
<1>6. CASE AppReceives
  BY <1>6, TalkCalled
<1>7. CASE AppIgnores
  <2>1. /\ app = "recv" /\ accepted \in Clients
        /\ inbox[accepted] = Garbage /\ inbox' = [inbox EXCEPT ![accepted] = None]
        /\ UNCHANGED <<app, request, accepted, granted, conn, outbox, client>>
        /\ UNCHANGED <<proc, account_list, current_account>>
    BY <1>0, <1>7 DEF AppIgnores, AppInv, vars
  <2>2. inbox \in [Clients -> Messages \cup {Garbage, None}]
    BY <1>0 DEF NetTypeOK
  <2>3. CASE accepted # d
    BY <1>00, <2>1, <2>2, <2>3, TalkKept
  <2>4. CASE accepted = d /\ conn[d] = "open" /\ proc[server] = "idle"
    <3>1. client[d].at # "gone" /\ inbox[d] # None /\ client[d].send_info = Garbage
      BY <1>00, <2>1, <2>4, NoneAssumption DEF LineInv
    <3>2. outbox[d] = None
      BY <1>00, <3>1 DEF LineInv
    <3>3. Quiet(d)
      BY <1>00, <2>1, <2>4, <3>2 DEF TalkInv
    <3>4. client[d].send_info.op # "login"
      BY <3>1 DEF Garbage
    <3>5. Quiet(d)'
      BY <2>1, <3>3, <3>4
         DEF Quiet, Session, Settled, Truthful, AccountLogin, Current, Balance
    <3> QED
      BY <2>1, <2>4, <3>2, <3>5 DEF TalkInv
  <2>5. CASE accepted = d /\ (conn[d] # "open" \/ proc[server] # "idle")
    BY <2>1, <2>5 DEF TalkInv
  <2> QED
    BY <2>3, <2>4, <2>5
<1>8. CASE AppAnswersLogin \/ AppAnswersDeposit \/ AppAnswersWithdraw
  BY <1>8, AppAnswers, TalkAnswered
<1>9. CASE EnclaveLoads
  <2>1. proc[server] = "load" /\ UNCHANGED netVars /\ UNCHANGED client
    BY <1>9 DEF EnclaveLoads, InitManagerLoad
  <2> QED
    BY <1>0, <1>2, <2>1 DEF AppInv, netVars
<1>10. CASE EnclaveStores
  <2>1. /\ UNCHANGED <<app, request, accepted, granted, conn, inbox, outbox, client>>
        /\ proc[server] = "store"
    BY <1>10 DEF EnclaveStores, AccountListStoreStorage, MarshalOutOfMemory, netVars
  <2>2. CASE MarshalOutOfMemory(server)
    BY <1>0, <1>3, <2>1, <2>2 DEF MarshalOutOfMemory
  <2>3. CASE AccountListStoreStorage(server)
    <3>1. proc'[server] = "idle" /\ UNCHANGED <<account_list, current_account>>
      BY <1>0, <2>3 DEF AccountListStoreStorage
    <3>2. Unserved(d) => Unserved(d)'
      BY <2>1 DEF Unserved
    <3>3. Handled(d) => Handled(d)'
      BY <2>1, <3>1
         DEF Handled, Session, Settled, AccountLogin, Current, Balance
    <3>4. app # "recv"
      BY <1>0, <2>1 DEF AppInv
    <3> QED
      BY <1>00, <2>1, <3>1, <3>2, <3>3, <3>4 DEF TalkInv
  <2> QED
    BY <1>10, <2>2, <2>3 DEF EnclaveStores
<1>11. CASE EnclaveIsLost
  BY <1>0, <1>3, <1>11 DEF EnclaveIsLost, EnclaveLost, netVars
<1>12. CASE AppDies \/ AppDiesStoring
  <2>1. conn'[d] # "open"
    BY <1>12 DEF AppDies, AppDiesStoring, Disconnects
  <2> QED
    BY <2>1 DEF TalkInv
<1>13. CASE UNCHANGED allVars
  BY <1>00, <1>13, TalkKept DEF allVars, netVars, vars
<1> QED
  BY <1>1, <1>4, <1>5, <1>6, <1>7, <1>8, <1>9, <1>10, <1>11, <1>12, <1>13
     DEF NetNext, ServerRuns

-----------------------------------------------------------------------------
(* What follows for a client's screen *)

LEMMA NetInvAlways ==
  ASSUME Servers # {}, AtoiClosed
  PROVE  NetSpec => [](TypeInv /\ NetInv)
<1>1. NetInit => TypeInv /\ NetInv
  BY InitTypeInv, InitMain, InitLines, InitTalks DEF NetInit, NetInv
<1>2. TypeInv /\ NetInv /\ [NetNext]_allVars => (TypeInv /\ NetInv)'
  BY NetStep, StepTypeInv, StepMain, StepLines, StepTalks DEF NetInv
<1> QED
  BY <1>1, <1>2, PTL DEF NetSpec

\* A client that has its answer is not in the middle of anything.
LEMMA AnsweredIsQuiet ==
  ASSUME Servers # {}, TypeInv, NetInv, NEW c \in Clients, Answered(c)
  PROVE  /\ Quiet(c) /\ ScreenInv(c) /\ inbox[c] = None
         /\ Truthful(c, client[c].receive_data)
         /\ AccountLogin(server) => Balance \in UInt64
<1>0. /\ LineInv(c) /\ ScreenInv(c) /\ TalkInv(c) /\ AppInv
      /\ client[c].at = "menu" /\ client[c].fresh
      /\ accepted = c /\ conn[c] = "open" /\ proc[server] = "idle"
  BY DEF NetInv, MainInv, LinesInv, TalksInv, Answered
<1>1. inbox[c] = None /\ outbox[c] = None /\ app # "call"
  BY <1>0 DEF LineInv, InCall
<1>2. app = "recv"
  BY <1>0, <1>1, NoneAssumption DEF AppInv
<1>3. Quiet(c)
  BY <1>0, <1>1, <1>2 DEF TalkInv
<1>4. AccountLogin(server) => Balance \in UInt64
  BY ServerExists, CurrentAccount DEF Balance
<1> QED
  BY <1>0, <1>1, <1>3, <1>4 DEF Quiet

\* The variables of main, of the sockets and of the clients have their types.
THEOREM NetTypeCorrect ==
  ASSUME Servers # {}, AtoiClosed
  PROVE  NetSpec => []NetTypeOK
<1>1. NetInv => NetTypeOK
  BY DEF NetInv, MainInv
<1> QED
  BY <1>1, NetInvAlways, PTL

(***************************************************************************)
(* Request and reply keep step, whatever is lost or dies: no reply is ever *)
(* taken for the answer to another request.                                *)
(***************************************************************************)
THEOREM RepliesKeepStep ==
  ASSUME Servers # {}, AtoiClosed
  PROVE  NetSpec => []LockStep
<1>1. ASSUME NetInv, NEW c \in Clients, client[c].at # "gone"
      PROVE  OnTheWay(c) <= (IF client[c].at = "wait" THEN 1 ELSE 0)
  <2>1. LineInv(c)
    BY <1>1 DEF NetInv, LinesInv
  <2> DEFINE a == IF inbox[c] # None THEN 1 ELSE 0
             b == IF InCall(c) THEN 1 ELSE 0
             o == IF outbox[c] # None THEN 1 ELSE 0
  <2>2. OnTheWay(c) = a + b + o
    BY DEF OnTheWay, InCall
  <2>3. /\ a \in {0, 1} /\ b \in {0, 1} /\ o \in {0, 1}
        /\ a = 0 \/ (b = 0 /\ o = 0)
        /\ b = 0 \/ o = 0
        /\ client[c].at # "wait" => a = 0 /\ b = 0 /\ o = 0
    BY <1>1, <2>1 DEF LineInv
  <2> HIDE DEF a, b, o
  <2>4. a + b + o <= (IF client[c].at = "wait" THEN 1 ELSE 0)
    BY <2>3
  <2> QED
    BY <2>2, <2>4
<1>2. NetInv => LockStep
  BY <1>1 DEF LockStep
<1> QED
  BY <1>2, NetInvAlways, PTL

(***************************************************************************)
(* The total printed after a login, a deposit or a withdrawal is the       *)
(* account's balance, for balances an int can hold.                        *)
(***************************************************************************)
THEOREM ScreenShowsBalance ==
  ASSUME Servers # {}, AtoiClosed
  PROVE  NetSpec => []ShownIsBalance
<1>1. ASSUME TypeInv, NetInv, NEW c \in Clients,
             \/ AnsweredWith(c, "login")
             \/ AnsweredWith(c, "balance") /\ client[c].deposit_print,
             AccountLogin(server), 2 * Balance < IntMod
      PROVE  client[c].shown = Balance
  <2>1. Answered(c) /\ client[c].receive_data.kind \in {"login", "balance"}
    BY <1>1 DEF AnsweredWith
  <2>2. /\ ScreenInv(c) /\ Truthful(c, client[c].receive_data)
        /\ Balance \in UInt64
    BY <1>1, <2>1, AnsweredIsQuiet
  <2>3. client[c].shown = Atoi(client[c].receive_data.value)
    BY <1>1, <2>1, <2>2 DEF ScreenInv, AnsweredWith, Answered
  <2>4. client[c].receive_data.value = Balance
    BY <1>1, <2>1, <2>2 DEF Truthful
  <2> QED
    BY <1>1, <2>2, <2>3, <2>4, AtoiSmall
<1>2. TypeInv /\ NetInv => ShownIsBalance
  BY <1>1 DEF ShownIsBalance
<1> QED
  BY <1>2, NetInvAlways, PTL

(***************************************************************************)
(* With one server whose lists fit and whose flushes succeed, a balance on *)
(* its way to the client is the one on disk: what the client is told       *)
(* survives the server.                                                    *)
(***************************************************************************)
THEOREM RepliesAreStored ==
  ASSUME Servers # {}, OneServer, ListsFit, ~FlushFails, AtoiClosed
  PROVE  NetSpec => []RepliedIsStored
<1>1. ASSUME TypeInv, NetInv, Durable, NEW c \in Clients,
             accepted = c, conn[c] = "open", outbox[c] # None,
             outbox[c].kind \in {"login", "balance"},
             proc[server] = "idle", AccountLogin(server)
      PROVE  /\ Unseals(file, file.size)
             /\ current_account[server] \in DOMAIN file.plain
             /\ outbox[c].value = file.plain[current_account[server]].deposits
  <2>1. LineInv(c) /\ TalkInv(c) /\ AppInv
    BY <1>1 DEF NetInv, LinesInv, TalksInv, MainInv
  <2>2. client[c].at \in {"menu", "wait"} /\ ~InCall(c)
    BY <1>1, <2>1 DEF LineInv
  <2>3. app = "recv"
    BY <1>1, <2>1, <2>2, NoneAssumption DEF AppInv, InCall
  <2>4. outbox[c].value = Balance
    BY <1>1, <2>1, <2>3 DEF TalkInv, Replied, Truthful
  <2>5. server \in Servers
    BY ServerExists
  <2>6. /\ current_account[server] \in 1 .. Len(account_list[server])
        /\ account_list[server] \in Seq(Accounts)
    BY <1>1, <2>5, CurrentAccount DEF TypeInv, TypeOK
  <2>7. account_list[server] # <<>>
    BY <2>6, EmptySeq
  <2>8. Unseals(file, file.size) /\ file.plain = account_list[server]
    BY <1>1, <2>5, <2>7 DEF Durable
  <2> QED
    BY <2>4, <2>6, <2>8, LenProperties DEF Balance, Current
<1>2. TypeInv /\ NetInv /\ Durable => RepliedIsStored
  BY <1>1 DEF RepliedIsStored
<1>3. NetSpec => []Durable
  BY NetImplementsDealManager, ReportedIsStored, PTL
<1> QED
  BY <1>2, <1>3, NetInvAlways, PTL

(***************************************************************************)
(* A client told "too big." whose withdrawal was refused prints the        *)
(* enclave's balance, if it has been told a total by a deposit or a        *)
(* withdrawal since it logged in last.                                     *)
(***************************************************************************)
THEOREM RefusalShowsBalance ==
  ASSUME Servers # {}, AtoiClosed
  PROVE  NetSpec => []TooBigShowsBalance
<1>1. ASSUME TypeInv, NetInv, NEW c \in Clients,
             AnsweredWith(c, "toobig"), client[c].settled,
             AccountLogin(server), 2 * Balance < IntMod
      PROVE  client[c].shown = Balance
  <2>1. Answered(c) /\ client[c].receive_data.kind = "toobig"
    BY <1>1 DEF AnsweredWith
  <2>2. ScreenInv(c) /\ Quiet(c) /\ Balance \in UInt64
    BY <1>1, <2>1, AnsweredIsQuiet
  <2>3. client[c].shown = client[c].pre_amount
    BY <2>1, <2>2 DEF ScreenInv, Answered
  <2>4. client[c].pre_amount = Atoi(Balance)
    BY <1>1, <2>2 DEF Quiet, Settled
  <2> QED
    BY <1>1, <2>2, <2>3, <2>4, AtoiSmall
<1>2. TypeInv /\ NetInv => TooBigShowsBalance
  BY <1>1 DEF TooBigShowsBalance
<1> QED
  BY <1>2, NetInvAlways, PTL

(***************************************************************************)
(* A client that believes it is logged in is, to the account it named and  *)
(* with that account's password.                                           *)
(***************************************************************************)
THEOREM LoginsAreSessions ==
  ASSUME Servers # {}, AtoiClosed
  PROVE  NetSpec => []LoginIsSession
<1>1. ASSUME TypeInv, NetInv, NEW c \in Clients, Answered(c), client[c].login
      PROVE  Session(c)
  BY <1>1, AnsweredIsQuiet DEF Quiet
<1>2. TypeInv /\ NetInv => LoginIsSession
  BY <1>1 DEF LoginIsSession, Session
<1> QED
  BY <1>2, NetInvAlways, PTL

(***************************************************************************)
(* A withdrawal answered with a balance was taken: comparing the amount    *)
(* with what is left never makes a refused one look granted.               *)
(***************************************************************************)
THEOREM ToldMeansTaken ==
  ASSUME Servers # {}, AtoiClosed
  PROVE  NetSpec => []BalanceMeansTaken
<1>1. ASSUME TypeInv, NetInv, NEW c \in Clients,
             AnsweredWith(c, "balance"), AccountLogin(server),
             client[c].send_info.op = "withdraw",
             Atoi(client[c].send_info.amount) # 0
      PROVE  granted
  <2>1. Answered(c) /\ client[c].receive_data.kind = "balance"
    BY <1>1 DEF AnsweredWith
  <2>2. Truthful(c, client[c].receive_data)
    BY <1>1, <2>1, AnsweredIsQuiet
  <2> QED
    BY <1>1, <2>1, <2>2 DEF Truthful
<1>2. TypeInv /\ NetInv => BalanceMeansTaken
  BY <1>1 DEF BalanceMeansTaken
<1> QED
  BY <1>2, NetInvAlways, PTL

-----------------------------------------------------------------------------
(* No request is lost *)

(***************************************************************************)
(* What a client waits for is in the socket, in the enclave, or on its way *)
(* back: never nowhere, and never forgotten by main.                       *)
(***************************************************************************)
Underway(c) == inbox[c] # None \/ outbox[c] # None \/ InCall(c)

DueInv(c) ==
  /\ client[c].at = "wait" /\ conn[c] = "open"
  /\ client[c].send_info # Garbage
  => Underway(c)

DuesInv == \A c \in Clients : DueInv(c)

LEMMA DueKept ==
  ASSUME NEW c \in Clients, DueInv(c),
         UNCHANGED <<app, accepted, client[c], conn[c], inbox[c], outbox[c]>>
  PROVE  DueInv(c)'
BY DEF DueInv, Underway, InCall

LEMMA DueClient ==
  ASSUME MainInv, NEW c \in Clients, ClientActs(c)
  PROVE  DueInv(c)'
<1>0. /\ client \in [Clients -> Client] /\ conn \in [Clients -> ConnStates]
      /\ inbox \in [Clients -> Messages \cup {Garbage, None}]
      /\ NetTypeOK
  BY DEF MainInv, NetTypeOK
<1>1. CASE ClientConnects(c)
  <2>1. PICK noise \in Noise : client' = [client EXCEPT ![c] = NewClient("menu", noise)]
    BY <1>1 DEF ClientConnects
  <2>2. client'[c].at = "menu"
    BY <1>0, <2>1 DEF NewClient
  <2> QED
    BY <2>2 DEF DueInv
<1>2. CASE ClientLogsIn(c) \/ ClientMovesMoney(c) \/ ClientResends(c)
  <2>1. PICK k \in Client : Sends(c, k)
    BY <1>0, <1>2, ClientChoice
  <2>2. CASE conn'[c] # "open"
    BY <2>2 DEF DueInv
  <2>3. CASE conn'[c] = "open"
    <3>1. inbox'[c] = k.send_info
      BY <1>0, <2>1, <2>3 DEF Sends
    <3>2. k.send_info # None
      BY NoneAssumption DEF Client
    <3> QED
      BY <3>1, <3>2 DEF DueInv, Underway
  <2> QED
    BY <2>2, <2>3
<1>3. CASE ClientQuits(c)
  <2>1. conn'[c] = "none"
    BY <1>0, <1>3 DEF ClientQuits
  <2> QED
    BY <2>1 DEF DueInv
<1>4. CASE ClientReceives(c)
  <2>1. PICK data \in Replies, k \in Client :
          Received(c, data, k) /\ client' = [client EXCEPT ![c] = k]
    BY <1>0, <1>4, ClientReceived
  <2>2. client'[c].at = "menu"
    BY <1>0, <2>1 DEF Received
  <2> QED
    BY <2>2 DEF DueInv
<1> QED
  BY <1>1, <1>2, <1>3, <1>4 DEF ClientActs

(***************************************************************************)
(* main takes a request out of the socket only to handle it, or when it is *)
(* no request, and handles none without an answer.                         *)
(***************************************************************************)
LEMMA StepDues ==
  ASSUME Servers # {}, AtoiClosed, TypeInv, MainInv, LinesInv, DuesInv,
         [NetNext]_allVars
  PROVE  DuesInv'
<1>0. /\ NetTypeOK /\ AppInv /\ CallInv
      /\ inbox \in [Clients -> Messages \cup {Garbage, None}]
      /\ outbox \in [Clients -> Replies \cup {None}]
  BY DEF MainInv, NetTypeOK
<1> SUFFICES ASSUME NEW d \in Clients PROVE DueInv(d)'
  BY DEF DuesInv
<1>00. DueInv(d) /\ LineInv(d)
  BY DEF DuesInv, LinesInv
<1>1. ASSUME NEW c \in Clients, ClientActs(c)
      PROVE  DueInv(d)'
  <2>1. CASE c = d
    BY <1>1, <2>1, DueClient
  <2>2. CASE c # d
    <3>1. UNCHANGED <<app, accepted, request>>
      BY <1>0, <1>1, ClientTypes
    <3>2. UNCHANGED <<client[d], conn[d], inbox[d], outbox[d]>>
      BY <1>0, <1>1, <2>2, OtherClients
    <3> QED
      BY <1>00, <3>1, <3>2, DueKept
  <2> QED
    BY <2>1, <2>2
<1>2. CASE UNCHANGED <<app, accepted, client, conn, inbox, outbox>>
  BY <1>00, <1>2, DueKept
<1>3. CASE app # "call" /\ UNCHANGED <<client, conn, inbox, outbox>>
  BY <1>00, <1>3 DEF DueInv, Underway, InCall
<1>4. CASE AppReceives
  <2>1. /\ app = "recv" /\ app' = "call" /\ accepted \in Clients
        /\ inbox' = [inbox EXCEPT ![accepted] = None]
        /\ UNCHANGED <<accepted, conn, outbox, client>>
    BY <1>0, <1>4 DEF AppReceives, AppInv
  <2>2. CASE accepted = d
    BY <2>1, <2>2 DEF DueInv, Underway, InCall
  <2>3. CASE accepted # d
    <3>1. inbox'[d] = inbox[d] /\ ~InCall(d)
      BY <1>0, <2>1, <2>3 DEF InCall
    <3> QED
      BY <1>00, <2>1, <3>1 DEF DueInv, Underway
  <2> QED
    BY <2>2, <2>3
<1>5. CASE AppIgnores
  <2>1. /\ app = "recv" /\ accepted \in Clients /\ inbox[accepted] = Garbage
        /\ inbox' = [inbox EXCEPT ![accepted] = None]
        /\ UNCHANGED <<app, accepted, conn, outbox, client>>
    BY <1>0, <1>5 DEF AppIgnores, AppInv
  <2>2. CASE accepted = d
    <3>1. client[d].at = "wait" => client[d].send_info = Garbage
      BY <1>00, <2>1, <2>2, NoneAssumption DEF LineInv
    <3> QED
      BY <2>1, <3>1 DEF DueInv
  <2>3. CASE accepted # d
    <3>1. inbox'[d] = inbox[d]
      BY <1>0, <2>1, <2>3
    <3> QED
      BY <1>00, <2>1, <3>1 DEF DueInv, Underway, InCall
  <2> QED
    BY <2>2, <2>3
<1>6. CASE AppAnswersLogin \/ AppAnswersDeposit \/ AppAnswersWithdraw
  <2>1. PICK reply \in Replies : Answer(reply)
    BY <1>0, <1>6, AppAnswers
  <2>2. /\ accepted \in Clients
        /\ outbox' = IF conn[accepted] = "open"
                     THEN [outbox EXCEPT ![accepted] = reply] ELSE outbox
        /\ UNCHANGED <<accepted, conn, inbox, client>>
    BY <1>0, <2>1 DEF Answer, Writes, AppInv
  <2>3. CASE InCall(d)
    <3>1. outbox'[d] = reply /\ reply # None
      BY <1>0, <2>2, <2>3, NoneAssumption DEF InCall
    <3> QED
      BY <3>1 DEF DueInv, Underway
  <2>4. CASE ~InCall(d)
    <3>1. accepted = d => conn[d] # "open"
      BY <1>0, <2>1, <2>4 DEF InCall, Answer
    <3>2. outbox'[d] = outbox[d]
      BY <1>0, <2>2, <3>1
    <3> QED
      BY <1>00, <2>2, <2>4, <3>2 DEF DueInv, Underway
  <2> QED
    BY <2>3, <2>4
<1>7. CASE AppDies \/ AppDiesStoring
  <2>1. conn'[d] # "open"
    BY <1>7 DEF AppDies, AppDiesStoring, Disconnects
  <2> QED
    BY <2>1 DEF DueInv
<1>8. CASE AppStarts \/ AppListens \/ AppAccepts \/ AppAcceptFails
  BY <1>3, <1>8 DEF AppStarts, AppListens, AppAccepts, AppAcceptFails
<1>9. CASE EnclaveLoads \/ EnclaveStores \/ EnclaveIsLost \/ UNCHANGED allVars
  BY <1>2, <1>9 DEF EnclaveLoads, EnclaveStores, EnclaveIsLost, allVars, netVars
<1> QED
  BY <1>1, <1>4, <1>5, <1>6, <1>7, <1>8, <1>9 DEF NetNext, ServerRuns

(***************************************************************************)
(* What a client waits for is never lost: as long as its connection stands *)
(* its request is unread, being handled, or answered, whatever fails in    *)
(* the enclave.                                                            *)
(***************************************************************************)
THEOREM NoRequestIsLost ==
  ASSUME Servers # {}, AtoiClosed
  PROVE  NetSpec => []ReplyIsDue
<1>1. NetInit => DuesInv
  BY DEF NetInit, DuesInv, DueInv
<1>2. TypeInv /\ NetInv /\ DuesInv /\ [NetNext]_allVars => DuesInv'
  BY StepDues DEF NetInv
<1>3. ASSUME NEW c \in Clients, Underway(c)
      PROVE  OnTheWay(c) > 0
  BY <1>3 DEF OnTheWay, Underway, InCall
<1>4. DuesInv => ReplyIsDue
  BY <1>3 DEF DuesInv, DueInv, ReplyIsDue
<1> QED
  BY <1>1, <1>2, <1>4, NetInvAlways, PTL DEF NetSpec

=============================================================================

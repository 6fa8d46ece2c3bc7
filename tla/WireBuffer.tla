----------------------------- MODULE WireBuffer -----------------------------
(***************************************************************************)
(* The bytes of a request and of the reply to it.  The client formats a    *)
(* request into send_info and sends the whole buffer; the App cuts what it *)
(* receives at every comma, and answers (Seccap_client/client.cpp,         *)
(* App/App.cpp).                                                           *)
(*                                                                         *)
(* sprintf writes its text and a NUL and leaves the rest of the buffer as  *)
(* it was, but the scan of the App does not stop at the NUL.  And a recv   *)
(* may return fewer bytes than were sent: what is left of a request then   *)
(* comes with the next recv, alone or before a part of the next request.   *)
(*                                                                         *)
(* Bytes are counted and commas placed, nothing else is spelled out: a     *)
(* word somebody types is its length and the offsets of the commas in it.  *)
(* No word spells a command where a recv may begin.                        *)
(***************************************************************************)
EXTENDS Integers, SequencesExt

CONSTANTS
  NameWords, PasswordWords,  \* words typed as account name and as password
  Digits,                    \* how many digits the amounts typed have
  BalanceDigits,             \* how many digits the balances have
  ReadSizes,                 \* bytes a recv of the App may return
  StackCommas,               \* where a fresh send_info may hold a comma
  StackEnd                   \* from here on a fresh send_info is all zero

RECEIVE_BUF_SIZE == 1024

Words == [len : 1 .. 99, commas : SUBSET (0 .. 98)]

ASSUME WireBufferAssumption ==
  /\ NameWords \subseteq Words /\ PasswordWords \subseteq Words
  /\ \A w \in NameWords \cup PasswordWords : \A c \in w.commas : c < w.len
  /\ Digits \subseteq 1 .. 20 /\ BalanceDigits \subseteq 1 .. 20
  /\ ReadSizes \subseteq 1 .. RECEIVE_BUF_SIZE
  /\ StackEnd \in 0 .. RECEIVE_BUF_SIZE /\ StackCommas \subseteq 0 .. StackEnd - 1

VARIABLES
  send_info,     \* offsets of the commas in the client's buffer
  typed,         \* the text last formatted into it, see Text; NoText before
  longest,       \* history: no byte from here on has ever been written
  client,        \* menu, or wait: in recv
  wire,          \* sent and not received: how many bytes, and their commas
  data,          \* what data[0], data[1], ... point to: from, to
  app,           \* recv, or how the App went wrong: fault, overrun, overflow
  balance,       \* digits of the number in the last reply; 0 if it has none
  receive_data,  \* the head of the client's buffer: digit, nul, text
  shown          \* digits of the number the client has read there

wireVars == <<send_info, typed, longest, client, wire, data, app, balance, receive_data, shown>>

-----------------------------------------------------------------------------
(* Texts: how long the words are, the commas the format puts after them    *)
(* and those in them                                                       *)

NoText == [words |-> <<>>, ends |-> <<>>, inner |-> {}]

LoginText(name, password) ==
  [words |-> <<5, name.len, password.len>>,
   ends  |-> <<5, 6 + name.len, 7 + name.len + password.len>>,
   inner |-> {6 + c : c \in name.commas}
               \cup {7 + name.len + c : c \in password.commas}]

\* Variant for the mutants: nothing after the amount.
DepositTextOpen(digits) == [words |-> <<7, digits>>, ends |-> <<7>>, inner |-> {}]

DepositText(digits) == [words |-> <<7, digits>>, ends |-> <<7, 8 + digits>>, inner |-> {}]

\* Variant for the mutants: a currency field after the amount.
WithdrawTextWide(digits) ==
  [words |-> <<8, digits>>, inner |-> {},
   ends  |-> <<8, 9 + digits, 11 + digits, 13 + digits>>]

WithdrawText(digits) == [words |-> <<8, digits>>, ends |-> <<8, 9 + digits>>, inner |-> {}]

\* The offset of the NUL after the text.
End(text) == text.ends[Len(text.ends)] + 1

\* sprintf into a buffer that holds commas at the offsets old.
Formatted(old, text) ==
  Range(text.ends) \cup text.inner \cup {c \in old : c > End(text)}

Fields(ends) ==
  [k \in DOMAIN ends |-> <<IF k = 1 THEN 0 ELSE ends[k - 1] + 1, ends[k]>>]

\* The comma with k - 1 others before it.
Comma(commas, k) == CHOOSE c \in commas : Cardinality({d \in commas : d < c}) = k - 1

\* The scan of the App: a field ends at every comma.
Split(commas) == Fields([k \in 1 .. Cardinality(commas) |-> Comma(commas, k)])

-----------------------------------------------------------------------------
(* Replies *)

\* As far as the replies reach; the last byte stands for all behind them.
Bytes == 0 .. 13

\* Variant for the mutants: the number goes out without its NUL.
NumberReplyBare(prefix, digits, size, junk) ==
  [i \in 0 .. prefix + digits - 1 |-> IF i < prefix THEN "text" ELSE "digit"]

\* A number with a NUL, behind a prefix; then what send_data held.
NumberReply(prefix, digits, size, junk) ==
  [i \in 0 .. size - 1 |->
     IF i < prefix THEN "text" ELSE IF i < prefix + digits THEN "digit"
     ELSE IF i = prefix + digits THEN "nul" ELSE junk]

\* "login fail." and "too big." go out without a NUL.
TextReply(size) == [i \in 0 .. size - 1 |-> "text"]

\* recv overwrites the head of receive_data.
Received(reply) ==
  [i \in Bytes |-> IF i \in DOMAIN reply THEN reply[i] ELSE receive_data[i]]

\* How many digits atoi reads from offset i.
DigitsAt(bytes, i) ==
  CHOOSE n \in 0 .. 14 - i :
    /\ \A j \in i .. i + n - 1 : bytes[j] = "digit"
    /\ i + n = 14 \/ bytes[i + n] # "digit"

IsLogin(text) == text.words[1] = 5

\* The number the client reads in the reply, from behind "login" if that is there.
ReplyNumber(bytes) == DigitsAt(bytes, IF IsLogin(typed) THEN 5 ELSE 0)

\* A balance: sprintf into 13 bytes after a login, else into 8.
AnswersNumber ==
  \E digits \in BalanceDigits, junk \in {"digit", "text"} :
    LET prefix == IF IsLogin(typed) THEN 5 ELSE 0
        size   == prefix + 8
    IN  /\ digits + 1 <= 8
        /\ balance' = digits
        /\ receive_data' = Received(NumberReply(prefix, digits, size, junk))
        /\ shown' = ReplyNumber(receive_data')
        /\ client' = "menu" /\ UNCHANGED app

\* send_data has no room for the number and its NUL.
AnswerOverflows ==
  /\ \E digits \in BalanceDigits : digits + 1 > 8
  /\ app' = "overflow"
  /\ UNCHANGED <<client, balance, receive_data, shown>>

\* A wrong password, or an amount greater than what is left.
AnswersText ==
  /\ typed.words[1] \in {5, 8}
  /\ receive_data' = Received(TextReply(IF IsLogin(typed) THEN 11 ELSE 8))
  /\ balance' = 0
  /\ shown' = ReplyNumber(receive_data')
  /\ client' = "menu" /\ UNCHANGED app

-----------------------------------------------------------------------------

Init ==
  /\ send_info \in SUBSET StackCommas
  /\ longest = StackEnd
  /\ typed = NoText /\ data = <<>>
  /\ client = "menu" /\ wire = [size |-> 0, commas |-> {}]
  /\ app = "recv"
  /\ receive_data \in {[i \in Bytes |-> "digit"], [i \in Bytes |-> "text"]}
  /\ balance = 0 /\ shown = 0

Sends(buffer) ==
  /\ client = "menu" /\ app = "recv"
  /\ client' = "wait"
  /\ wire' = [size   |-> wire.size + RECEIVE_BUF_SIZE,
              commas |-> wire.commas \cup {wire.size + c : c \in buffer}]
  /\ UNCHANGED <<data, app, balance, receive_data, shown>>

ClientFormats(text) ==
  /\ send_info' = Formatted(send_info, text)
  /\ longest' = IF longest < End(text) THEN End(text) ELSE longest
  /\ typed' = text
  /\ Sends(send_info')

\* Menu choices 1, 2 and 3.
ClientLogsIn ==
  \E name \in NameWords, password \in PasswordWords :
    ClientFormats(LoginText(name, password))

ClientDeposits == \E digits \in Digits : ClientFormats(DepositText(digits))

ClientWithdraws == \E digits \in Digits : ClientFormats(WithdrawText(digits))

\* Any other number: the buffer goes out as it is.
ClientResends == Sends(send_info) /\ UNCHANGED <<send_info, typed, longest>>

\* How many bytes a recv may return now.
Arrives ==
  {n \in ReadSizes : n < wire.size}
    \cup {IF wire.size < RECEIVE_BUF_SIZE THEN wire.size ELSE RECEIVE_BUF_SIZE}

\* The commas in buf once recv has returned n.
Found(n) == {c \in wire.commas : c < n}

\* recv of n bytes, which hold that many commas.
AppReceives(n, commas) ==
  /\ app = "recv" /\ wire.size > 0
  /\ Cardinality(Found(n)) \in commas
  /\ UNCHANGED <<send_info, typed, longest>>

\* What is left on the wire.
Rest(n) == [size |-> wire.size - n, commas |-> {c - n : c \in wire.commas \ Found(n)}]

\* buf begins with the request in send_info, and that with a command.
AtRequest == wire.size = RECEIVE_BUF_SIZE /\ typed # NoText

\* The command runs and is answered.
AppRuns ==
  \E n \in Arrives :
    /\ AtRequest
    /\ AppReceives(n, Len(typed.words) .. 3)
    /\ wire' = Rest(n)
    /\ data' = Split(Found(n))
    /\ AnswersNumber \/ AnswerOverflows \/ AnswersText

\* data[0] is no command: no answer.
AppIgnores ==
  \E n \in Arrives :
    /\ ~AtRequest
    /\ AppReceives(n, 1 .. 3)
    /\ wire' = Rest(n)
    /\ data' = <<>>
    /\ UNCHANGED <<client, app, balance, receive_data, shown>>

\* No comma: data[0] is NULL when strncmp reads it.  Too few: what the
\* command reads next is NULL, to atoi in the App or to strcmp or a
\* std::string in the enclave, of which one then crashes.
AppFaults ==
  \E n \in Arrives :
    /\ AppReceives(n, IF AtRequest THEN 0 .. Len(typed.words) - 1 ELSE {0})
    /\ app' = "fault"
    /\ UNCHANGED <<client, wire, data, balance, receive_data, shown>>

\* More than three: data[3] and data_size[3] are written, which are not
\* there.  Nothing is said of what the process does after that.
AppOverruns ==
  \E n \in Arrives :
    /\ AppReceives(n, 4 .. RECEIVE_BUF_SIZE)
    /\ app' = "overrun"
    /\ UNCHANGED <<client, wire, data, balance, receive_data, shown>>

Next ==
  \/ ClientLogsIn \/ ClientDeposits \/ ClientWithdraws \/ ClientResends
  \/ AppRuns \/ AppIgnores \/ AppFaults \/ AppOverruns

Spec == Init /\ [][Next]_wireVars

=============================================================================

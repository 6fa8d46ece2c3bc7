-------------------------- MODULE WireBufferProofs --------------------------
(***************************************************************************)
(* When the App's data[3] is large enough, and that what is read of a      *)
(* request or a reply is what was sent.                                    *)
(***************************************************************************)
EXTENDS WireBufferProperties, FiniteSetTheorems, TLAPS

LEMMA AtMostThree ==
  ASSUME NEW a, NEW b, NEW c, NEW S, S \subseteq {a, b, c}
  PROVE  IsFiniteSet(S) /\ Cardinality(S) \in 0 .. 3
<1>1. IsFiniteSet({}) /\ Cardinality({}) = 0
  BY FS_EmptySet
<1>2. IsFiniteSet({a}) /\ Cardinality({a}) = 1
  BY FS_Singleton
<1>3. IsFiniteSet({a} \cup {b}) /\ Cardinality({a} \cup {b}) \in 1 .. 2
  BY <1>2, FS_AddElement
<1>4. IsFiniteSet({a, b} \cup {c}) /\ Cardinality({a, b} \cup {c}) \in 1 .. 3
  <2>1. {a} \cup {b} = {a, b}
    OBVIOUS
  <2> QED
    BY <1>3, <2>1, FS_AddElement
<1>5. {a, b} \cup {c} = {a, b, c}
  OBVIOUS
<1>6. /\ IsFiniteSet(S)
      /\ Cardinality(S) <= Cardinality({a, b, c})
  BY <1>4, <1>5, FS_Subset
<1>7. Cardinality(S) \in Nat
  BY <1>6, FS_CardinalityType
<1> QED
  BY <1>4, <1>5, <1>6, <1>7

-----------------------------------------------------------------------------
(* Texts *)

\* The commas of a text: at most three, all before its end.
Commas(text) == Range(text.ends) \cup text.inner

LEMMA WordShape ==
  ASSUME NEW w \in NameWords \cup PasswordWords
  PROVE  w.len \in 1 .. 99 /\ \A c \in w.commas : c \in Nat /\ c < w.len
<1>1. w \in Words
  BY WireBufferAssumption
<1>2. w.len \in 1 .. 99 /\ w.commas \in SUBSET (0 .. 98)
  BY <1>1 DEF Words
<1>3. \A c \in w.commas : c < w.len
  BY WireBufferAssumption
<1> QED
  BY <1>2, <1>3

IsText(text) ==
  \/ \E n \in NameWords, p \in PasswordWords : text = LoginText(n, p)
  \/ \E d \in Digits : text = DepositText(d)
  \/ \E d \in Digits : text = WithdrawText(d)

LEMMA TextShape ==
  ASSUME NEW text, IsText(text)
  PROVE  /\ End(text) \in 0 .. RECEIVE_BUF_SIZE
         /\ \A c \in Commas(text) : c \in Nat /\ c < End(text)
         /\ text # NoText
         /\ text.inner = {} => \E a, b, d : Commas(text) = {a, b, d}
<1>1. CASE \E n \in NameWords, p \in PasswordWords : text = LoginText(n, p)
  <2>1. PICK n \in NameWords, p \in PasswordWords : text = LoginText(n, p)
    BY <1>1
  <2>2. /\ n.len \in 1 .. 99 /\ p.len \in 1 .. 99
        /\ \A c \in n.commas : c \in Nat /\ c < n.len
        /\ \A c \in p.commas : c \in Nat /\ c < p.len
    BY WordShape
  <2>0. n.len \in Nat /\ p.len \in Nat /\ n.len <= 99 /\ p.len <= 99
    BY <2>2
  <2> DEFINE x == 6 + n.len
             y == 7 + n.len + p.len
  <2>3. text.ends = <<5, x, y>> /\ Len(text.ends) = 3
    BY <2>1 DEF LoginText
  <2>4. Range(text.ends) = {5, x, y}
    BY <2>3 DEF Range
  <2>5. End(text) = y + 1
    BY <2>2, <2>3 DEF End
  <2>6. text.inner = {6 + c : c \in n.commas}
                       \cup {7 + n.len + c : c \in p.commas}
    BY <2>1 DEF LoginText
  <2>7. \A c \in text.inner : c \in Nat /\ c < y
    BY <2>2, <2>0, <2>6
  <2>8. text # NoText
    BY <2>3 DEF NoText
  <2>9. y \in Nat /\ y <= 205 /\ x \in Nat /\ x < y + 1 /\ 5 < y + 1
    BY <2>0
  <2> HIDE DEF x, y
  <2>10. \A c \in Commas(text) : c \in Nat /\ c < y + 1
    BY <2>4, <2>7, <2>9 DEF Commas
  <2>11. text.inner = {} => Commas(text) = {5, x, y}
    BY <2>4 DEF Commas
  <2>12. text.inner = {} => \E a, b, d : Commas(text) = {a, b, d}
    BY <2>11
  <2>13. y + 1 \in 0 .. RECEIVE_BUF_SIZE
    BY <2>9 DEF RECEIVE_BUF_SIZE
  <2> HIDE DEF Commas
  <2> QED
    BY <2>5, <2>8, <2>10, <2>12, <2>13
<1>2. ASSUME NEW a \in 0 .. 99, NEW b \in 0 .. 99, a < b,
             text.ends = <<a, b>>, text.inner = {}
      PROVE  /\ End(text) \in 0 .. RECEIVE_BUF_SIZE
             /\ \A c \in Commas(text) : c \in Nat /\ c < End(text)
             /\ text # NoText
             /\ text.inner = {} => \E k, l, d : Commas(text) = {k, l, d}
  <2>1. text.ends = <<a, b>> /\ Len(text.ends) = 2 /\ text.inner = {}
    BY <1>2
  <2>2. Range(text.ends) = {a, b}
    BY <2>1 DEF Range
  <2>3. End(text) = b + 1
    BY <2>1 DEF End
  <2>4. Commas(text) = {a, b, b}
    BY <2>1, <2>2 DEF Commas
  <2>5. text # NoText
    BY <2>1 DEF NoText
  <2>6. \E k, l, d : Commas(text) = {k, l, d}
    BY <2>4
  <2>7. \A c \in Commas(text) : c = a \/ c = b
    BY <2>4
  <2>8. b + 1 \in 0 .. RECEIVE_BUF_SIZE /\ a \in Nat /\ b \in Nat /\ a < b + 1 /\ b < b + 1
    BY <1>2 DEF RECEIVE_BUF_SIZE
  <2> QED
    BY <2>3, <2>5, <2>6, <2>7, <2>8
<1>3. CASE \E d \in Digits : text = DepositText(d)
  <2>1. PICK d \in Digits : text = DepositText(d)
    BY <1>3
  <2>2. 7 \in 0 .. 99 /\ 8 + d \in 0 .. 99 /\ 7 < 8 + d
    BY WireBufferAssumption
  <2>3. text.ends = <<7, 8 + d>> /\ text.inner = {}
    BY <2>1 DEF DepositText
  <2> QED
    BY <1>2, <2>2, <2>3
<1>4. CASE \E d \in Digits : text = WithdrawText(d)
  <2>1. PICK d \in Digits : text = WithdrawText(d)
    BY <1>4
  <2>2. 8 \in 0 .. 99 /\ 9 + d \in 0 .. 99 /\ 8 < 9 + d
    BY WireBufferAssumption
  <2>3. text.ends = <<8, 9 + d>> /\ text.inner = {}
    BY <2>1 DEF WithdrawText
  <2> QED
    BY <1>2, <2>2, <2>3
<1> QED
  BY <1>1, <1>3, <1>4 DEF IsText

-----------------------------------------------------------------------------
(* What overruns *)

(***************************************************************************)
(* No comma lies beyond what has been written, and between the end of the  *)
(* last text and there lie only commas that are not its own.  A client     *)
(* that waits does not touch send_info, so as long as the wire holds a     *)
(* whole request the commas in its last bytes are send_info's.             *)
(***************************************************************************)
TextInv ==
  /\ longest \in 0 .. RECEIVE_BUF_SIZE
  /\ send_info \in SUBSET Nat
  /\ \A c \in send_info : c < longest
  /\ typed # NoText =>
       /\ IsText(typed)
       /\ \A c \in send_info : c \in Commas(typed) \/ c > End(typed)

WireInv ==
  /\ wire.size \in Nat
  /\ wire.commas \in SUBSET Nat
  /\ \A c \in wire.commas :
       /\ c < wire.size
       /\ c >= wire.size - RECEIVE_BUF_SIZE =>
            wire.size < RECEIVE_BUF_SIZE \/ c - (wire.size - RECEIVE_BUF_SIZE) \in send_info
  /\ client = "menu" => wire.size < RECEIVE_BUF_SIZE

BufferInv == TextInv /\ WireInv /\ WhatOverruns

LEMMA InitBufferInv == Init => BufferInv
<1> SUFFICES ASSUME Init PROVE BufferInv
  OBVIOUS
<1>1. /\ longest = StackEnd /\ StackEnd \in 0 .. RECEIVE_BUF_SIZE
      /\ send_info \in SUBSET (0 .. StackEnd - 1)
  BY WireBufferAssumption DEF Init
<1>2. typed = NoText /\ app = "recv" /\ wire.size = 0 /\ wire.commas = {}
  BY DEF Init
<1>3. TextInv
  BY <1>1, <1>2 DEF TextInv, RECEIVE_BUF_SIZE
<1>4. WireInv
  BY <1>2 DEF WireInv, RECEIVE_BUF_SIZE
<1> QED
  BY <1>2, <1>3, <1>4 DEF BufferInv, WhatOverruns

\* What sprintf leaves is the text's own commas and older ones behind its end.
LEMMA FormatsTextInv ==
  ASSUME TextInv, NEW text, IsText(text), ClientFormats(text)
  PROVE  TextInv'
<1>1. /\ End(text) \in 0 .. RECEIVE_BUF_SIZE
      /\ \A c \in Commas(text) : c \in Nat /\ c < End(text)
  BY TextShape
<1>2. \A c \in send_info' : \/ c \in Commas(text)
                            \/ c \in send_info /\ c > End(text)
  BY DEF ClientFormats, Formatted, Commas
<1>3. /\ longest' \in 0 .. RECEIVE_BUF_SIZE
      /\ longest' >= End(text) /\ longest' >= longest
  BY <1>1 DEF ClientFormats, TextInv, RECEIVE_BUF_SIZE
<1>4. \A c \in send_info' : c \in Nat /\ c < longest'
  <2> SUFFICES ASSUME NEW c \in send_info' PROVE c \in Nat /\ c < longest'
    OBVIOUS
  <2>1. CASE c \in Commas(text)
    BY <1>1, <1>3, <2>1 DEF RECEIVE_BUF_SIZE
  <2>2. CASE c \in send_info
    BY <1>3, <2>2 DEF TextInv, RECEIVE_BUF_SIZE
  <2> QED
    BY <1>2, <2>1, <2>2
<1>5. typed' = text
  BY DEF ClientFormats
<1>6. \A c \in send_info' : c \in Commas(typed') \/ c > End(typed')
  BY <1>2, <1>5
<1> QED
  BY <1>3, <1>4, <1>5, <1>6 DEF TextInv

\* A whole request is on the wire once the client has sent it.
LEMMA SendsWireInv ==
  ASSUME WireInv, TextInv', Sends(send_info')
  PROVE  WireInv' /\ WhatOverruns'
<1>1. /\ wire.size \in Nat /\ wire.size < RECEIVE_BUF_SIZE
      /\ wire.commas \in SUBSET Nat
      /\ \A c \in wire.commas : c < wire.size
  BY DEF WireInv, Sends
<1>2. /\ wire'.size = wire.size + RECEIVE_BUF_SIZE
      /\ wire'.commas = wire.commas \cup {wire.size + c : c \in send_info'}
      /\ client' = "wait" /\ app' = "recv"
  BY DEF Sends
<1>3. \A c \in send_info' : c \in Nat /\ c < RECEIVE_BUF_SIZE
  BY DEF TextInv, RECEIVE_BUF_SIZE
<1>4. ASSUME NEW c \in wire'.commas
      PROVE  /\ c \in Nat /\ c < wire'.size
             /\ c >= wire'.size - RECEIVE_BUF_SIZE =>
                  c - (wire'.size - RECEIVE_BUF_SIZE) \in send_info'
  <2>1. CASE c \in wire.commas
    BY <1>1, <1>2, <2>1 DEF RECEIVE_BUF_SIZE
  <2>2. CASE \E b \in send_info' : c = wire.size + b
    <3>1. PICK b \in send_info' : c = wire.size + b
      BY <2>2
    <3>2. c - wire.size = b /\ c \in Nat /\ c < wire.size + RECEIVE_BUF_SIZE
      BY <1>1, <1>3, <3>1 DEF RECEIVE_BUF_SIZE
    <3>3. wire'.size - RECEIVE_BUF_SIZE = wire.size
      BY <1>1, <1>2 DEF RECEIVE_BUF_SIZE
    <3> QED
      BY <1>2, <3>1, <3>2, <3>3
  <2> QED
    BY <1>2, <1>4, <2>1, <2>2
<1>5. WireInv'
  BY <1>1, <1>2, <1>4 DEF WireInv, RECEIVE_BUF_SIZE
<1> QED
  BY <1>2, <1>5 DEF WhatOverruns

LEMMA ReadShape ==
  ASSUME WireInv, wire.size > 0, NEW n \in Arrives
  PROVE  n \in Nat /\ n > 0 /\ n <= wire.size
<1>1. CASE n \in ReadSizes /\ n < wire.size
  <2>1. n \in 1 .. 1024
    BY <1>1, WireBufferAssumption DEF RECEIVE_BUF_SIZE
  <2> QED
    BY <1>1, <2>1 DEF WireInv
<1>2. CASE n = IF wire.size < 1024 THEN wire.size ELSE 1024
  <2>1. CASE wire.size < 1024
    BY <1>2, <2>1 DEF WireInv
  <2>2. CASE ~(wire.size < 1024)
    BY <1>2, <2>2 DEF WireInv
  <2> QED
    BY <2>1, <2>2
<1> QED
  BY <1>1, <1>2 DEF Arrives, RECEIVE_BUF_SIZE

\* What a recv leaves on the wire is an end of what was there.
LEMMA RestWireInv ==
  ASSUME WireInv, NEW n \in Arrives, wire.size > 0, wire' = Rest(n),
         UNCHANGED send_info,
         client' = client \/ wire.size = RECEIVE_BUF_SIZE
  PROVE  WireInv'
<1>1. n \in Nat /\ n > 0 /\ n <= wire.size
  BY ReadShape
<1>2. /\ wire'.size = wire.size - n
      /\ wire'.commas = {c - n : c \in wire.commas \ Found(n)}
  BY DEF Rest
<1>3. ASSUME NEW c \in wire'.commas
      PROVE  /\ c \in Nat /\ c < wire'.size
             /\ c >= wire'.size - RECEIVE_BUF_SIZE =>
                  \/ wire'.size < RECEIVE_BUF_SIZE
                  \/ c - (wire'.size - RECEIVE_BUF_SIZE) \in send_info'
  <2>1. PICK b \in wire.commas : b \notin Found(n) /\ c = b - n
    BY <1>2
  <2>2. b \in Nat /\ b < wire.size /\ b >= n
    BY <1>1, <2>1 DEF WireInv, Found
  <2>3. c \in Nat /\ c < wire'.size
    BY <1>1, <1>2, <2>1, <2>2 DEF WireInv
  <2>4. /\ wire'.size - RECEIVE_BUF_SIZE = wire.size - n - RECEIVE_BUF_SIZE
        /\ c - (wire'.size - RECEIVE_BUF_SIZE) = b - (wire.size - RECEIVE_BUF_SIZE)
    BY <1>1, <1>2, <2>1, <2>2 DEF WireInv, RECEIVE_BUF_SIZE
  <2>5. ASSUME c >= wire'.size - RECEIVE_BUF_SIZE, ~(wire'.size < RECEIVE_BUF_SIZE)
        PROVE  b - (wire.size - RECEIVE_BUF_SIZE) \in send_info
    <3>1. b >= wire.size - RECEIVE_BUF_SIZE /\ ~(wire.size < RECEIVE_BUF_SIZE)
      BY <1>1, <1>2, <2>1, <2>2, <2>5 DEF WireInv, RECEIVE_BUF_SIZE
    <3> QED
      BY <3>1 DEF WireInv
  <2> QED
    BY <2>3, <2>4, <2>5
<1>4. wire'.size \in Nat /\ (client' = "menu" => wire'.size < RECEIVE_BUF_SIZE)
  BY <1>1, <1>2 DEF WireInv, RECEIVE_BUF_SIZE
<1> QED
  BY <1>3, <1>4 DEF WireInv

\* A request that begins the buffer and overruns it is one of the three.
LEMMA OverrunsWhat ==
  ASSUME TextInv, WireInv, wire.size = RECEIVE_BUF_SIZE,
         NEW n \in Nat, Cardinality(Found(n)) > 3,
         typed # NoText, typed.inner = {}, ~(End(typed) < longest)
  PROVE  FALSE
<1>1. IsText(typed) /\ End(typed) \in Nat
  BY TextShape DEF TextInv, RECEIVE_BUF_SIZE
<1>2. PICK a, b, d : Commas(typed) = {a, b, d}
  BY <1>1, TextShape
<1>3. Found(n) \subseteq send_info
  BY DEF Found, WireInv, RECEIVE_BUF_SIZE
<1>4. send_info \subseteq {a, b, d}
  <2>1. \A c \in send_info : c \in Nat /\ c < longest /\ longest \in Nat
    BY DEF TextInv, RECEIVE_BUF_SIZE
  <2>2. \A c \in send_info : ~(c > End(typed))
    BY <1>1, <2>1
  <2> QED
    BY <1>2, <2>2 DEF TextInv
<1>5. Cardinality(Found(n)) \in 0 .. 3
  BY <1>3, <1>4, AtMostThree
<1> QED
  BY <1>5

LEMMA StepBufferInv == BufferInv /\ [Next]_wireVars => BufferInv'
<1> SUFFICES ASSUME BufferInv, [Next]_wireVars
             PROVE  BufferInv'
  OBVIOUS
<1>1. CASE ClientLogsIn \/ ClientDeposits \/ ClientWithdraws
  <2>1. PICK text : IsText(text) /\ ClientFormats(text)
    BY <1>1 DEF ClientLogsIn, ClientDeposits, ClientWithdraws, IsText
  <2>2. TextInv'
    BY <2>1, FormatsTextInv DEF BufferInv
  <2> QED
    BY <2>1, <2>2, SendsWireInv DEF BufferInv, ClientFormats
<1>2. CASE ClientResends
  <2>1. TextInv' /\ Sends(send_info')
    BY <1>2 DEF ClientResends, BufferInv, TextInv, IsText, Commas
  <2> QED
    BY <2>1, SendsWireInv DEF BufferInv
<1>3. CASE AppRuns \/ AppIgnores
  <2>1. PICK n \in Arrives :
          /\ wire' = Rest(n) /\ app = "recv" /\ wire.size > 0
          /\ UNCHANGED <<send_info, typed, longest>>
          /\ client' = client \/ wire.size = RECEIVE_BUF_SIZE
          /\ app' # "overrun"
    <3>1. CASE AppRuns
      BY <3>1 DEF AppRuns, AppReceives, AtRequest, AnswersNumber, AnswerOverflows, AnswersText
    <3>2. CASE AppIgnores
      BY <3>2 DEF AppIgnores, AppReceives
    <3> QED
      BY <1>3, <3>1, <3>2
  <2>2. WireInv'
    BY <2>1, RestWireInv DEF BufferInv
  <2>3. TextInv'
    BY <2>1 DEF BufferInv, TextInv, IsText, Commas
  <2> QED
    BY <2>1, <2>2, <2>3 DEF BufferInv, WhatOverruns
<1>4. CASE AppFaults
  <2>1. UNCHANGED <<send_info, typed, longest, wire, client>> /\ app' = "fault"
    BY <1>4 DEF AppFaults, AppReceives
  <2> QED
    BY <2>1 DEF BufferInv, TextInv, WireInv, WhatOverruns
<1>5. CASE AppOverruns
  <2>1. PICK n \in Arrives :
          wire.size > 0 /\ Cardinality(Found(n)) \in 4 .. RECEIVE_BUF_SIZE
    BY <1>5 DEF AppOverruns, AppReceives
  <2>2. UNCHANGED <<send_info, typed, longest, wire, client>>
    BY <1>5 DEF AppOverruns, AppReceives
  <2>3. n \in Nat /\ Cardinality(Found(n)) > 3
    BY <2>1, ReadShape DEF RECEIVE_BUF_SIZE, BufferInv
  <2>4. \/ typed = NoText \/ typed.inner # {} \/ End(typed) < longest
        \/ wire.size # RECEIVE_BUF_SIZE
    BY <2>3, OverrunsWhat DEF BufferInv
  <2> QED
    BY <2>2, <2>4 DEF BufferInv, TextInv, WireInv, WhatOverruns
<1>6. CASE UNCHANGED wireVars
  BY <1>6 DEF BufferInv, TextInv, WireInv, WhatOverruns, wireVars
<1> QED
  BY <1>1, <1>2, <1>3, <1>4, <1>5, <1>6 DEF Next

(***************************************************************************)
(* For every set of words and amounts, however a recv is cut: a request    *)
(* that is read from its first byte, has no commas in its words and is at  *)
(* least as long as all before it fits into data.                          *)
(***************************************************************************)
THEOREM OnlyShorterOverruns == Spec => []WhatOverruns
<1>1. BufferInv => WhatOverruns
  BY DEF BufferInv
<1> QED
  BY <1>1, InitBufferInv, StepBufferInv, PTL DEF Spec

-----------------------------------------------------------------------------
(* The number in a reply *)

\* atoi reads the digits up to the first byte that is none.
LEMMA DigitsCounted ==
  ASSUME NEW bytes, NEW i \in 0 .. 13, NEW n \in 0 .. 14 - i,
         \A j \in i .. i + n - 1 : bytes[j] = "digit",
         i + n = 14 \/ bytes[i + n] # "digit"
  PROVE  DigitsAt(bytes, i) = n
<1> DEFINE Stops(m) == /\ \A j \in i .. i + m - 1 : bytes[j] = "digit"
                       /\ i + m = 14 \/ bytes[i + m] # "digit"
<1>1. Stops(n)
  OBVIOUS
<1>2. ASSUME NEW m \in 0 .. 14 - i, Stops(m)
      PROVE  m = n
  <2>1. ~(m < n)
    <3>1. m < n => i + m \in i .. i + n - 1 /\ i + m # 14
      OBVIOUS
    <3> QED
      BY <1>1, <1>2, <3>1
  <2>2. ~(n < m)
    <3>1. n < m => i + n \in i .. i + m - 1 /\ i + n # 14
      OBVIOUS
    <3> QED
      BY <1>1, <1>2, <3>1
  <2> QED
    BY <2>1, <2>2
<1>3. DigitsAt(bytes, i) = CHOOSE m \in 0 .. 14 - i : Stops(m)
  BY DEF DigitsAt
<1> HIDE DEF Stops
<1> QED
  BY <1>1, <1>2, <1>3

\* Every reply ends the digits the client reads: a number at its NUL, a text
\* before its first digit.
LEMMA AnswerIsRead ==
  ASSUME AnswersNumber \/ AnswersText
  PROVE  shown' = balance'
<1> DEFINE head == IF IsLogin(typed) THEN 5 ELSE 0
<1>1. head \in {0, 5}
  OBVIOUS
<1>2. CASE AnswersNumber
  <2>1. PICK digits \in BalanceDigits, junk \in {"digit", "text"} :
          /\ digits + 1 <= 8
          /\ balance' = digits
          /\ receive_data' = Received(NumberReply(head, digits, head + 8, junk))
          /\ shown' = DigitsAt(receive_data', head)
    BY <1>2 DEF AnswersNumber, ReplyNumber
  <2>2. digits \in 1 .. 20
    BY WireBufferAssumption
  <2> HIDE DEF head
  <2>3. \A j \in head .. head + digits : j \in Bytes /\ j \in 0 .. head + 8 - 1
    BY <1>1, <2>1, <2>2 DEF Bytes
  <2>4. \A j \in head .. head + digits - 1 : receive_data'[j] = "digit"
    BY <1>1, <2>1, <2>2, <2>3 DEF Received, NumberReply
  <2>5. receive_data'[head + digits] = "nul"
    BY <1>1, <2>1, <2>2, <2>3 DEF Received, NumberReply
  <2>6. head \in 0 .. 13 /\ digits \in 0 .. 14 - head
    BY <1>1, <2>1, <2>2
  <2> QED
    BY <2>1, <2>4, <2>5, <2>6, DigitsCounted
<1>3. CASE AnswersText
  <2>1. /\ receive_data' = Received(TextReply(IF IsLogin(typed) THEN 11 ELSE 8))
        /\ balance' = 0 /\ shown' = DigitsAt(receive_data', head)
    BY <1>3 DEF AnswersText, ReplyNumber
  <2>2. receive_data'[head] = "text"
    BY <2>1 DEF Received, TextReply, Bytes
  <2>3. head \in 0 .. 13 /\ 0 \in 0 .. 14 - head /\ head + 0 = head
        /\ \A j \in head .. head + 0 - 1 : FALSE
    BY <1>1
  <2> HIDE DEF head
  <2>4. DigitsAt(receive_data', head) = 0
    BY <2>2, <2>3, DigitsCounted
  <2> QED
    BY <2>1, <2>4
<1> QED
  BY <1>2, <1>3

(***************************************************************************)
(* For every length of a balance that send_data has room for, and whatever *)
(* send_data and receive_data held before: the client reads the digits the *)
(* App has printed (Seccap_client/client.cpp:80-97).                       *)
(***************************************************************************)
THEOREM NumberArrives == Spec => []NumberIsWhole
<1>1. Init => NumberIsWhole
  BY DEF Init, NumberIsWhole
<1>2. NumberIsWhole /\ [Next]_wireVars => NumberIsWhole'
  <2> SUFFICES ASSUME NumberIsWhole, [Next]_wireVars, client' = "menu", app' = "recv"
               PROVE  shown' = balance'
    BY DEF NumberIsWhole
  <2>1. CASE ClientLogsIn \/ ClientDeposits \/ ClientWithdraws \/ ClientResends
    BY <2>1 DEF ClientLogsIn, ClientDeposits, ClientWithdraws, ClientResends, ClientFormats, Sends
  <2>2. CASE AppRuns
    <3>1. AnswersNumber \/ AnswersText
      BY <2>2 DEF AppRuns, AnswerOverflows
    <3> QED
      BY <3>1, AnswerIsRead
  <2>3. CASE AppIgnores
    BY <2>3 DEF AppIgnores, NumberIsWhole
  <2>4. CASE AppFaults \/ AppOverruns
    BY <2>4 DEF AppFaults, AppOverruns
  <2>5. CASE UNCHANGED wireVars
    BY <2>5 DEF wireVars, NumberIsWhole
  <2> QED
    BY <2>1, <2>2, <2>3, <2>4, <2>5 DEF Next
<1> QED
  BY <1>1, <1>2, PTL DEF Spec

-----------------------------------------------------------------------------
(* The fields of a request *)

(***************************************************************************)
(* What the last text has put into send_info is there until the next; and  *)
(* a whole request on the wire has all the commas of send_info.            *)
(***************************************************************************)
WholeInv ==
  /\ typed # NoText => Commas(typed) \subseteq send_info
  /\ wire.size >= RECEIVE_BUF_SIZE =>
       \A c \in send_info : wire.size - RECEIVE_BUF_SIZE + c \in wire.commas

\* In a text without commas of its own there is one after each word.
LEMMA WordsEnd ==
  ASSUME NEW text, IsText(text), text.inner = {}
  PROVE  \E a, b, c \in Nat :
           /\ a < b /\ b < c
           /\ \/ /\ text.words = <<a, b - a - 1, c - b - 1>>
                 /\ Commas(text) = {a, b, c} /\ End(text) = c + 1
              \/ /\ text.words = <<a, b - a - 1>>
                 /\ Commas(text) = {a, b} /\ End(text) = b + 1
<1>1. CASE \E n \in NameWords, p \in PasswordWords : text = LoginText(n, p)
  <2>1. PICK n \in NameWords, p \in PasswordWords : text = LoginText(n, p)
    BY <1>1
  <2>2. n.len \in 1 .. 99 /\ p.len \in 1 .. 99
    BY WordShape
  <2> DEFINE b == 6 + n.len
             c == 7 + n.len + p.len
  <2>3. text.ends = <<5, b, c>> /\ text.words = <<5, n.len, p.len>>
    BY <2>1 DEF LoginText
  <2>4. Commas(text) = {5, b, c} /\ End(text) = c + 1
    BY <1>1, <2>3 DEF Commas, Range, End
  <2>5. n.len \in Nat /\ p.len \in Nat /\ 0 < n.len /\ 0 < p.len
    BY <2>2
  <2>6. b - 5 - 1 = n.len /\ c - b - 1 = p.len /\ 5 < b /\ b < c /\ b \in Nat /\ c \in Nat
    BY <2>5
  <2> QED
    BY <2>3, <2>4, <2>6
<1>2. ASSUME NEW a \in 0 .. 9, NEW d \in 1 .. 20,
             text.ends = <<a, a + 1 + d>>, text.words = <<a, d>>
      PROVE  /\ a < a + 1 + d
             /\ text.words = <<a, (a + 1 + d) - a - 1>>
             /\ Commas(text) = {a, a + 1 + d} /\ End(text) = a + 1 + d + 1
  <2> DEFINE b == a + 1 + d
  <2>1. text.ends = <<a, b>> /\ text.words = <<a, d>>
    BY <1>2
  <2>2. b - a - 1 = d /\ a < b
    OBVIOUS
  <2>3. Commas(text) = {a, b} /\ End(text) = b + 1
    BY <2>1 DEF Commas, Range, End
  <2> QED
    BY <2>1, <2>2, <2>3
<1>3. CASE \E d \in Digits : text = DepositText(d)
  <2>1. PICK d \in Digits : text = DepositText(d)
    BY <1>3
  <2>2. d \in 1 .. 20 /\ 7 \in 0 .. 9
    BY WireBufferAssumption
  <2>3. text.ends = <<7, 7 + 1 + d>> /\ text.words = <<7, d>>
    BY <2>1, <2>2 DEF DepositText
  <2>4. 7 + 1 + d \in Nat /\ 7 + 1 + d + 1 \in Nat /\ 7 + 1 + d < 7 + 1 + d + 1
    BY <2>2
  <2> QED
    BY <1>2, <2>2, <2>3, <2>4
<1>4. CASE \E d \in Digits : text = WithdrawText(d)
  <2>1. PICK d \in Digits : text = WithdrawText(d)
    BY <1>4
  <2>2. d \in 1 .. 20 /\ 8 \in 0 .. 9
    BY WireBufferAssumption
  <2>3. text.ends = <<8, 8 + 1 + d>> /\ text.words = <<8, d>>
    BY <2>1, <2>2 DEF WithdrawText
  <2>4. 8 + 1 + d \in Nat /\ 8 + 1 + d + 1 \in Nat /\ 8 + 1 + d < 8 + 1 + d + 1
    BY <2>2
  <2> QED
    BY <1>2, <2>2, <2>3, <2>4
<1> QED
  BY <1>1, <1>3, <1>4 DEF IsText

\* The k-th comma is the one with k - 1 before it.
LEMMA CommaFound ==
  ASSUME NEW S \in SUBSET Nat, IsFiniteSet(S), NEW c \in S, NEW k \in Nat,
         Cardinality({d \in S : d < c}) = k - 1
  PROVE  Comma(S, k) = c
<1> DEFINE Before(x) == {d \in S : d < x}
<1>0. \A x \in S : x \in Nat
  OBVIOUS
<1>1. \A x : IsFiniteSet(Before(x)) /\ Cardinality(Before(x)) \in Nat
  BY FS_Subset, FS_CardinalityType
<1>2. ASSUME NEW x \in S, NEW y \in S, x < y
      PROVE  Cardinality(Before(x)) # Cardinality(Before(y))
  <2>0. x \in Nat /\ y \in Nat
    BY <1>0
  <2>1. \A d \in S : d < x => d < y
    BY <1>0, <1>2, <2>0
  <2>s. Before(x) \subseteq Before(y)
    BY <2>1
  <2>2. x \in Before(y) /\ x \notin Before(x)
    BY <1>2, <2>0
  <2> HIDE DEF Before
  <2> QED
    BY <1>1, <2>s, <2>2, FS_Subset
<1>3. ASSUME NEW x \in S, Cardinality(Before(x)) = k - 1
      PROVE  x = c
  <2>1. Cardinality(Before(x)) = Cardinality(Before(c))
    BY <1>3
  <2>2. ~(x < c) /\ ~(c < x)
    BY <1>2, <2>1
  <2> QED
    BY <1>0, <2>2
<1>4. Comma(S, k) = CHOOSE x \in S : Cardinality(Before(x)) = k - 1
  BY DEF Comma
<1>5. Cardinality(Before(c)) = k - 1
  OBVIOUS
<1> HIDE DEF Before
<1> QED
  BY <1>3, <1>4, <1>5

LEMMA Pair ==
  ASSUME NEW a, NEW b, a # b
  PROVE  IsFiniteSet({a, b}) /\ Cardinality({a, b}) = 2
<1>1. IsFiniteSet({a}) /\ Cardinality({a}) = 1 /\ b \notin {a}
  BY FS_Singleton
<1>2. IsFiniteSet({a} \cup {b}) /\ Cardinality({a} \cup {b}) = Cardinality({a}) + 1
  BY <1>1, FS_AddElement
<1>3. {a} \cup {b} = {a, b}
  OBVIOUS
<1> QED
  BY <1>1, <1>2, <1>3

LEMMA FirstTwo ==
  ASSUME NEW S \in SUBSET Nat, IsFiniteSet(S), NEW a \in S, NEW b \in S, a < b,
         \A d \in S : d \in {a, b} \/ d > b
  PROVE  Comma(S, 1) = a /\ Comma(S, 2) = b
<1>0. \A d \in S : d \in Nat
  OBVIOUS
<1>n. a \in Nat /\ b \in Nat
  BY <1>0
<1>1. \A d \in S : ~(d < a) /\ (d < b <=> d = a)
  BY <1>0, <1>n
<1>2. {d \in S : d < a} = {} /\ {d \in S : d < b} = {a}
  BY <1>1
<1>3. Cardinality({}) = 0 /\ Cardinality({a}) = 1
  BY FS_EmptySet, FS_Singleton
<1>4. 1 - 1 = 0 /\ 2 - 1 = 1
  OBVIOUS
<1>5. Cardinality({d \in S : d < a}) = 1 - 1 /\ Cardinality({d \in S : d < b}) = 2 - 1
  BY <1>2, <1>3, <1>4
<1> QED
  BY <1>5, CommaFound

LEMMA Third ==
  ASSUME NEW S \in SUBSET Nat, IsFiniteSet(S),
         NEW a \in S, NEW b \in S, NEW c \in S, a < b, b < c,
         \A d \in S : d \in {a, b, c} \/ d > c
  PROVE  Comma(S, 3) = c
<1>0. \A d \in S : d \in Nat
  OBVIOUS
<1>n. a \in Nat /\ b \in Nat /\ c \in Nat
  BY <1>0
<1>s. \A d \in S : d < c <=> d = a \/ d = b
  BY <1>0, <1>n
<1>1. {d \in S : d < c} = {a, b}
  BY <1>s
<1>2. a # b
  BY <1>n
<1>3. Cardinality({a, b}) = 2
  BY <1>2, Pair
<1>4. Cardinality({d \in S : d < c}) = 3 - 1
  BY <1>1, <1>3
<1> QED
  BY <1>4, CommaFound

\* A buffer of the client with the text in it, and its first n bytes.
HoldsText(info, text) ==
  /\ info \in SUBSET Nat /\ Commas(text) \subseteq info
  /\ \A d \in info : d \in Commas(text) \/ d > End(text)

FirstOf(S, info, n) == \A d : d \in S <=> d \in info /\ d < n

\* The first fields are the words.
AsTyped(text, fields) ==
  /\ Len(text.words) <= Len(fields)
  /\ \A k \in DOMAIN text.words : fields[k][2] - fields[k][1] = text.words[k]

\* A recv that has returned as many commas as the text has words has returned
\* the text's own.
LEMMA WordsFound ==
  ASSUME NEW text, IsText(text), text.inner = {},
         NEW info, HoldsText(info, text),
         NEW n \in Nat, NEW S, FirstOf(S, info, n),
         IsFiniteSet(S), Cardinality(S) \in Len(text.words) .. 3
  PROVE  AsTyped(text, Split(S))
<1>0. /\ info \in SUBSET Nat /\ Commas(text) \subseteq info
      /\ \A d \in info : d \in Nat /\ (d \in Commas(text) \/ d > End(text))
      /\ \A d : d \in S <=> d \in info /\ d < n
  BY DEF HoldsText, FirstOf
<1>1. PICK a, b, c \in Nat :
        /\ a < b /\ b < c
        /\ \/ /\ text.words = <<a, b - a - 1, c - b - 1>>
              /\ Commas(text) = {a, b, c} /\ End(text) = c + 1
           \/ /\ text.words = <<a, b - a - 1>>
              /\ Commas(text) = {a, b} /\ End(text) = b + 1
  BY WordsEnd
<1> DEFINE m == Cardinality(S)
           ends == [k \in 1 .. m |-> Comma(S, k)]
<1>2. /\ S \in SUBSET Nat /\ m \in Nat
      /\ \A d \in info : d \in Nat
  BY <1>0, FS_CardinalityType
<1>3. Split(S) = [k \in 1 .. m |-> <<IF k = 1 THEN 0 ELSE ends[k - 1] + 1, ends[k]>>]
  BY DEF Split, Fields
<1>f. /\ Len(Split(S)) = m
      /\ \A k \in 1 .. m : /\ Split(S)[k][2] = Comma(S, k)
                           /\ k = 1 => Split(S)[k][1] = 0
                           /\ k # 1 => Split(S)[k][1] = Comma(S, k - 1) + 1
  <2> HIDE DEF m
  <2>1. Len(Split(S)) = m
    BY <1>2, <1>3
  <2>2. ASSUME NEW k \in 1 .. m
        PROVE  /\ Split(S)[k][2] = ends[k]
               /\ Split(S)[k][1] = IF k = 1 THEN 0 ELSE ends[k - 1] + 1
    <3> HIDE DEF ends
    <3> QED
      BY <1>3
  <2>3. \A k \in 1 .. m : ends[k] = Comma(S, k) /\ (k # 1 => k - 1 \in 1 .. m)
    BY <1>2
  <2> HIDE DEF ends
  <2> QED
    BY <2>1, <2>2, <2>3
<1> HIDE DEF ends
<1>4. CASE /\ text.words = <<a, b - a - 1, c - b - 1>>
           /\ Commas(text) = {a, b, c} /\ End(text) = c + 1
  <2>1. c \in S
    <3> SUFFICES ASSUME c \notin S PROVE FALSE
      OBVIOUS
    <3>1. \A d \in S : d < c /\ d \in Commas(text)
      BY <1>0, <1>1, <1>2, <1>4
    <3>2. S \subseteq {a, b}
      BY <1>2, <1>4, <3>1
    <3>3. m <= 2
      <4>1. a # b
        BY <1>1
      <4>2. IsFiniteSet({a, b}) /\ Cardinality({a, b}) = 2
        BY <4>1, Pair
      <4>3. S \in SUBSET {a, b}
        BY <3>2
      <4> HIDE DEF m
      <4>4. Cardinality(S) <= Cardinality({a, b})
        BY <4>2, <4>3, FS_Subset
      <4> QED
        BY <4>2, <4>4 DEF m
    <3>4. m >= 3
      BY <1>2, <1>4
    <3> QED
      BY <1>2, <3>3, <3>4
  <2>2. a \in S /\ b \in S
    BY <1>0, <1>1, <1>4, <2>1
  <2>3. \A d \in S : d \in {a, b, c} \/ d > c
    BY <1>0, <1>1, <1>2, <1>4
  <2>4. \A d \in S : d \in {a, b} \/ d > b
    <3>1. \A d \in S : d \in Nat
      BY <1>2
    <3> QED
      BY <1>1, <2>3, <3>1
  <2>5. Comma(S, 1) = a /\ Comma(S, 2) = b /\ Comma(S, 3) = c
    BY <1>1, <1>2, <2>1, <2>2, <2>3, <2>4, FirstTwo, Third
  <2>6. m = 3 /\ Len(text.words) = 3 /\ DOMAIN text.words = 1 .. 3
    BY <1>2, <1>4
  <2>7. 1 \in 1 .. m /\ 2 \in 1 .. m /\ 3 \in 1 .. m /\ 2 - 1 = 1 /\ 3 - 1 = 2
    BY <2>6
  <2> HIDE DEF m
  <2>8. /\ Split(S)[1][1] = 0     /\ Split(S)[1][2] = a
        /\ Split(S)[2][1] = a + 1 /\ Split(S)[2][2] = b
        /\ Split(S)[3][1] = b + 1 /\ Split(S)[3][2] = c
        /\ Len(Split(S)) = 3
    BY <1>f, <2>5, <2>6, <2>7
  <2>9. a - 0 = a /\ b - (a + 1) = b - a - 1 /\ c - (b + 1) = c - b - 1
    OBVIOUS
  <2>10. text.words[1] = a /\ text.words[2] = b - a - 1 /\ text.words[3] = c - b - 1
    BY <1>4
  <2>11. \A k \in DOMAIN text.words : k = 1 \/ k = 2 \/ k = 3
    BY <2>6
  <2> QED
    BY <2>6, <2>8, <2>9, <2>10, <2>11 DEF AsTyped
<1>5. CASE /\ text.words = <<a, b - a - 1>>
           /\ Commas(text) = {a, b} /\ End(text) = b + 1
  <2>1. b \in S
    <3> SUFFICES ASSUME b \notin S PROVE FALSE
      OBVIOUS
    <3>0. ~(b < n)
      BY <1>0, <1>1, <1>5
    <3>1. \A d \in S : d < b /\ d \in Nat /\ d \in info
      BY <1>0, <1>2, <3>0
    <3>s. \A d \in S : d = a \/ d = b \/ d > b + 1
      BY <1>0, <1>5
    <3>2. S \in SUBSET {a}
      BY <3>1, <3>s
    <3>3. IsFiniteSet({a}) /\ Cardinality({a}) = 1
      BY FS_Singleton
    <3>4. m <= 1
      <4>1. Cardinality(S) <= Cardinality({a})
        BY <3>2, <3>3, FS_Subset
      <4> QED
        BY <3>3, <4>1
    <3>5. m >= 2
      BY <1>2, <1>5
    <3> QED
      BY <1>2, <3>4, <3>5
  <2>2. a \in S
    BY <1>0, <1>1, <1>5, <2>1
  <2>3. \A d \in S : d \in {a, b} \/ d > b
    BY <1>0, <1>1, <1>2, <1>5
  <2>4. Comma(S, 1) = a /\ Comma(S, 2) = b
    BY <1>1, <1>2, <2>1, <2>2, <2>3, FirstTwo
  <2>5. m >= 2 /\ Len(text.words) = 2 /\ DOMAIN text.words = 1 .. 2
    BY <1>2, <1>5
  <2>6. 1 \in 1 .. m /\ 2 \in 1 .. m /\ 2 - 1 = 1 /\ m \in Nat
    BY <1>2, <2>5
  <2> HIDE DEF m
  <2>7. /\ Split(S)[1][1] = 0     /\ Split(S)[1][2] = a
        /\ Split(S)[2][1] = a + 1 /\ Split(S)[2][2] = b
        /\ Len(Split(S)) = m
    BY <1>f, <2>4, <2>6
  <2>8. a - 0 = a /\ b - (a + 1) = b - a - 1
    OBVIOUS
  <2>9. text.words[1] = a /\ text.words[2] = b - a - 1
    BY <1>5
  <2>10. \A k \in DOMAIN text.words : k = 1 \/ k = 2
    BY <2>5
  <2> QED
    BY <2>5, <2>6, <2>7, <2>8, <2>9, <2>10 DEF AsTyped
<1> QED
  BY <1>1, <1>4, <1>5

\* A command runs with the words its text has.
LEMMA RunsWithWords ==
  ASSUME TextInv, WireInv, WholeInv, AppRuns, typed.inner = {}
  PROVE  /\ Len(typed.words) <= Len(data')
         /\ \A k \in DOMAIN typed.words : data'[k][2] - data'[k][1] = typed.words[k]
<1>1. PICK n \in Arrives :
        /\ wire.size = RECEIVE_BUF_SIZE /\ typed # NoText
        /\ wire.size > 0 /\ Cardinality(Found(n)) \in Len(typed.words) .. 3
        /\ data' = Split(Found(n))
  BY DEF AppRuns, AtRequest, AppReceives
<1>2. n \in Nat
  BY <1>1, ReadShape
<1>3. /\ IsText(typed) /\ send_info \in SUBSET Nat
      /\ \A d \in send_info : d \in Commas(typed) \/ d > End(typed)
      /\ Commas(typed) \subseteq send_info
  BY <1>1 DEF TextInv, WholeInv
<1>4. Found(n) = {d \in send_info : d < n}
  <2>1. \A c \in wire.commas : c \in Nat /\ c \in send_info
    BY <1>1 DEF WireInv, RECEIVE_BUF_SIZE
  <2>2. \A c \in send_info : c \in wire.commas
    <3>1. wire.size >= RECEIVE_BUF_SIZE
      BY <1>1 DEF RECEIVE_BUF_SIZE
    <3>2. \A c \in send_info : wire.size - RECEIVE_BUF_SIZE + c = c
      BY <1>1, <1>3 DEF RECEIVE_BUF_SIZE
    <3> QED
      BY <3>1, <3>2 DEF WholeInv
  <2> QED
    BY <2>1, <2>2 DEF Found
<1>5. IsFiniteSet(Found(n))
  <2>1. IsFiniteSet(0 .. n)
    BY <1>2, FS_Interval
  <2>2. \A d \in Found(n) : d \in Nat /\ d < n
    BY <1>3, <1>4
  <2>3. \A d \in Found(n) : d \in 0 .. n
    BY <1>2, <2>2
  <2> QED
    BY <2>1, <2>3, FS_Subset
<1>6. FirstOf(Found(n), send_info, n) /\ HoldsText(send_info, typed)
  BY <1>3, <1>4 DEF FirstOf, HoldsText
<1>7. AsTyped(typed, Split(Found(n)))
  BY <1>1, <1>2, <1>3, <1>5, <1>6, WordsFound
<1> QED
  BY <1>1, <1>7 DEF AsTyped

LEMMA StepWholeInv ==
  ASSUME BufferInv, WholeInv, FieldsAreTyped, [Next]_wireVars
  PROVE  WholeInv' /\ FieldsAreTyped'
<1>0. TextInv /\ WireInv
  BY DEF BufferInv
<1>s. ASSUME Sends(send_info'), BufferInv',
             typed' # NoText => Commas(typed') \subseteq send_info'
      PROVE  WholeInv' /\ FieldsAreTyped'
  <2>1. /\ wire'.size = wire.size + RECEIVE_BUF_SIZE /\ wire.size \in Nat
        /\ wire'.commas = wire.commas \cup {wire.size + c : c \in send_info'}
        /\ client' = "wait"
    BY <1>0, <1>s DEF Sends, WireInv
  <2>2. wire'.size - RECEIVE_BUF_SIZE = wire.size
    BY <2>1 DEF RECEIVE_BUF_SIZE
  <2>3. \A c \in send_info' : wire'.size - RECEIVE_BUF_SIZE + c \in wire'.commas
    BY <2>1, <2>2
  <2> QED
    BY <1>s, <2>1, <2>3 DEF WholeInv, FieldsAreTyped
<1>b. BufferInv'
  BY StepBufferInv
<1>1. CASE ClientLogsIn \/ ClientDeposits \/ ClientWithdraws
  <2>1. PICK text : ClientFormats(text)
    BY <1>1 DEF ClientLogsIn, ClientDeposits, ClientWithdraws
  <2>2. Sends(send_info') /\ typed' = text /\ send_info' = Formatted(send_info, text)
    BY <2>1 DEF ClientFormats
  <2>3. Commas(typed') \subseteq send_info'
    BY <2>2 DEF Formatted, Commas
  <2> QED
    BY <1>b, <1>s, <2>2, <2>3
<1>2. CASE ClientResends
  <2>1. typed' = typed /\ send_info' = send_info /\ Sends(send_info')
    BY <1>2 DEF ClientResends
  <2>2. typed' # NoText => Commas(typed') \subseteq send_info'
    BY <2>1 DEF WholeInv
  <2> QED
    BY <1>b, <1>s, <2>1, <2>2
<1>r. ASSUME NEW n \in Arrives, wire' = Rest(n), wire.size > 0,
             typed' = typed, send_info' = send_info
      PROVE  WholeInv'
  <2>1. n \in Nat /\ n > 0 /\ n <= wire.size /\ wire.size \in Nat
    BY <1>0, <1>r, ReadShape DEF WireInv
  <2>2. /\ wire'.size = wire.size - n
        /\ wire'.commas = {c - n : c \in wire.commas \ Found(n)}
    BY <1>r DEF Rest
  <2>3. ASSUME wire'.size >= RECEIVE_BUF_SIZE, NEW c \in send_info
        PROVE  wire'.size - RECEIVE_BUF_SIZE + c \in wire'.commas
    <3>1. c \in Nat
      BY <1>0 DEF TextInv
    <3> DEFINE b == wire.size - RECEIVE_BUF_SIZE + c
    <3>2. b \in wire.commas
      BY <2>1, <2>2, <2>3 DEF WholeInv, RECEIVE_BUF_SIZE
    <3>3. ~(b < n) /\ wire'.size - RECEIVE_BUF_SIZE + c = b - n
      BY <2>1, <2>2, <2>3, <3>1 DEF RECEIVE_BUF_SIZE
    <3> HIDE DEF b
    <3> QED
      BY <2>2, <3>2, <3>3 DEF Found
  <2>4. Commas(typed') = Commas(typed)
    BY <1>r DEF Commas
  <2> QED
    BY <1>r, <2>3, <2>4 DEF WholeInv
<1>3. CASE AppRuns
  <2>1. PICK n \in Arrives : AppReceives(n, Len(typed.words) .. 3) /\ wire' = Rest(n)
    BY <1>3 DEF AppRuns
  <2>2. WholeInv' /\ typed' = typed
    BY <1>r, <2>1 DEF AppReceives
  <2>3. FieldsAreTyped'
    BY <1>0, <1>3, <2>2, RunsWithWords DEF FieldsAreTyped
  <2> QED
    BY <2>2, <2>3
<1>4. CASE AppIgnores
  <2>1. PICK n \in Arrives : AppReceives(n, 1 .. 3) /\ wire' = Rest(n) /\ data' = <<>>
    BY <1>4 DEF AppIgnores
  <2>2. WholeInv'
    BY <1>r, <2>1 DEF AppReceives
  <2> QED
    BY <2>1, <2>2 DEF FieldsAreTyped
<1>5. CASE AppFaults \/ AppOverruns
  <2>1. /\ UNCHANGED <<send_info, typed, wire>> /\ app' # "recv"
    BY <1>5 DEF AppFaults, AppOverruns, AppReceives
  <2> QED
    BY <2>1 DEF WholeInv, FieldsAreTyped, Commas
<1>6. CASE UNCHANGED wireVars
  BY <1>6 DEF WholeInv, FieldsAreTyped, Commas, wireVars
<1> QED
  BY <1>1, <1>2, <1>3, <1>4, <1>5, <1>6 DEF Next

(***************************************************************************)
(* For every set of words and amounts, any leftover of the stack and       *)
(* however a recv is cut: a command runs with the words just typed, unless *)
(* they hold commas (App/App.cpp:301-357).                                 *)
(***************************************************************************)
THEOREM CommandsAreTyped == Spec => []FieldsAreTyped
<1>1. Init => WholeInv /\ FieldsAreTyped
  BY DEF Init, WholeInv, FieldsAreTyped, RECEIVE_BUF_SIZE
<1>2. BufferInv /\ WholeInv /\ FieldsAreTyped /\ [Next]_wireVars
        => BufferInv' /\ WholeInv' /\ FieldsAreTyped'
  BY StepBufferInv, StepWholeInv
<1> QED
  BY <1>1, <1>2, InitBufferInv, PTL DEF Spec

=============================================================================

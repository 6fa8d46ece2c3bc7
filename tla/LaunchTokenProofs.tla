------------------------- MODULE LaunchTokenProofs -------------------------
(***************************************************************************)
(* Starting with a launch token changes nothing of what is proved of the   *)
(* bank, hands the SDK no torn token, and closes what it has opened.       *)
(***************************************************************************)
EXTENDS LaunchTokenProperties, BankServiceProofs

\* No step of a start touches the enclave's side.
LEMMA StartStep == [StartNext]_<<vars, tokenVars>> => [Next]_vars
<1> SUFFICES ASSUME [StartNext]_<<vars, tokenVars>>
             PROVE  [Next]_vars
  OBVIOUS
<1>1. CASE BankRuns
  BY <1>1 DEF BankRuns
<1>2. CASE \E s \in Servers : Starts(s)
  BY <1>2 DEF Starts, OpensTokenFile, ReadsToken, CreateFails, CreatesEnclave,
              ReopensTokenFile, SavesToken, StartIsKilled
<1>3. CASE UNCHANGED <<vars, tokenVars>>
  BY <1>3
<1> QED
  BY <1>1, <1>2, <1>3 DEF StartNext

(***************************************************************************)
(* A server that starts as initialize_enclave does is a DealManager: no    *)
(* launch token, no torn token file and no start that dies on its way      *)
(* lets the enclave do what DealManager does not.                          *)
(***************************************************************************)
THEOREM StartImplementsServer == StartSpec => Spec
BY StartStep, PTL DEF StartSpec, Spec

(***************************************************************************)
(* So a name has one account however servers start, fail and start again.  *)
(***************************************************************************)
THEOREM StartKeepsNames == StartSpec => []UniqueNames
BY StartImplementsServer, NamesStayUnique, PTL

(***************************************************************************)
(* With a single server, the account file is an earlier state of its list, *)
(* and no account that was once readable there is ever missing from a      *)
(* server that works, wherever a start fails or is killed before it gets   *)
(* to the file, or a store before it is done (App/App.cpp:111-171, 268).   *)
(***************************************************************************)
COROLLARY StartKeepsFile ==
  ASSUME OneServer, ListsFit
  PROVE  StartSpec => []StoredIsEarlier /\ NothingForgotten
BY StartImplementsServer, OlderListIsStored, NothingIsForgotten, PTL

(***************************************************************************)
(* And on a disk that does not fail it is the abstract bank that starts.   *)
(***************************************************************************)
COROLLARY StartImplementsBank ==
  ASSUME OneServer, Servers # {}, ListsFit, ~FlushFails, ~TornWrites
  PROVE  StartSpec => ImplementsBank
BY StartImplementsServer, EnclaveImplementsBank, PTL

-----------------------------------------------------------------------------

Stages == {"none", "read", "create", "save", "write", "done"}
Modes  == {"none", "rb", "wb"}

\* NothingLeftOpen is inductive once boot and fp are known to be functions.
StreamInv ==
  /\ boot \in [Servers -> Stages]
  /\ fp \in [Servers -> Modes]
  /\ NothingLeftOpen

\* What a step of a start does to boot and fp.
Moves(s, to, mode) ==
  /\ boot' = [boot EXCEPT ![s] = to]
  /\ fp' = [fp EXCEPT ![s] = mode]
  /\ mode # "none" => to \in {"read", "create", "save", "write"}

LEMMA StartMoves ==
  ASSUME StreamInv, NEW s \in Servers, Starts(s)
  PROVE  \E to \in Stages, mode \in Modes : Moves(s, to, mode)
<1>1. /\ boot \in [Servers -> Stages] /\ fp \in [Servers -> Modes]
      /\ fp[s] \in Modes /\ fp = [fp EXCEPT ![s] = fp[s]]
  BY DEF StreamInv
<1>2. CASE OpensTokenFile(s)
  <2>1. boot' = [boot EXCEPT ![s] = "read"]
    BY <1>2 DEF OpensTokenFile, Goes
  <2>2. \E mode \in Modes : fp' = [fp EXCEPT ![s] = mode]
    <3>1. \/ fp' = [fp EXCEPT ![s] = "rb"] \/ fp' = [fp EXCEPT ![s] = "wb"]
          \/ fp' = fp
      BY <1>2 DEF OpensTokenFile, Stream
    <3> QED
      BY <1>1, <3>1 DEF Modes
  <2> QED
    BY <2>1, <2>2 DEF Moves, Stages
<1>3. CASE ReadsToken(s)
  <2>1. boot' = [boot EXCEPT ![s] = "create"] /\ fp' = fp
    BY <1>3 DEF ReadsToken, Goes
  <2> QED
    BY <1>1, <2>1 DEF Moves, Stages
<1>4. CASE CreateFails(s) \/ SavesToken(s) \/ StartIsKilled(s)
  <2>1. fp' = [fp EXCEPT ![s] = "none"]
    BY <1>4 DEF CreateFails, SavesToken, StartIsKilled, Stream
  <2>2. \E to \in {"none", "done"} : boot' = [boot EXCEPT ![s] = to]
    BY <1>4 DEF CreateFails, SavesToken, StartIsKilled, Goes
  <2> QED
    BY <2>1, <2>2 DEF Moves, Stages, Modes
<1>5. CASE CreatesEnclave(s)
  <2>1. \/ /\ boot' = [boot EXCEPT ![s] = "done"]
           /\ fp' = [fp EXCEPT ![s] = "none"]
        \/ boot' = [boot EXCEPT ![s] = "save"] /\ fp' = fp
    BY <1>5 DEF CreatesEnclave, Goes, Stream
  <2> QED
    BY <1>1, <2>1 DEF Moves, Stages, Modes
<1>6. CASE ReopensTokenFile(s)
  <2>1. \/ /\ boot' = [boot EXCEPT ![s] = "write"]
           /\ fp' = [fp EXCEPT ![s] = "wb"]
        \/ /\ boot' = [boot EXCEPT ![s] = "done"]
           /\ fp' = [fp EXCEPT ![s] = "none"]
    BY <1>6 DEF ReopensTokenFile, Goes, Stream
  <2> QED
    BY <2>1 DEF Moves, Stages, Modes
<1> QED
  BY <1>2, <1>3, <1>4, <1>5, <1>6 DEF Starts

\* A start moves one server, and one that is not running yet.
LEMMA StartStreamInv ==
  ASSUME StreamInv, NEW s \in Servers, Starts(s)
  PROVE  StreamInv'
<1>1. PICK to \in Stages, mode \in Modes : Moves(s, to, mode)
  BY StartMoves
<1>2. proc' = proc
  BY DEF Starts, vars, OpensTokenFile, ReadsToken, CreateFails, CreatesEnclave,
         ReopensTokenFile, SavesToken, StartIsKilled
<1>3. proc[s] = "down"
  <2>1. CASE OpensTokenFile(s) \/ StartIsKilled(s)
    BY <2>1 DEF OpensTokenFile, StartIsKilled
  <2>2. CASE \/ ReadsToken(s) \/ CreateFails(s) \/ CreatesEnclave(s)
             \/ ReopensTokenFile(s) \/ SavesToken(s)
    <3>1. boot[s] # "done"
      BY <2>2 DEF ReadsToken, CreateFails, CreatesEnclave, ReopensTokenFile,
                  SavesToken, Goes
    <3> QED
      BY <3>1 DEF StreamInv, NothingLeftOpen
  <2> QED
    BY <2>1, <2>2 DEF Starts
<1>4. boot' \in [Servers -> Stages] /\ fp' \in [Servers -> Modes]
  BY <1>1 DEF StreamInv, Moves
<1>5. ASSUME NEW r \in Servers
      PROVE  /\ fp'[r] # "none" => boot'[r] \in {"read", "create", "save", "write"}
             /\ proc'[r] # "down" => boot'[r] = "done"
  <2>1. CASE r = s
    BY <1>1, <1>2, <1>3, <2>1 DEF StreamInv, Moves
  <2>2. CASE r # s
    BY <1>1, <1>2, <2>2 DEF StreamInv, Moves, NothingLeftOpen
  <2> QED
    BY <2>1, <2>2
<1> QED
  BY <1>4, <1>5 DEF StreamInv, NothingLeftOpen

\* The bank moves processes: those that begin are done with their start.
LEMMA BankStreamInv ==
  ASSUME StreamInv, BankRuns
  PROVE  StreamInv'
<1>1. fp' = fp
  BY DEF BankRuns
<1>2. boot' = [s \in Servers |->
                 IF proc'[s] # proc[s] /\ proc'[s] = "down" THEN "none" ELSE boot[s]]
  BY DEF BankRuns
<1>3. boot' \in [Servers -> Stages]
  BY <1>2 DEF StreamInv, Stages
<1>4. ASSUME NEW r \in Servers
      PROVE  /\ fp'[r] # "none" => boot'[r] \in {"read", "create", "save", "write"}
             /\ proc'[r] # "down" => boot'[r] = "done"
  <2>1. CASE proc'[r] # proc[r] /\ proc'[r] = "down"
    <3>1. fp[r] = "none"
      BY <2>1 DEF StreamInv, NothingLeftOpen
    <3> QED
      BY <1>1, <2>1, <3>1
  <2>2. CASE ~(proc'[r] # proc[r] /\ proc'[r] = "down")
    <3>1. boot'[r] = boot[r]
      BY <1>2, <2>2
    <3>2. proc'[r] # "down" => boot[r] = "done"
      BY <2>2 DEF BankRuns, StreamInv, NothingLeftOpen
    <3> QED
      BY <1>1, <3>1, <3>2 DEF StreamInv, NothingLeftOpen
  <2> QED
    BY <2>1, <2>2
<1> QED
  BY <1>1, <1>3, <1>4 DEF StreamInv, NothingLeftOpen

(***************************************************************************)
(* For any number of servers: initialize_enclave leaves the token file     *)
(* closed on each of its ways out, and the bank runs after it.             *)
(***************************************************************************)
THEOREM StartClosesFile == StartSpec => []NothingLeftOpen
<1>1. Init /\ TokenInit => StreamInv
  BY DEF Init, TokenInit, StreamInv, NothingLeftOpen, Stages, Modes
<1>2. StreamInv /\ [StartNext]_<<vars, tokenVars>> => StreamInv'
  <2> SUFFICES ASSUME StreamInv, [StartNext]_<<vars, tokenVars>>
               PROVE  StreamInv'
    OBVIOUS
  <2>1. CASE UNCHANGED <<vars, tokenVars>>
    BY <2>1 DEF vars, tokenVars, StreamInv, NothingLeftOpen
  <2> QED
    BY <2>1, StartStreamInv, BankStreamInv DEF StartNext
<1>3. StreamInv => NothingLeftOpen
  BY DEF StreamInv
<1> QED
  BY <1>1, <1>2, <1>3, PTL DEF StartSpec

-----------------------------------------------------------------------------

Issued  == {Whole(t) : t \in Tokens}

\* What one server leaves in the token file: a token, cut off somewhere.
Saved   == {<<>>} \cup {<<t>> : t \in Tokens} \cup Issued

\* With one server: what a stream reads is there and is a token cut off, and
\* what is being saved is whole and goes into an empty file.
TokenInv ==
  /\ token \in [Servers -> {Zero} \cup Issued]
  /\ token_file = NoFile \/ token_file \in Saved
  /\ \A s \in Servers :
       /\ fp[s] = "rb" => token_file \in Saved
       /\ boot[s] \in {"save", "write"} => token[s] \in Issued
       /\ boot[s] = "write" => token_file = <<>>

\* The first n halves of a token.
LEMMA FirstHalves ==
  ASSUME NEW t
  PROVE  /\ SubSeq(<<t, t>>, 1, 0) = <<>>
         /\ SubSeq(<<t, t>>, 1, 1) = <<t>>
         /\ SubSeq(<<t, t>>, 1, 2) = <<t, t>>
<1>1. SubSeq(<<t, t>>, 1, 0) = <<>>
  OBVIOUS
<1>2. SubSeq(<<t, t>>, 1, 1) = <<t>>
  <2>1. /\ SubSeq(<<t, t>>, 1, 1) \in Seq({t}) /\ <<t>> \in Seq({t})
        /\ Len(SubSeq(<<t, t>>, 1, 1)) = 1 /\ Len(<<t>>) = 1
        /\ SubSeq(<<t, t>>, 1, 1)[1] = t /\ <<t>>[1] = t
    OBVIOUS
  <2>2. \A i \in 1 .. Len(SubSeq(<<t, t>>, 1, 1)) : SubSeq(<<t, t>>, 1, 1)[i] = <<t>>[i]
    <3>1. \A i \in 1 .. 1 : i = 1
      OBVIOUS
    <3> QED
      BY <2>1, <3>1
  <2> QED
    BY <2>1, <2>2, SeqEqual
<1>3. SubSeq(<<t, t>>, 1, 2) = <<t, t>>
  <2>1. /\ <<t, t>> \in Seq({t}) /\ Len(<<t, t>>) = 2
    OBVIOUS
  <2> QED
    BY <2>1, SubSeqFull
<1> QED
  BY <1>1, <1>2, <1>3

\* What a write of n halves leaves in an empty file.
LEMMA Halves ==
  ASSUME NEW t, NEW n \in 0 .. 2
  PROVE  SubSeq(<<t, t>>, 1, n) \o SubSeq(<<>>, n + 1, Len(<<>>)) \in {<<>>, <<t>>, <<t, t>>}
<1>1. SubSeq(<<>>, n + 1, Len(<<>>)) = <<>>
  OBVIOUS
<1>2. SubSeq(<<t, t>>, 1, n) \in {<<>>, <<t>>, <<t, t>>}
  <2>1. n = 0 \/ n = 1 \/ n = 2
    OBVIOUS
  <2> QED
    BY <2>1, FirstHalves
<1>3. SubSeq(<<t, t>>, 1, n) \in Seq({t})
  BY <1>2
<1>4. SubSeq(<<t, t>>, 1, n) \o <<>> = SubSeq(<<t, t>>, 1, n)
  BY <1>3, ConcatEmptySeq
<1> QED
  BY <1>1, <1>2, <1>4

\* A read is whole only if the file is.
LEMMA WholeRead ==
  ASSUME TokenInv, NEW s \in Servers, NEW n \in 0 .. 2, Len(Read(s, n)) = 2
  PROVE  Read(s, n) \in Issued
<1>1. fp[s] = "rb" /\ n <= Len(token_file) /\ Read(s, n) = SubSeq(token_file, 1, n)
  BY DEF Read
<1>2. token_file \in Saved
  BY <1>1 DEF TokenInv
<1>3. CASE token_file = <<>>
  BY <1>1, <1>3
<1>4. ASSUME NEW t \in Tokens, token_file = <<t>>
      PROVE  FALSE
  <2>1. n = 0 \/ n = 1
    BY <1>1, <1>4
  <2>2. Len(SubSeq(<<t>>, 1, n)) # 2
    BY <2>1
  <2> QED
    BY <1>1, <1>4, <2>2
<1>5. ASSUME NEW t \in Tokens, token_file = Whole(t)
      PROVE  Read(s, n) = Whole(t)
  <2>1. Len(SubSeq(<<t, t>>, 1, n)) = n
    BY DEF Whole
  <2>2. n = 2
    BY <1>1, <1>5, <2>1 DEF Whole
  <2> QED
    BY <1>1, <1>5, <2>2, FirstHalves DEF Whole
<1> QED
  BY <1>2, <1>3, <1>4, <1>5 DEF Saved, Issued

LEMMA StartTokenInv ==
  ASSUME OneServer, StreamInv, TokenInv, NEW s \in Servers, Starts(s)
  PROVE  TokenInv'
<1>1. /\ boot \in [Servers -> Stages] /\ fp \in [Servers -> Modes]
      /\ token \in [Servers -> {Zero} \cup Issued] /\ token[s] \in {Zero} \cup Issued
  BY DEF StreamInv, TokenInv
<1>2. \A r \in Servers : r = s
  BY DEF OneServer
<1>3. CASE OpensTokenFile(s)
  <2>1. token' = token /\ boot'[s] = "read"
    BY <1>1, <1>3 DEF OpensTokenFile, Goes
  <2>2. \/ token_file # NoFile /\ token_file' = token_file
        \/ fp'[s] = "wb" /\ token_file' = <<>>
        \/ fp' = fp /\ token_file' = token_file
    BY <1>1, <1>3 DEF OpensTokenFile, Stream
  <2>3. /\ token_file' = NoFile \/ token_file' \in Saved
        /\ fp'[s] = "rb" => token_file' \in Saved
    BY <2>2 DEF TokenInv, Saved
  <2> QED
    BY <1>1, <1>2, <2>1, <2>3 DEF TokenInv
<1>4. CASE ReadsToken(s)
  <2>1. fp' = fp /\ token_file' = token_file /\ boot'[s] = "create"
    BY <1>1, <1>4 DEF ReadsToken, Goes
  <2>2. PICK n \in 0 .. 2 :
          token' = [token EXCEPT ![s] = IF Len(Read(s, n)) = 2 THEN Read(s, n) ELSE Zero]
    BY <1>4 DEF ReadsToken
  <2>3. Len(Read(s, n)) = 2 => Read(s, n) \in Issued
    BY WholeRead
  <2>4. token' \in [Servers -> {Zero} \cup Issued]
    BY <1>1, <2>2, <2>3
  <2> QED
    BY <1>2, <2>1, <2>4 DEF TokenInv
<1>5. CASE CreateFails(s)
  <2>1. /\ boot'[s] = "none" /\ fp'[s] = "none" /\ token_file' = token_file
        /\ token' = [token EXCEPT ![s] = Zero]
    BY <1>1, <1>5 DEF CreateFails, Goes, Stream
  <2> QED
    BY <1>1, <1>2, <2>1 DEF TokenInv
<1>6. CASE CreatesEnclave(s)
  <2>1. token_file' = token_file
    BY <1>6 DEF CreatesEnclave
  <2>2. CASE /\ Goes(s, "create", "done") /\ Stream(s, "none")
             /\ token' = [token EXCEPT ![s] = Zero]
    <3>1. boot'[s] = "done" /\ fp'[s] = "none"
      BY <1>1, <2>2 DEF Goes, Stream
    <3> QED
      BY <1>1, <1>2, <2>1, <2>2, <3>1 DEF TokenInv
  <2>3. CASE /\ Goes(s, "create", "save") /\ fp' = fp
             /\ \E t \in Tokens : token' = [token EXCEPT ![s] = Whole(t)]
    <3>1. boot'[s] = "save"
      BY <1>1, <2>3 DEF Goes
    <3>2. token' \in [Servers -> {Zero} \cup Issued] /\ token'[s] \in Issued
      BY <1>1, <2>3 DEF Issued
    <3> QED
      BY <1>2, <2>1, <2>3, <3>1, <3>2 DEF TokenInv
  <2> QED
    BY <1>6, <2>2, <2>3 DEF CreatesEnclave
<1>7. CASE ReopensTokenFile(s)
  <2>1. CASE /\ Goes(s, "save", "write") /\ Stream(s, "wb")
             /\ token_file' = <<>> /\ token' = token
    <3>1. boot[s] = "save" /\ boot'[s] = "write" /\ fp'[s] = "wb"
      BY <1>1, <2>1 DEF Goes, Stream
    <3> QED
      BY <1>1, <1>2, <2>1, <3>1 DEF TokenInv, Saved
  <2>2. CASE /\ Goes(s, "save", "done") /\ Stream(s, "none")
             /\ token' = [token EXCEPT ![s] = Zero] /\ token_file' = token_file
    <3>1. boot'[s] = "done" /\ fp'[s] = "none"
      BY <1>1, <2>2 DEF Goes, Stream
    <3> QED
      BY <1>1, <1>2, <2>2, <3>1 DEF TokenInv
  <2> QED
    BY <1>7, <2>1, <2>2 DEF ReopensTokenFile
<1>8. ASSUME boot[s] = "write", NEW n \in 0 .. 2
      PROVE  Written(s, n) \in Saved
  <2>1. token_file = <<>>
    BY <1>8 DEF TokenInv
  <2>2. PICK t \in Tokens : token[s] = <<t, t>>
    BY <1>8 DEF TokenInv, Issued, Whole
  <2>3. Written(s, n) \in {<<>>, <<t>>, <<t, t>>}
    BY <2>1, <2>2, Halves DEF Written
  <2> QED
    BY <2>3 DEF Saved, Issued, Whole
<1>9. CASE SavesToken(s) \/ StartIsKilled(s)
  <2>1. /\ boot'[s] \in {"done", "none"} /\ fp'[s] = "none"
        /\ token' = [token EXCEPT ![s] = Zero]
    BY <1>1, <1>9 DEF SavesToken, StartIsKilled, Goes, Stream
  <2>2. token_file' = token_file \/ token_file' \in Saved
    BY <1>8, <1>9 DEF SavesToken, StartIsKilled, Goes
  <2> QED
    BY <1>1, <1>2, <2>1, <2>2 DEF TokenInv
<1> QED
  BY <1>3, <1>4, <1>5, <1>6, <1>7, <1>9 DEF Starts

\* The bank leaves the token file alone.
LEMMA BankTokenInv ==
  ASSUME StreamInv, TokenInv, BankRuns
  PROVE  TokenInv'
<1>1. UNCHANGED <<token, fp, token_file>>
  BY DEF BankRuns
<1>2. \A s \in Servers : boot'[s] = "none" \/ boot'[s] = boot[s]
  BY DEF BankRuns
<1> QED
  BY <1>1, <1>2 DEF TokenInv

(***************************************************************************)
(* With one server, and for any tokens and any faults: the SDK is handed   *)
(* whole tokens or zeroes, whatever a start that died or a full disk has   *)
(* left in the file (App.cpp:140-145, 164-167).                            *)
(***************************************************************************)
THEOREM StartHandsWholeTokens ==
  ASSUME OneServer
  PROVE  StartSpec => []HandedIsWhole
<1>1. Init /\ TokenInit => StreamInv /\ TokenInv
  BY DEF Init, TokenInit, StreamInv, NothingLeftOpen, Stages, Modes, TokenInv
<1>2. StreamInv /\ TokenInv /\ [StartNext]_<<vars, tokenVars>> => StreamInv' /\ TokenInv'
  <2> SUFFICES ASSUME StreamInv, TokenInv, [StartNext]_<<vars, tokenVars>>
               PROVE  StreamInv' /\ TokenInv'
    OBVIOUS
  <2>1. CASE UNCHANGED <<vars, tokenVars>>
    BY <2>1 DEF vars, tokenVars, StreamInv, NothingLeftOpen, TokenInv
  <2> QED
    BY <2>1, StartStreamInv, BankStreamInv, StartTokenInv, BankTokenInv DEF StartNext
<1>3. TokenInv => HandedIsWhole
  BY DEF TokenInv, HandedIsWhole, Issued
<1> QED
  BY <1>1, <1>2, <1>3, PTL DEF StartSpec

-----------------------------------------------------------------------------
(* Types, for any number of servers *)

(***************************************************************************)
(* A stream has a file: what fread and fwrite work on is there.  And what  *)
(* is being saved is a token the SDK has issued.                           *)
(***************************************************************************)
SavingInv ==
  /\ TokenTypeOK
  /\ \A s \in Servers :
       /\ fp[s] # "none" => token_file # NoFile
       /\ boot[s] \in {"save", "write"} => token[s] \in Issued

\* The rest of a file, and its beginning.
LEMMA PieceOf ==
  ASSUME NEW S, NEW q \in Seq(S), NEW m \in Nat, NEW n \in Nat
  PROVE  SubSeq(q, m + 1, n) \in Seq(S) \/ n > Len(q)
<1>1. CASE n <= Len(q)
  <2>1. \A i \in m + 1 .. n : i \in 1 .. Len(q)
    BY <1>1, LenProperties
  <2>2. \A i \in m + 1 .. n : q[i] \in S
    BY <2>1, ElementOfSeq
  <2> QED
    BY <2>2, SubSeqProperties
<1> QED
  BY <1>1, LenProperties

LEMMA WrittenType ==
  ASSUME NEW s \in Servers, token[s] \in Issued, token_file \in Seq(Tokens),
         NEW n \in 0 .. 2
  PROVE  Written(s, n) \in Seq(Tokens)
<1>1. SubSeq(token[s], 1, n) \in Seq(Tokens)
  <2>1. PICK t \in Tokens : token[s] = <<t, t>>
    BY DEF Issued, Whole
  <2>2. n = 0 \/ n = 1 \/ n = 2
    OBVIOUS
  <2>3. SubSeq(<<t, t>>, 1, n) \in {<<>>, <<t>>, <<t, t>>}
    BY <2>2, FirstHalves
  <2> QED
    BY <2>1, <2>3
<1>2. Len(token_file) \in Nat /\ n \in Nat
  BY LenProperties
<1>3. SubSeq(token_file, n + 1, Len(token_file)) \in Seq(Tokens)
  BY <1>2, PieceOf
<1> QED
  BY <1>1, <1>3, ConcatProperties DEF Written

LEMMA ReadType ==
  ASSUME NEW s \in Servers, SavingInv, NEW n \in 0 .. 2
  PROVE  Read(s, n) \in Seq(Tokens \cup {Blank})
<1>1. CASE fp[s] = "rb" /\ n <= Len(token_file)
  <2>1. token_file \in Seq(Tokens \cup {Blank})
    BY <1>1 DEF SavingInv, TokenTypeOK
  <2>2. \A i \in 1 .. n : token_file[i] \in Tokens \cup {Blank}
    BY <1>1, <2>1, LenProperties, ElementOfSeq
  <2>3. SubSeq(token_file, 1, n) \in Seq(Tokens \cup {Blank})
    BY <2>2, SubSeqProperties
  <2> QED
    BY <1>1, <2>3 DEF Read
<1>2. CASE ~(fp[s] = "rb" /\ n <= Len(token_file))
  BY <1>2 DEF Read
<1> QED
  BY <1>1, <1>2

LEMMA StartSavingInv ==
  ASSUME SavingInv, NEW s \in Servers, Starts(s)
  PROVE  SavingInv'
<1>0. /\ boot \in [Servers -> Stages] /\ fp \in [Servers -> Modes]
      /\ token \in [Servers -> Seq(Tokens \cup {Blank})]
      /\ token_file = NoFile \/ token_file \in Seq(Tokens)
  BY DEF SavingInv, TokenTypeOK, Stages, Modes
<1>1. /\ Zero \in Seq(Tokens \cup {Blank}) /\ Issued \subseteq Seq(Tokens \cup {Blank})
      /\ <<>> \in Seq(Tokens) /\ NoFile \notin Seq(Tokens)
  <2>1. \A q \in Seq(Tokens) : q \in Seq(Tokens \cup {Blank})
    OBVIOUS
  <2>2. Zero \in Seq(Tokens \cup {Blank}) /\ <<>> \in Seq(Tokens)
    BY DEF Zero
  <2>3. \A t \in Tokens : Whole(t) \in Seq(Tokens \cup {Blank})
    BY DEF Whole
  <2>4. Issued \subseteq Seq(Tokens \cup {Blank})
    BY <2>3 DEF Issued
  <2>5. NoFile \notin Seq(Tokens)
    BY <2>1, LaunchTokenAssumption
  <2> QED
    BY <2>2, <2>4, <2>5
<1>g. \* What is left to see of each action.
      ASSUME NEW to \in Stages, NEW mode \in Modes,
             NEW t \in Seq(Tokens \cup {Blank}),
             boot' = [boot EXCEPT ![s] = to], fp' = [fp EXCEPT ![s] = mode],
             token' = [token EXCEPT ![s] = t],
             token_file' = token_file \/ token_file' \in Seq(Tokens),
             to \in {"save", "write"} => mode # "none" /\ t \in Issued,
             mode # "none" => token_file' # NoFile
      PROVE  SavingInv'
  <2>1. /\ boot' \in [Servers -> Stages] /\ fp' \in [Servers -> Modes]
        /\ token' \in [Servers -> Seq(Tokens \cup {Blank})]
        /\ token_file' = NoFile \/ token_file' \in Seq(Tokens)
    BY <1>0, <1>g
  <2>2. ASSUME NEW r \in Servers
        PROVE  /\ boot'[r] \in {"save", "write"} => fp'[r] # "none" /\ token'[r] \in Issued
               /\ fp'[r] # "none" => token_file' # NoFile
    <3>1. CASE r = s
      BY <1>0, <1>g, <3>1
    <3>2. CASE r # s
      BY <1>0, <1>1, <1>g, <3>2 DEF SavingInv, TokenTypeOK
    <3> QED
      BY <3>1, <3>2
  <2> QED
    BY <2>1, <2>2 DEF SavingInv, TokenTypeOK, Stages, Modes
<1>2. /\ fp[s] \in Modes /\ fp = [fp EXCEPT ![s] = fp[s]]
      /\ token[s] \in Seq(Tokens \cup {Blank}) /\ token = [token EXCEPT ![s] = token[s]]
      /\ fp[s] # "none" => token_file # NoFile
      /\ boot[s] \in {"save", "write"} => fp[s] # "none" /\ token[s] \in Issued
  BY <1>0 DEF SavingInv, TokenTypeOK
<1>s. /\ Stages = {"none", "read", "create", "save", "write", "done"}
      /\ Modes = {"none", "rb", "wb"}
  BY DEF Stages, Modes
<1>3. CASE OpensTokenFile(s)
  <2>1. boot' = [boot EXCEPT ![s] = "read"] /\ token' = token
    BY <1>3 DEF OpensTokenFile, Goes
  <2>2. \/ token_file # NoFile /\ fp' = [fp EXCEPT ![s] = "rb"] /\ token_file' = token_file
        \/ fp' = [fp EXCEPT ![s] = "wb"] /\ token_file' = <<>>
        \/ fp' = fp /\ token_file' = token_file
    BY <1>3 DEF OpensTokenFile, Stream
  <2>3. CASE token_file # NoFile /\ fp' = [fp EXCEPT ![s] = "rb"] /\ token_file' = token_file
    BY <1>2, <1>g, <1>s, <2>1, <2>3
  <2>4. CASE fp' = [fp EXCEPT ![s] = "wb"] /\ token_file' = <<>>
    <3>1. token_file' \in Seq(Tokens) /\ token_file' # NoFile
      BY <1>1, <2>4
    <3> QED
      BY <1>2, <1>g, <1>s, <2>1, <2>4, <3>1
  <2>5. CASE fp' = fp /\ token_file' = token_file
    BY <1>2, <1>g, <1>s, <2>1, <2>5
  <2> QED
    BY <2>2, <2>3, <2>4, <2>5
<1>4. CASE ReadsToken(s)
  <2>1. boot' = [boot EXCEPT ![s] = "create"] /\ fp' = fp /\ token_file' = token_file
    BY <1>4 DEF ReadsToken, Goes
  <2>2. PICK n \in 0 .. 2 :
          token' = [token EXCEPT ![s] = IF Len(Read(s, n)) = 2 THEN Read(s, n) ELSE Zero]
    BY <1>4 DEF ReadsToken
  <2>3. (IF Len(Read(s, n)) = 2 THEN Read(s, n) ELSE Zero) \in Seq(Tokens \cup {Blank})
    BY <1>1, ReadType
  <2> QED
    BY <1>2, <1>g, <1>s, <2>1, <2>2, <2>3
<1>5. CASE CreateFails(s)
  <2>1. /\ boot' = [boot EXCEPT ![s] = "none"] /\ fp' = [fp EXCEPT ![s] = "none"]
        /\ token' = [token EXCEPT ![s] = Zero] /\ token_file' = token_file
    BY <1>5 DEF CreateFails, Goes, Stream
  <2> QED
    BY <1>1, <1>g, <1>s, <2>1
<1>6. CASE CreatesEnclave(s)
  <2>1. \/ /\ boot' = [boot EXCEPT ![s] = "done"] /\ fp' = [fp EXCEPT ![s] = "none"]
           /\ token' = [token EXCEPT ![s] = Zero] /\ token_file' = token_file
        \/ /\ boot' = [boot EXCEPT ![s] = "save"] /\ fp' = fp /\ fp[s] # "none"
           /\ \E t \in Tokens : token' = [token EXCEPT ![s] = Whole(t)]
           /\ token_file' = token_file
    BY <1>6 DEF CreatesEnclave, Goes, Stream
  <2>2. \A t \in Tokens : Whole(t) \in Issued
    BY DEF Issued
  <2>3. CASE /\ boot' = [boot EXCEPT ![s] = "done"] /\ fp' = [fp EXCEPT ![s] = "none"]
             /\ token' = [token EXCEPT ![s] = Zero] /\ token_file' = token_file
    BY <1>1, <1>g, <1>s, <2>3
  <2>4. ASSUME NEW t \in Tokens, token' = [token EXCEPT ![s] = Whole(t)],
               boot' = [boot EXCEPT ![s] = "save"], fp' = fp, fp[s] # "none",
               token_file' = token_file
        PROVE  SavingInv'
    <3>1. Whole(t) \in Issued /\ Whole(t) \in Seq(Tokens \cup {Blank})
      BY <1>1, <2>2
    <3> HIDE DEF Issued
    <3> QED
      BY <1>2, <1>g, <1>s, <2>4, <3>1
  <2> QED
    BY <2>1, <2>3, <2>4
<1>7. CASE ReopensTokenFile(s)
  <2>1. \/ /\ boot' = [boot EXCEPT ![s] = "write"] /\ fp' = [fp EXCEPT ![s] = "wb"]
           /\ token' = token /\ token_file' = <<>> /\ boot[s] = "save"
        \/ /\ boot' = [boot EXCEPT ![s] = "done"] /\ fp' = [fp EXCEPT ![s] = "none"]
           /\ token' = [token EXCEPT ![s] = Zero] /\ token_file' = token_file
    BY <1>7 DEF ReopensTokenFile, Goes, Stream
  <2>2. CASE /\ boot' = [boot EXCEPT ![s] = "write"] /\ fp' = [fp EXCEPT ![s] = "wb"]
             /\ token' = token /\ token_file' = <<>> /\ boot[s] = "save"
    <3>1. token[s] \in Issued /\ token' = [token EXCEPT ![s] = token[s]]
      BY <1>2, <2>2
    <3>2. token_file' \in Seq(Tokens) /\ token_file' # NoFile
      BY <1>1, <2>2
    <3> QED
      BY <1>2, <1>g, <1>s, <2>2, <3>1, <3>2
  <2>3. CASE /\ boot' = [boot EXCEPT ![s] = "done"] /\ fp' = [fp EXCEPT ![s] = "none"]
             /\ token' = [token EXCEPT ![s] = Zero] /\ token_file' = token_file
    BY <1>1, <1>g, <1>s, <2>3
  <2> QED
    BY <2>1, <2>2, <2>3
<1>8. CASE SavesToken(s) \/ StartIsKilled(s)
  <2>1. /\ \E to \in {"none", "done"} : boot' = [boot EXCEPT ![s] = to]
        /\ fp' = [fp EXCEPT ![s] = "none"] /\ token' = [token EXCEPT ![s] = Zero]
    BY <1>8 DEF SavesToken, StartIsKilled, Goes, Stream
  <2>2. \/ token_file' = token_file
        \/ /\ boot[s] = "write"
           /\ \E n \in 0 .. 2 : token_file' = Written(s, n)
    BY <1>8 DEF SavesToken, StartIsKilled, Goes
  <2>3. token_file' = token_file \/ token_file' \in Seq(Tokens)
    BY <1>0, <1>2, <2>2, WrittenType
  <2>4. PICK to \in {"none", "done"} : boot' = [boot EXCEPT ![s] = to]
    BY <2>1
  <2> QED
    BY <1>1, <1>g, <1>s, <2>1, <2>3, <2>4
<1> QED
  BY <1>3, <1>4, <1>5, <1>6, <1>7, <1>8 DEF Starts

\* The bank only takes processes back to where no start is.
LEMMA BankSavingInv ==
  ASSUME SavingInv, BankRuns
  PROVE  SavingInv'
<1>1. UNCHANGED <<token, fp, token_file>>
  BY DEF BankRuns
<1>2. /\ \A s \in Servers : boot'[s] = "none" \/ boot'[s] = boot[s]
      /\ boot' \in [Servers -> Stages]
  BY DEF BankRuns, SavingInv, TokenTypeOK, Stages
<1> QED
  BY <1>1, <1>2 DEF SavingInv, TokenTypeOK, Stages

(***************************************************************************)
(* For any number of servers: freopen and fwrite are never handed a NULL   *)
(* stream (App.cpp:164, 166), and the token file holds nothing but halves  *)
(* of tokens.                                                              *)
(***************************************************************************)
THEOREM StartTypeCorrect == StartSpec => []TokenTypeOK
<1>1. Init /\ TokenInit => SavingInv
  <2>1. Zero \in Seq(Tokens \cup {Blank})
    BY DEF Zero
  <2> QED
    BY <2>1 DEF TokenInit, SavingInv, TokenTypeOK
<1>2. SavingInv /\ [StartNext]_<<vars, tokenVars>> => SavingInv'
  <2> SUFFICES ASSUME SavingInv, [StartNext]_<<vars, tokenVars>>
               PROVE  SavingInv'
    OBVIOUS
  <2>1. CASE UNCHANGED <<vars, tokenVars>>
    BY <2>1 DEF tokenVars, SavingInv, TokenTypeOK
  <2> QED
    BY <2>1, StartSavingInv, BankSavingInv DEF StartNext
<1>3. SavingInv => TokenTypeOK
  BY DEF SavingInv
<1> QED
  BY <1>1, <1>2, <1>3, PTL DEF StartSpec

=============================================================================

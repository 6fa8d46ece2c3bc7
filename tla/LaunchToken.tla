----------------------------- MODULE LaunchToken -----------------------------
(***************************************************************************)
(* How a server starts: initialize_enclave of App/App.cpp creates its      *)
(* enclave with the launch token a former start has saved, and saves a new *)
(* one when the SDK has updated it.  Only then main calls the enclave, and *)
(* DealManager begins.                                                     *)
(*                                                                         *)
(* All servers of a user share one token file, apart from the bank's.  A   *)
(* token is a sequence of its two halves: a write that was torn leaves the *)
(* first one only, or the first of one token and the second of another.    *)
(***************************************************************************)
EXTENDS DealManager, Sequences

CONSTANTS
  Tokens,  \* launch tokens the SDK issues
  Blank,   \* bytes that are zero
  NoFile   \* the token file does not exist

ASSUME LaunchTokenAssumption ==
  Blank \notin Tokens /\ NoFile \notin Seq(Tokens \cup {Blank})

VARIABLES
  boot,       \* where initialize_enclave is: none, read, create, save, write, done
  token,      \* its variable of that name
  fp,         \* the mode of the stream it has open, none if fp is NULL
  token_file  \* halves of tokens, or NoFile

tokenVars == <<boot, token, fp, token_file>>

Whole(t) == <<t, t>>
Zero     == <<Blank, Blank>>

TokenInit ==
  /\ boot  = [s \in Servers |-> "none"]
  /\ token = [s \in Servers |-> Zero]
  /\ fp    = [s \in Servers |-> "none"]
  /\ token_file = NoFile

Goes(s, from, to) == boot[s] = from /\ boot' = [boot EXCEPT ![s] = to]

Stream(s, mode) == fp' = [fp EXCEPT ![s] = mode]

-----------------------------------------------------------------------------

\* fopen for reading; if that fails for writing, which empties the file.
OpensTokenFile(s) ==
  /\ proc[s] = "down" /\ Goes(s, "none", "read")
  /\ \/ token_file # NoFile /\ Stream(s, "rb") /\ UNCHANGED token_file
     \/ Stream(s, "wb") /\ token_file' = <<>>
     \/ UNCHANGED <<fp, token_file>>
  /\ UNCHANGED <<vars, token>>

\* What fread finds; a stream open for writing, and an error, give nothing.
Read(s, n) == IF fp[s] = "rb" /\ n <= Len(token_file) THEN SubSeq(token_file, 1, n) ELSE <<>>

\* Variant for the mutants: a part of a token is not cleared.
ReadsTokenAsItIs(s) ==
  /\ Goes(s, "read", "create")
  /\ \E n \in 0 .. 2 :
       token' = [token EXCEPT ![s] = Read(s, n) \o SubSeq(Zero, Len(Read(s, n)) + 1, 2)]
  /\ UNCHANGED <<vars, fp, token_file>>

ReadsToken(s) ==
  /\ Goes(s, "read", "create")
  /\ \E n \in 0 .. 2 :
       token' = [token EXCEPT ![s] = IF Len(Read(s, n)) = 2 THEN Read(s, n) ELSE Zero]
  /\ UNCHANGED <<vars, fp, token_file>>

\* sgx_create_enclave fails: main returns -1.
CreateFails(s) ==
  /\ Goes(s, "create", "none")
  /\ token' = [token EXCEPT ![s] = Zero]
  /\ Stream(s, "none")
  /\ UNCHANGED <<vars, token_file>>

\* Variant for the mutants: the stream stays open when nothing is saved.
CreatesEnclaveHoldingOn(s) ==
  /\ \/ Goes(s, "create", "done") /\ token' = [token EXCEPT ![s] = Zero]
     \/ /\ Goes(s, "create", IF fp[s] = "none" THEN "done" ELSE "save")
        /\ \E t \in Tokens : token' = [token EXCEPT ![s] = Whole(t)]
  /\ UNCHANGED <<vars, fp, token_file>>

\* Variant for the mutants: an updated token is saved whatever fp is.
CreatesEnclaveSavingAnyway(s) ==
  /\ \/ /\ Goes(s, "create", "done")
        /\ token' = [token EXCEPT ![s] = Zero]
        /\ Stream(s, "none")
     \/ /\ Goes(s, "create", "save")
        /\ \E t \in Tokens : token' = [token EXCEPT ![s] = Whole(t)]
        /\ UNCHANGED fp
  /\ UNCHANGED <<vars, token_file>>

\* It succeeds; a token it has updated is going to be saved,
\* unless fp is NULL.
CreatesEnclave(s) ==
  /\ \/ /\ Goes(s, "create", "done")
        /\ token' = [token EXCEPT ![s] = Zero]
        /\ Stream(s, "none")
     \/ /\ fp[s] # "none" /\ Goes(s, "create", "save")
        /\ \E t \in Tokens : token' = [token EXCEPT ![s] = Whole(t)]
        /\ UNCHANGED fp
  /\ UNCHANGED <<vars, token_file>>

\* freopen empties the file, or fails with the stream closed.
ReopensTokenFile(s) ==
  /\ \/ Goes(s, "save", "write") /\ Stream(s, "wb") /\ token_file' = <<>> /\ UNCHANGED token
     \/ /\ Goes(s, "save", "done") /\ Stream(s, "none")
        /\ token' = [token EXCEPT ![s] = Zero] /\ UNCHANGED token_file
  /\ UNCHANGED vars

\* The first n halves of the token get into the file, at its head.
Written(s, n) == SubSeq(token[s], 1, n) \o SubSeq(token_file, n + 1, Len(token_file))

SavesToken(s) ==
  /\ Goes(s, "write", "done")
  /\ \E n \in 0 .. 2 : (n = 2 \/ TornWrites) /\ token_file' = Written(s, n)
  /\ token' = [token EXCEPT ![s] = Zero]
  /\ Stream(s, "none")
  /\ UNCHANGED vars

\* Killed on the way.
StartIsKilled(s) ==
  /\ boot[s] # "none" /\ proc[s] = "down"
  /\ boot' = [boot EXCEPT ![s] = "none"]
  /\ token' = [token EXCEPT ![s] = Zero]
  /\ Stream(s, "none")
  /\ \/ UNCHANGED token_file
     \/ TornWrites /\ boot[s] = "write" /\ token_file' = Written(s, 1)
  /\ UNCHANGED vars

-----------------------------------------------------------------------------

\* main goes on with ecallInitManager; when the process ends, all of it does.
BankRuns ==
  /\ Next
  /\ \A s \in Servers : proc[s] = "down" /\ proc'[s] # "down" => boot[s] = "done"
  /\ boot' = [s \in Servers |-> IF proc'[s] # proc[s] /\ proc'[s] = "down" THEN "none" ELSE boot[s]]
  /\ UNCHANGED <<token, fp, token_file>>

Starts(s) ==
  \/ OpensTokenFile(s) \/ ReadsToken(s) \/ CreateFails(s) \/ CreatesEnclave(s)
  \/ ReopensTokenFile(s) \/ SavesToken(s) \/ StartIsKilled(s)

StartNext == BankRuns \/ \E s \in Servers : Starts(s)

StartSpec == Init /\ TokenInit /\ [][StartNext]_<<vars, tokenVars>>

=============================================================================

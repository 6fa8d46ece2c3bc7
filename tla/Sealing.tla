------------------------------ MODULE Sealing ------------------------------
(***************************************************************************)
(* The "account" file and what the enclave puts into it: marshalling       *)
(* (DealManager::AccountListStoreStorage, AccountListSetting), sealing and *)
(* unsealing (Enclave/sealing.cpp), and the ocalls of App/App.cpp that     *)
(* overwrite and read the file.                                            *)
(*                                                                         *)
(* Bytes are counted, not spelled out.  Every account marshals to          *)
(* AccountSize bytes (names and passwords of one length), a sealed image   *)
(* is SealHeader bytes longer than its text.  A file is                    *)
(*   size   its length on disk,                                            *)
(*   bytes  the length of the text of the image at its head, 0 when the    *)
(*          head is not an image that unseals (damaged, or never written), *)
(*   plain  the whole accounts among those bytes.                          *)
(***************************************************************************)
EXTENDS Account, Sequences

CONSTANTS
  AccountSize,  \* bytes of one marshalled account
  SealHeader,   \* bytes sealing adds; sizeof(sgx_sealed_data_t) = 560
  SealModulus   \* 2^16: sealing() takes and returns uint16_t sizes

ASSUME SealingAssumption ==
  /\ AccountSize \in Nat \ {0}
  /\ SealHeader  \in Nat \ {0}
  /\ SealModulus \in Nat \ {0}

NotAnImage == [plain |-> <<>>, bytes |-> 0]

\* The loop that adds up all_account_data_size, a size_t.
MarshalSize(list) == AccountSize * Len(list)

\* secret_plain_data_size: the same number squeezed into a uint16_t.
PlainSize(list) == MarshalSize(list) % SealModulus

\* get_sealed_data_size: only prints when the size is too big, then truncates.
SealedSize(list) == (SealHeader + PlainSize(list)) % SealModulus

(***************************************************************************)
(* sealing(): sgx_seal_data refuses an empty text and a buffer smaller     *)
(* than the image; the caller only prints and returns the zeroed buffer.   *)
(* Otherwise the first PlainSize bytes of the marshalled list are sealed.  *)
(***************************************************************************)
SealedImage(list) ==
  IF PlainSize(list) > 0 /\ SealHeader + PlainSize(list) < SealModulus
  THEN [plain |-> SubSeq(list, 1, PlainSize(list) \div AccountSize),
        bytes |-> PlainSize(list)]
  ELSE NotAnImage

EmptyFile == [size |-> 0, plain |-> <<>>, bytes |-> 0]

Larger(m, n) == IF m < n THEN n ELSE m

(***************************************************************************)
(* ocallAccountListStore opens the file in | out, that is without          *)
(* truncation: the image replaces the head and the file never shrinks.     *)
(***************************************************************************)
Overwritten(f, list) ==
  IF SealedSize(list) = 0
  THEN f
  ELSE [size  |-> Larger(f.size, SealedSize(list)),
        plain |-> SealedImage(list).plain,
        bytes |-> SealedImage(list).bytes]

\* The file after a write that has stopped half way, its process killed or
\* its disk full: neither image is whole.
HalfWritten(f) ==
  [size |-> Larger(f.size, 1), plain |-> <<>>, bytes |-> 0]

(***************************************************************************)
(* AccountListSetting reads n bytes from the head.  They unseal when they  *)
(* hold the whole image, and the scan of the text stops at its end only    *)
(* when the text is a whole number of accounts: the loop tests the         *)
(* pointer for equality with the end, so any other text is overrun until   *)
(* the '\n' assertion or a fault stops the enclave.                        *)
(***************************************************************************)
Unseals(f, n) ==
  /\ f.bytes > 0
  /\ SealHeader + f.bytes <= n
  /\ f.bytes % AccountSize = 0

=============================================================================

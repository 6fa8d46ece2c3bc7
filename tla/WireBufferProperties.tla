------------------------ MODULE WireBufferProperties ------------------------
(***************************************************************************)
(* What must hold of the fields the App finds in a request.                *)
(***************************************************************************)
EXTENDS WireBuffer

(***************************************************************************)
(* A command runs with the words just typed, unless they hold commas,      *)
(* whatever texts the buffer held before and wherever a recv was cut: all  *)
(* of them are found, each as long as it was typed, and what older, longer *)
(* requests have left behind comes after them.  No amount is ever read in  *)
(* part (App.cpp:301-357).                                                 *)
(***************************************************************************)
FieldsAreTyped ==
  data # <<>> /\ typed.inner = {} /\ client = "menu" /\ app = "recv" =>
    /\ Len(typed.words) <= Len(data)
    /\ \A k \in DOMAIN typed.words : data[k][2] - data[k][1] = typed.words[k]

(***************************************************************************)
(* The App writes data[3] for four reasons only: the client has sent a     *)
(* buffer it never filled, somebody has typed a comma in a word, the       *)
(* request is shorter than what the buffer held before, or a short recv    *)
(* has left a part of the request before in front of it.                   *)
(***************************************************************************)
WhatOverruns ==
  app = "overrun" =>
    \/ typed = NoText \/ typed.inner # {} \/ End(typed) < longest
    \/ wire.size # RECEIVE_BUF_SIZE

(***************************************************************************)
(* The number the client reads in a reply has the digits the App has       *)
(* printed, as long as send_data had room for them, whatever longer reply, *)
(* or leftover of the stack, receive_data held before (client.cpp:80-97).  *)
(***************************************************************************)
NumberIsWhole == client = "menu" /\ app = "recv" => shown = balance

(***************************************************************************)
(* "split received data" (App.cpp:312): data has room for what is found.   *)
(***************************************************************************)
FieldsFit == app # "overrun"

=============================================================================

------------------------------ MODULE OrderBook ------------------------------
(***************************************************************************)
(* What the trade service promises about its orders, without requests,     *)
(* crashes, log rows or lost answers.  An order is opened before anything  *)
(* of it reaches the chain, at most one transaction is ever sent for it,   *)
(* and it is settled once: as on chain, with the hash of that transaction, *)
(* or as failed.                                                           *)
(*                                                                         *)
(* trade/internal/logic/createmarketorderlogic.go promises it;             *)
(* OrderLifecycle is shown to implement this module.                       *)
(***************************************************************************)
CONSTANTS
  Orders,
  Hashes,      \* hashes of transactions
  NoHash       \* the empty tx_hash column

VARIABLES
  status,      \* "none" before the order has a row
  hash,        \* tx_hash column
  sent         \* transactions of the order that the chain's node accepted

book == <<status, hash, sent>>

Init ==
  /\ status = [o \in Orders |-> "none"]
  /\ hash = [o \in Orders |-> NoHash]
  /\ sent = [o \in Orders |-> {}]

Open(o) ==
  /\ status[o] = "none"
  /\ status' = [status EXCEPT ![o] = "proc"]
  /\ UNCHANGED <<hash, sent>>

Transmit(o) ==
  /\ status[o] = "proc"
  /\ sent[o] = {}
  /\ \E h \in Hashes : sent' = [sent EXCEPT ![o] = {h}]
  /\ UNCHANGED <<status, hash>>

Settle(o) ==
  /\ status[o] = "proc"
  /\ \E h \in sent[o] :
       /\ status' = [status EXCEPT ![o] = "onchain"]
       /\ hash' = [hash EXCEPT ![o] = h]
  /\ UNCHANGED sent

(* The answer to a transmission may be lost, so a failed order may have    *)
(* been sent.                                                              *)
Fail(o) ==
  /\ status[o] = "proc"
  /\ status' = [status EXCEPT ![o] = "fail"]
  /\ UNCHANGED <<hash, sent>>

Next == \E o \in Orders : Open(o) \/ Transmit(o) \/ Settle(o) \/ Fail(o)

Spec == Init /\ [][Next]_book
=============================================================================

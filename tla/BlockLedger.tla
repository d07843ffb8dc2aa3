----------------------------- MODULE BlockLedger -----------------------------
(***************************************************************************)
(* What the consumer service promises about the `block` table, said slot   *)
(* by slot and without channels, workers or retries.  A slot gets a record *)
(* at most once, a failed record may be recorded again, and a record that  *)
(* says processed or skipped is the last word on its slot.  The SOL price  *)
(* stored with a processed block was read in that block or in an earlier   *)
(* one, never in a later one.                                              *)
(*                                                                         *)
(* consumer/internal/logic/sol/block/block.go, ProcessBlock, is the code   *)
(* that promises it; BlockIngest is shown to implement this module.        *)
(***************************************************************************)
EXTENDS Integers

CONSTANTS
  Slots,       \* slot numbers
  Produced,    \* the slots the chain has a block for
  BlockPrice   \* SOL price found in the transactions of a block, 0 if none

VARIABLES
  status,      \* the verdict of the table on each slot
  price        \* the SOL price stored with it

ledger == <<status, price>>

Final == {"processed", "skipped"}

(* A price the chain had shown by slot s.                                  *)
KnownBy(s) == {BlockPrice[t] : t \in {u \in Produced : u <= s}} \ {0}

Init ==
  /\ status = [s \in Slots |-> "none"]
  /\ price = [s \in Slots |-> 0]

(* The chain has no block at s.                                            *)
Skip(s) ==
  /\ status[s] \notin Final
  /\ s \notin Produced
  /\ status' = [status EXCEPT ![s] = "skipped"]
  /\ UNCHANGED price

(* The block could not be fetched; it stays open for another attempt.      *)
Fail(s) ==
  /\ status[s] \notin Final
  /\ status' = [status EXCEPT ![s] = "failed"]
  /\ UNCHANGED price

(* The block was fetched, priced and decoded.                              *)
Process(s) ==
  /\ status[s] \notin Final
  /\ s \in Produced
  /\ status' = [status EXCEPT ![s] = "processed"]
  /\ \E p \in KnownBy(s) : price' = [price EXCEPT ![s] = p]

Next == \E s \in Slots : Skip(s) \/ Fail(s) \/ Process(s)

Spec == Init /\ [][Next]_ledger
=============================================================================

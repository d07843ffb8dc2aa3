----------------------------- MODULE PumpTrades -----------------------------
(***************************************************************************)
(* Decoding the PumpFun trades of a transaction (block.go, pump.go).  The  *)
(* chain executes the trades of a transaction one after the other, as      *)
(* instructions of their own or called by other programs, and logs one     *)
(* event for each.  The decoder walks the instructions, not the calls, and *)
(* matches them with the events by counting.                               *)
(***************************************************************************)
EXTENDS Integers, SequencesExt, Lists

(* What the chain executes: trades of a pair, called from outside or by    *)
(* another program, with a token account that has a balance in the         *)
(* transaction or has none.                                                *)
Trades(pairs) ==
  [pair : pairs, level : {"outer", "inner"}, account : {"known", "unknown"}]

(* The events of a transaction, in the order of execution; the node cuts   *)
(* its log after so many, and one that does not decode voids them all.     *)
Events(tx) ==
  LET n == IF tx.logged < Len(tx.trades) THEN tx.logged ELSE Len(tx.trades)
  IN [e \in 1..n |-> [trade |-> e, mint |-> tx.trades[e].pair]]

DecodePumpEvent(tx) == IF tx.garbled THEN <<>> ELSE Events(tx)

(* Mutant: every trade gets the event at the same place.                   *)
SameEvent(index) == index

NextEvent(index) == index + 1

(* Mutant: the last event is taken for missing.                            *)
LastIsMissing(acc, events) == acc.index + 1 >= Len(events)

EventIsMissing(acc, events) == acc.index >= Len(events)

(* An instruction without its token account is given up before the event   *)
(* is taken, one without an event after it.                                *)
DecodePumpInstruction(acc, trade, events) ==
  IF trade.account = "unknown" \/ EventIsMissing(acc, events) THEN acc
  ELSE [index |-> NextEvent(acc.index),
        trades |-> Append(acc.trades,
                          [pair |-> trade.pair, from |-> trade.at,
                           event |-> events[acc.index + 1]])]

(* Only the instructions of the message are walked, not what they call.    *)
DecodeInstruction(acc, trade, events) ==
  IF trade.level = "inner" THEN acc ELSE DecodePumpInstruction(acc, trade, events)

Executed(tx) ==
  [i \in DOMAIN tx.trades |->
     [pair |-> tx.trades[i].pair, level |-> tx.trades[i].level,
      account |-> tx.trades[i].account, at |-> i]]

(* A failed transaction and one without logs have no trades.               *)
DecodeTx(tx) ==
  IF tx.failed \/ tx.unlogged THEN <<>>
  ELSE FoldLeft(LAMBDA acc, t : DecodeInstruction(acc, t, DecodePumpEvent(tx)),
                [index |-> 0, trades |-> <<>>], Executed(tx)).trades

(* The trades of a block by pair, in the order of the block.               *)
TradeMap(trades) ==
  [p \in {trades[i].pair : i \in DOMAIN trades} |->
     Kept(trades, {t \in ToSet(trades) : t.pair = p})]
=============================================================================

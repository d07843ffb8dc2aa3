--------------------------- MODULE OrderLifecycle ---------------------------
(***************************************************************************)
(* Market orders of the trade service: concurrent CreateMarketOrder        *)
(* requests, the trade_order and trade_order_log tables, and the Solana    *)
(* node they send to.  The chain acts between any two steps of a request,  *)
(* the process may die between them, and writes and answers may fail.      *)
(***************************************************************************)
EXTENDS Naturals, FiniteSets

CONSTANTS
  Orders,         \* the requests, each of which becomes an order
  Payload,        \* what the request swaps: token, side, amount, wallet
  MaxBlockhash,   \* bound: blockhashes 1..MaxBlockhash
  Life,           \* blockhashes for which a transaction stays valid
  Faults,         \* failures that happen, of Failures
  MaxCrashes,     \* bound: crashes of the trade service
  NoTx            \* no transaction: an empty tx_hash

Failures == {"db", "rpc", "lost", "slippage", "long", "panic"}

Txs == [payload : {Payload[o] : o \in Orders}, blockhash : 1..MaxBlockhash]

ASSUME OrderAssumption ==
  /\ MaxBlockhash \in Nat \ {0}
  /\ Life \in Nat
  /\ MaxCrashes \in Nat
  /\ Faults \subseteq Failures
  /\ NoTx \notin Txs

VARIABLES
  pc,          \* where the request is
  mem,         \* the order struct in memory: its status and transaction
  tx,          \* the transaction built for the request
  tries,       \* attempts of the slippage loop
  err,         \* the error of the request so far
  reply,       \* what the caller got
  row,         \* trade_order
  log,         \* trade_order_log, at most one entry per order and status
  blockhash,   \* the latest blockhash of the chain
  sent,        \* per order, the transactions the node accepted
  landed,      \* transactions executed on the chain
  crashes

request == <<pc, mem, tx, tries, err, reply>>
tables == <<row, log>>
chain == <<blockhash, sent, landed>>
vars == <<request, tables, chain, crashes>>

Record == [status : {"none", "proc", "onchain", "fail"}, hash : Txs \cup {NoTx}]
NoRecord == [status |-> "none", hash |-> NoTx]
Opened == [status |-> "proc", hash |-> NoTx]
Accepted == UNION {sent[o] : o \in Orders}

Init ==
  /\ pc = [o \in Orders |-> "check"]
  /\ mem = [o \in Orders |-> NoRecord]
  /\ tx = [o \in Orders |-> NoTx]
  /\ tries = [o \in Orders |-> 0]
  /\ err = [o \in Orders |-> "nil"]
  /\ reply = [o \in Orders |-> "none"]
  /\ row = [o \in Orders |-> NoRecord]
  /\ log = [o \in Orders |-> {}]
  /\ blockhash = 1
  /\ sent = [o \in Orders |-> {}]
  /\ landed = {}
  /\ crashes = 0

Goto(o, next) == pc' = [pc EXCEPT ![o] = next]

(* The response is an empty struct or an error: the hash is not in it.     *)
Answer(o, what) == reply' = [reply EXCEPT ![o] = what]

-----------------------------------------------------------------------------
(* CreateMarketOrder.                                                      *)

(* The amount, the pair and the price of the base token are checked.       *)
Check(o) ==
  /\ pc[o] = "check"
  /\ \/ Goto(o, "insert") /\ UNCHANGED reply
     \/ "rpc" \in Faults /\ Goto(o, "done") /\ Answer(o, "error")
  /\ UNCHANGED <<mem, tx, tries, err, tables, chain, crashes>>

(* The order row and its log entry, in one database transaction.           *)
Write(o, rec) ==
  /\ row' = [row EXCEPT ![o] = rec]
  /\ log' = [log EXCEPT ![o] = {e \in log[o] : e.status # rec.status} \cup {rec}]

(* Mutant: the row stays when its log entry is refused.                    *)
RowWithoutLog(o, rec) ==
  row' = [row EXCEPT ![o] = rec] /\ UNCHANGED log

(* What a failing transaction leaves behind: nothing.                      *)
RollBack(o, rec) == UNCHANGED tables

(* Mutant: the request goes on without its row.                            *)
GoOnWithoutRow(o) == Goto(o, "build") /\ UNCHANGED reply

InsertRefused(o) == Goto(o, "done") /\ Answer(o, "error")

InsertWithLog(o) ==
  /\ pc[o] = "insert"
  /\ mem' = [mem EXCEPT ![o] = Opened]
  /\ \/ Write(o, Opened) /\ Goto(o, "build") /\ UNCHANGED reply
     \/ "db" \in Faults /\ RollBack(o, Opened) /\ InsertRefused(o)
  /\ UNCHANGED <<tx, tries, err, chain, crashes>>

-----------------------------------------------------------------------------
(* createMarketTxWithPairInfo: build, send, try again, record.             *)

IsAutoSlippage == FALSE   \* the orders are created with isAutoSlippage 0

(* Mutant: any error is worth another attempt.                             *)
RetryAnyError(e, n) == e # "nil" /\ n < 3

(* Mutant: any error is worth another attempt, one too many.               *)
RetryOnceMore(e, n) == e # "nil" /\ n < 4

TryAgain(e, n) == IsAutoSlippage /\ e = "slippage" /\ n < 3

(* The end of an attempt, with its error and, without one, its hash.       *)
Attempted(o, e) ==
  /\ err' = [err EXCEPT ![o] = e]
  /\ tries' = [tries EXCEPT ![o] = @ + 1]
  /\ Goto(o, IF TryAgain(e, tries[o] + 1) THEN "build" ELSE "record")

(* An instruction that is no AccountsGettable panics when its accounts are *)
(* asked for, as the one BuildSellInstruction wraps does.  The deferred    *)
(* function then runs while the error is still nil and leaves the order in *)
(* process; the RPC framework recovers and answers with an error.          *)
Panicked(o) ==
  Goto(o, "done") /\ Answer(o, "error") /\ UNCHANGED <<tx, tries, err>>

(* BuildUnsignedTransaction, with the latest blockhash.                    *)
BuildTx(o) ==
  /\ pc[o] = "build"
  /\ \/ /\ tx' = [tx EXCEPT ![o] = [payload |-> Payload[o], blockhash |-> blockhash]]
        /\ Goto(o, "send")
        /\ UNCHANGED <<tries, err, reply>>
     \/ "rpc" \in Faults /\ Attempted(o, "failed") /\ UNCHANGED <<tx, reply>>
     \/ "panic" \in Faults /\ Panicked(o)
  /\ UNCHANGED <<mem, tables, chain, crashes>>

Valid(t) == blockhash <= t.blockhash + Life /\ t \notin landed

(* Errors a refused transaction comes back with; the text of some does not *)
(* fit the fail_reason column.                                             *)
Refusals == {"failed"} \cup (Faults \cap {"slippage", "long"})

(* SignAndSendTransaction: the node accepts the transaction or refuses it; *)
(* the answer to an accepted one may be lost.  SEND_TRANSACTION_ONCHAIN is *)
(* not looked at.                                                          *)
SendTx(o) ==
  /\ pc[o] = "send"
  /\ \/ /\ Valid(tx[o])
        /\ sent' = [sent EXCEPT ![o] = @ \cup {tx[o]}]
        /\ \/ Attempted(o, "nil")
           \/ "lost" \in Faults /\ Attempted(o, "failed")
     \/ /\ ~Valid(tx[o]) \/ "rpc" \in Faults
        /\ \E e \in Refusals : Attempted(o, e)
        /\ UNCHANGED sent
  /\ UNCHANGED <<mem, tx, reply, tables, blockhash, landed, crashes>>

(* Mutant: the error of the last attempt is not looked at.                 *)
AlwaysOnChain(o) == [status |-> "onchain", hash |-> tx[o]]

(* What updateDbByTxResult makes of the order.                             *)
Outcome(o) ==
  IF err[o] = "nil" THEN [status |-> "onchain", hash |-> tx[o]]
  ELSE [status |-> "fail", hash |-> mem[o].hash]

(* updateDbByTxResult changes the struct first; a failing transaction, or  *)
(* a reason that does not fit, leaves both tables alone.                   *)
UpdateDb(o) ==
  /\ mem' = [mem EXCEPT ![o] = Outcome(o)]
  /\ \/ err[o] # "long" /\ Write(o, Outcome(o))
     \/ (err[o] = "long" \/ "db" \in Faults) /\ RollBack(o, Outcome(o))

(* Mutant: a hash is taken for an unsigned transaction.                    *)
TakenForUnsigned(o) == err[o] = "nil"

(* Results of more than 100 characters are returned without a record; a    *)
(* hash has at most 88.                                                    *)
Unsigned(o) == FALSE

RecordResult(o) ==
  /\ pc[o] = "record"
  /\ IF Unsigned(o) THEN UNCHANGED <<mem, tables>> ELSE UpdateDb(o)
  /\ Goto(o, "deferred")
  /\ UNCHANGED <<tx, tries, err, reply, chain, crashes>>

(* The deferred function of CreateMarketTx marks an order as failed that   *)
(* is still in process, by the struct, when the request failed.  The reply *)
(* is the error of the request, not that of the database.                  *)
StillOpen(o) == mem[o].status = "proc" /\ err[o] # "nil"

(* Mutant: the error of the request is lost on the way back.               *)
SwallowedError(o) == "ok"

Verdict(o) == IF err[o] = "nil" THEN "ok" ELSE "error"

Deferred(o) ==
  /\ pc[o] = "deferred"
  /\ IF StillOpen(o) THEN UpdateDb(o) ELSE UNCHANGED <<mem, tables>>
  /\ Goto(o, "done")
  /\ Answer(o, Verdict(o))
  /\ UNCHANGED <<tx, tries, err, chain, crashes>>

-----------------------------------------------------------------------------
(* The chain and the process.                                              *)

NewBlockhash ==
  /\ blockhash < MaxBlockhash
  /\ blockhash' = blockhash + 1
  /\ UNCHANGED <<request, tables, sent, landed, crashes>>

Land(t) ==
  /\ t \in Accepted
  /\ Valid(t)
  /\ landed' = landed \cup {t}
  /\ UNCHANGED <<request, tables, blockhash, sent, crashes>>

(* The requests in progress are gone; nobody takes their orders up again.  *)
Crash ==
  /\ crashes < MaxCrashes
  /\ crashes' = crashes + 1
  /\ pc' = [o \in Orders |-> IF pc[o] \in {"check", "done"} THEN pc[o] ELSE "dead"]
  /\ UNCHANGED <<mem, tx, tries, err, reply, tables, chain>>

RequestStep(o) ==
  Check(o) \/ InsertWithLog(o) \/ BuildTx(o) \/ SendTx(o) \/ RecordResult(o)
    \/ Deferred(o)

Next ==
  \/ \E o \in Orders : RequestStep(o)
  \/ NewBlockhash
  \/ \E t \in Txs : Land(t)
  \/ Crash

Spec == Init /\ [][Next]_vars

(* A request runs on: every call it makes returns, if only with an error.  *)
Fairness == \A o \in Orders : WF_vars(RequestStep(o))

FairSpec == Spec /\ Fairness

-----------------------------------------------------------------------------
RequestsOK ==
  /\ pc \in [Orders -> {"check", "insert", "build", "send", "record",
                        "deferred", "done", "dead"}]
  /\ mem \in [Orders -> Record]
  /\ tx \in [Orders -> Txs \cup {NoTx}]
  /\ tries \in [Orders -> 0..3]
  /\ err \in [Orders -> {"nil", "failed", "slippage", "long"}]
  /\ reply \in [Orders -> {"none", "ok", "error"}]
TablesOK ==
  /\ row \in [Orders -> Record]
  /\ log \in [Orders -> SUBSET Record]
ChainOK ==
  /\ blockhash \in 1..MaxBlockhash
  /\ sent \in [Orders -> SUBSET Txs]
  /\ landed \subseteq Accepted
  /\ crashes \in 0..MaxCrashes

(* Requests, tables and chain are well formed; what has landed was         *)
(* accepted from an order (createmarketorderlogic.go).                     *)
TypeOK == RequestsOK /\ TablesOK /\ ChainOK

(* The orders, read as the abstract book.                                  *)
Book == INSTANCE OrderBook WITH
  Hashes <- Txs,
  NoHash <- NoTx,
  status <- [o \in Orders |-> row[o].status],
  hash <- [o \in Orders |-> row[o].hash]

(* The trade service implements the order book: nothing is sent before the *)
(* order has a row, at most one transaction is sent for an order whatever  *)
(* is lost or retried, and an order is settled once (CreateMarketOrder).   *)
BookSpec == Book!Spec

(* InsertWithLog and UpdateOrderBySelect write both tables in one database *)
(* transaction: an order has a row exactly when it has a log, the log      *)
(* begins with the opening of the order, holds its present state and at    *)
(* most one entry per status.                                              *)
LogFollowsOrder ==
  \A o \in Orders :
    /\ row[o] = NoRecord <=> log[o] = {}
    /\ row[o] # NoRecord => {Opened, row[o]} = log[o]

(* The write ahead: whatever the chain executes belongs to an order that   *)
(* has a row with that request, even after a crash (CreateMarketOrder).    *)
NothingUnrecorded ==
  \A t \in landed :
    \E o \in Orders : row[o].status # "none" /\ Payload[o] = t.payload

(* An order that says on chain carries the hash of a transaction that was  *)
(* built from its own request and accepted by the node                     *)
(* (updateDbByTxResult).                                                   *)
OnChainWasSent ==
  \A o \in Orders : row[o].status = "onchain" =>
    row[o].hash \in sent[o] /\ row[o].hash.payload = Payload[o]

(* A caller that was told of success never finds its order failed, and one *)
(* that was told of an error never finds it on chain: the two disagree     *)
(* only while the row is still in process (CreateMarketTx).                *)
ReplyMatchesOrder ==
  \A o \in Orders :
    /\ reply[o] = "ok" => row[o].status \in {"onchain", "proc"}
    /\ reply[o] = "error" => row[o].status # "onchain"

(* Without crashes, panics and database faults every request is answered,  *)
(* and its order, if it was opened, is settled by then (CreateMarketOrder). *)
Settled == \A o \in Orders :
  pc[o] = "insert" ~>
    reply[o] # "none" /\ row[o].status \in {"onchain", "fail"}

(* createmarketorderlogic.go:185 says that an order in process whose       *)
(* request ends with an error is marked as failed.                         *)
ErrorMeansFailed ==
  \A o \in Orders :
    reply[o] = "error" => row[o].status \in {"none", "fail"}

-----------------------------------------------------------------------------
(* The inductive invariant behind these properties, order by order: how    *)
(* far the request is, what the two tables hold, what has been sent.       *)
Before(o) ==
  pc[o] \in {"check", "insert"} =>
    row[o] = NoRecord /\ err[o] = "nil" /\ tries[o] = 0 /\ reply[o] = "none"
Trying(o) ==
  pc[o] \in {"build", "send"} =>
    /\ row[o] = Opened /\ mem[o] = Opened /\ sent[o] = {}
    /\ err[o] = "nil" /\ tries[o] = 0 /\ reply[o] = "none"
Tried(o) ==
  /\ pc[o] = "record" => row[o] = Opened /\ mem[o] = Opened
  /\ pc[o] \in {"record", "deferred"} /\ err[o] = "nil" => tx[o] \in sent[o]
  /\ pc[o] = "deferred" => mem[o].status # "proc"
  /\ pc[o] \in {"record", "deferred"} => reply[o] = "none"
Sending(o) ==
  /\ row[o] = NoRecord => sent[o] = {}
  /\ sent[o] \subseteq {tx[o]}
  /\ pc[o] = "send" \/ sent[o] # {} => tx[o] \in Txs /\ tx[o].payload = Payload[o]
Rows(o) ==
  /\ row[o].status = "none" => row[o] = NoRecord
  /\ row[o].status = "proc" => row[o] = Opened
  /\ row[o].status = "onchain" => row[o].hash \in sent[o] /\ err[o] = "nil"
  /\ row[o].status = "fail" => row[o].hash = NoTx /\ err[o] # "nil"
Logged(o) ==
  /\ row[o] = NoRecord <=> log[o] = {}
  /\ row[o] # NoRecord => {Opened, row[o]} = log[o]
Replied(o) ==
  /\ reply[o] = "ok" => row[o] # NoRecord /\ err[o] = "nil"
  /\ reply[o] = "error" => row[o] \in {NoRecord, Opened} \/ err[o] # "nil"

OrderInv(o) ==
  Before(o) /\ Trying(o) /\ Tried(o) /\ Sending(o) /\ Rows(o) /\ Logged(o)
    /\ Replied(o)

LifecycleInv == TypeOK /\ \A o \in Orders : OrderInv(o)
=============================================================================

----------------------------- MODULE BlockIngest -----------------------------
(***************************************************************************)
(* The indexer of the consumer service: the websocket reader that turns    *)
(* slot notifications into work, the two channels, the block workers, the  *)
(* service that re-submits failed slots, and the `block` table they share. *)
(*                                                                         *)
(* A step is what the code does between two calls that another goroutine   *)
(* can observe: a channel operation, a query, a write, an RPC answer.      *)
(***************************************************************************)
EXTENDS Integers, Sequences

CONSTANTS
  MaxSlot,       \* bound: the chain announces the slots 1..MaxSlot
  Produced,      \* the slots the chain has a block for; the others were skipped
  BlockPrice,    \* SOL price found in the transactions of a block, 0 if none
  Parent,        \* parent slot of a block
  Undecodable,   \* blocks whose decoding panics (a division by a zero amount)
  RealWorkers,   \* BlockServices reading realtimeCh
  ErrorWorkers,  \* BlockServices reading errorCh
  RealCap,       \* capacity of realtimeCh, 50 in consumer.go
  ErrorCap,      \* capacity of errorCh, 1 in consumer.go
  StartBlock,    \* Sol.StartBlock of the configuration, 0 when absent
  Window,        \* slots the retry query looks back, 100 in not_complete.go
  Limit,         \* rows the retry query returns at most, 50 in not_complete.go
  Faults,        \* failures that happen: "rpc", "db", "save"
  MaxCrashes     \* bound: process crashes or stops

Slots == 1..MaxSlot
Workers == RealWorkers \cup ErrorWorkers
NoSlot == 0

ASSUME ChainAssumption ==
  /\ MaxSlot \in Nat
  /\ Produced \subseteq Slots
  /\ Undecodable \subseteq Produced
  /\ BlockPrice \in [Produced -> Nat]
  /\ Parent \in [Produced -> Nat]
  /\ \A s \in Produced : Parent[s] < s

ASSUME ConfigAssumption ==
  /\ RealWorkers \cap ErrorWorkers = {}
  /\ RealCap \in Nat \ {0}
  /\ ErrorCap \in Nat \ {0}
  /\ StartBlock \in Nat
  /\ Window \in Nat
  /\ Limit \in Nat \ {0}
  /\ Faults \subseteq {"rpc", "db", "save"}
  /\ MaxCrashes \in Nat

VARIABLES
  head,        \* the latest slot the chain announced
  seen,        \* every later notification is still in the socket
  conn,        \* "up", "broken" (reads fail) or "dialing" (inside MustConnect)
  pending,     \* slot blocked in realtimeCh <-, or NoSlot
  realtimeCh, errorCh,
  worker,      \* per block worker: where it is in ProcessBlock and its copy
  block,       \* the `block` table, one row per slot (UNIQUE slot)
  nextId,      \* AUTO_INCREMENT of the table
  saving,      \* blocks whose SaveTrades goroutines are still running
  saved,       \* blocks whose pairs and tokens have been stored
  retry,       \* SlotNotCompleted: program counter, start slot, rows to send
  crashes,
  delivered    \* history: slots the reader took from the socket

feed == <<head, seen, conn, pending>>
table == <<block, nextId>>
trades == <<saving, saved>>
vars == <<feed, realtimeCh, errorCh, worker, table, trades, retry, crashes,
          delivered>>

Final == {"processed", "skipped"}
Statuses == Final \cup {"none", "failed"}

(* A row; id 0 is the zero value of a record that was never stored.        *)
Row == [id : Nat, status : Statuses, price : Nat]
NoRow == [id |-> 0, status |-> "none", price |-> 0]

Idle == [pc |-> "idle", slot |-> NoSlot, copy |-> NoRow]
Stopped == [pc |-> "stopped", from |-> 0, batch |-> <<>>]

Exists(s) == block[s].id # 0
FailedSlots == {s \in Slots : block[s].status = "failed"}
-----------------------------------------------------------------------------
Init ==
  /\ head = 0 /\ seen = 0 /\ conn = "dialing" /\ pending = NoSlot
  /\ realtimeCh = <<>> /\ errorCh = <<>>
  /\ worker = [w \in Workers |-> Idle]
  /\ block = [s \in Slots |-> NoRow]
  /\ nextId = 1
  /\ saving = {} /\ saved = {}
  /\ retry = [pc |-> "boot", from |-> 0, batch |-> <<>>]
  /\ crashes = 0
  /\ delivered = {}

-----------------------------------------------------------------------------
(* The websocket feed.                                                     *)

(* The chain reaches its next slot and the node notifies the subscribers.  *)
Announce ==
  /\ head < MaxSlot
  /\ head' = head + 1
  /\ UNCHANGED <<seen, conn, pending, realtimeCh, errorCh, worker, table,
                 trades, retry, crashes, delivered>>

ConnectionLost ==
  /\ conn = "up"
  /\ conn' = "broken"
  /\ UNCHANGED <<head, seen, pending, realtimeCh, errorCh, worker, table,
                 trades, retry, crashes, delivered>>

(* ReadSlotMessage up to the send: the next notification is taken from the *)
(* socket.                                                                 *)
ReadSlot ==
  /\ conn = "up"
  /\ pending = NoSlot
  /\ seen < head
  /\ seen' = seen + 1
  /\ pending' = seen + 1
  /\ delivered' = delivered \cup {seen + 1}
  /\ UNCHANGED <<head, conn, realtimeCh, errorCh, worker, table, trades,
                 retry, crashes>>

NoCapacity == TRUE   \* mutant: the channel takes any number of slots

RealtimeRoom == Len(realtimeCh) < RealCap

(* realtimeCh <- slot, which blocks while the channel is full.             *)
SendRealtime ==
  /\ pending # NoSlot
  /\ RealtimeRoom
  /\ realtimeCh' = Append(realtimeCh, pending)
  /\ pending' = NoSlot
  /\ UNCHANGED <<head, seen, conn, errorCh, worker, table, trades, retry,
                 crashes, delivered>>

(* A read fails: at once into MustConnect ("close", "broken pipe"), or by  *)
(* the panic of the library when a failed socket is read again and again.  *)
ReadError ==
  /\ conn = "broken"
  /\ pending = NoSlot
  /\ conn' = "dialing"
  /\ UNCHANGED <<head, seen, pending, realtimeCh, errorCh, worker, table,
                 trades, retry, crashes, delivered>>

(* Mutant: the new subscription repeats the last notification.             *)
RepeatLast == IF seen > 0 THEN seen - 1 ELSE 0

(* Where a new subscription starts: what was announced since the last      *)
(* message read is never asked for again.                                  *)
SubscribeFrom == head

MustConnect ==
  /\ conn = "dialing"
  /\ conn' = "up"
  /\ seen' = SubscribeFrom
  /\ UNCHANGED <<head, pending, realtimeCh, errorCh, worker, table, trades,
                 retry, crashes, delivered>>

-----------------------------------------------------------------------------
(* The block workers.                                                      *)

Become(w, task) == worker' = [worker EXCEPT ![w] = task]
Take(w, slot) == Become(w, [pc |-> "find", slot |-> slot, copy |-> NoRow])
Goto(w, pc, copy) ==
  Become(w, [pc |-> pc, slot |-> worker[w].slot, copy |-> copy])
Finish(w) == Become(w, Idle)

(* The receive of GetBlockFromHttp; each worker owns one of the channels.  *)
Receive(w) ==
  /\ worker[w].pc = "idle"
  /\ \/ /\ w \in RealWorkers
        /\ realtimeCh # <<>>
        /\ Take(w, Head(realtimeCh))
        /\ realtimeCh' = Tail(realtimeCh)
        /\ UNCHANGED errorCh
     \/ /\ w \in ErrorWorkers
        /\ errorCh # <<>>
        /\ Take(w, Head(errorCh))
        /\ errorCh' = Tail(errorCh)
        /\ UNCHANGED realtimeCh
  /\ UNCHANGED <<feed, table, trades, retry, crashes, delivered>>

NeverDone(row) == FALSE   \* mutant: the status of the row is not looked at

AlreadyDone(row) == row.status \in Final

(* FindOneBySlot: a final row ends the work, any other row is copied.      *)
FindBlock(w) ==
  LET row == block[worker[w].slot] IN
  /\ worker[w].pc = "find"
  /\ \/ ~AlreadyDone(row) /\ Goto(w, "fetch", row)
     \/ AlreadyDone(row) /\ Finish(w)
     \/ "db" \in Faults /\ Finish(w)
  /\ UNCHANGED <<feed, realtimeCh, errorCh, table, trades, retry, crashes,
                 delivered>>

(* Mutant: an RPC error is taken for a skipped slot.                       *)
ErrorMeansSkipped(s) ==
  {IF s \in Produced THEN "processed" ELSE "skipped"}
    \cup {"skipped" : f \in Faults \cap {"rpc"}}

(* What GetSolBlockInfoDelay, its retries included, makes of a slot: the   *)
(* block, "was skipped", or any other error.                               *)
Verdicts(s) ==
  {IF s \in Produced THEN "processed" ELSE "skipped"}
    \cup {"failed" : f \in Faults \cap {"rpc"}}

FetchBlock(w) ==
  /\ worker[w].pc = "fetch"
  /\ \E v \in Verdicts(worker[w].slot) :
       Goto(w, IF v = "processed" THEN "price" ELSE "insert",
            [worker[w].copy EXCEPT !.status = v])
  /\ UNCHANGED <<feed, realtimeCh, errorCh, table, trades, retry, crashes,
                 delivered>>

ProcessedSlots == {s \in Slots : block[s].status = "processed"}

(* Mutant: the latest processed row, wherever it is.                       *)
LatestRow(slot) ==
  {s \in ProcessedSlots : \A t \in ProcessedSlots : t <= s}

(* FindOneByNearSlot: the latest processed row below slot, if there is one.*)
NearRow(slot) ==
  {s \in ProcessedSlots :
     s < slot /\ \A t \in ProcessedSlots : t < slot => t <= s}

(* GetBlockSolPrice of the block at s, over the rows as they are now: the  *)
(* price, if any.                                                          *)
SolPrice(s) ==
  IF BlockPrice[s] > 0 THEN {BlockPrice[s]}
  ELSE {block[t].price : t \in NearRow(Parent[s])} \ {0}

(* Mutant: only the first attempt at a block saves its trades.             *)
FirstAttemptTrades(s, copy) == IF copy.id = 0 THEN {s} ELSE {}

(* The block whose trades SaveTrades is started for.                       *)
TradesToSave(s, copy) == {s}

(* GetBlockSolPrice, the decoding of the transactions and the start of     *)
(* SaveTrades.  Without a price, or when decoding panics, nothing at all   *)
(* is recorded.                                                            *)
PriceBlock(w) ==
  LET s == worker[w].slot
      copy == worker[w].copy
  IN
  /\ worker[w].pc = "price"
  /\ \/ /\ s \notin Undecodable
        /\ \E p \in SolPrice(s) : Goto(w, "insert", [copy EXCEPT !.price = p])
        /\ saving' = saving \cup TradesToSave(s, copy)
     \/ /\ \/ s \in Undecodable
           \/ SolPrice(s) = {}
           \/ BlockPrice[s] = 0 /\ "db" \in Faults
        /\ Finish(w)
        /\ UNCHANGED saving
  /\ UNCHANGED <<feed, realtimeCh, errorCh, table, saved, retry, crashes,
                 delivered>>

Store(s, row, next) ==
  block' = [block EXCEPT ![s] = row] /\ nextId' = next

(* Mutant: a failed block is not written at all.                           *)
SaveVerdictOnly(s, copy) ==
  IF copy.status = "failed" THEN UNCHANGED table
  ELSE Store(s, [copy EXCEPT !.id = nextId], nextId + 1)

(* Mutant: a plain INSERT, refused whenever the row exists.                *)
InsertOnly(s, copy) ==
  IF Exists(s) THEN UNCHANGED table
  ELSE Store(s, [copy EXCEPT !.id = nextId], nextId + 1)

(* BlockModel.Insert is gorm's Save: a copy without id is an INSERT that   *)
(* the UNIQUE slot may refuse, a copy with an id overwrites the whole row. *)
Save(s, copy) ==
  \/ copy.id = 0 /\ ~Exists(s) /\ Store(s, [copy EXCEPT !.id = nextId], nextId + 1)
  \/ copy.id = 0 /\ Exists(s) /\ UNCHANGED table
  \/ copy.id # 0 /\ Store(s, copy, nextId)

(* ProcessBlock returns whatever the write answers.                        *)
InsertBlock(w) ==
  /\ worker[w].pc = "insert"
  /\ Finish(w)
  /\ \/ Save(worker[w].slot, worker[w].copy)
     \/ "db" \in Faults /\ UNCHANGED table
  /\ UNCHANGED <<feed, realtimeCh, errorCh, trades, retry, crashes, delivered>>

(* The goroutines nobody waits for end; an error is only logged.           *)
SaveTrades(s) ==
  /\ s \in saving
  /\ saving' = saving \ {s}
  /\ \/ saved' = saved \cup {s}
     \/ "save" \in Faults /\ UNCHANGED saved
  /\ UNCHANGED <<feed, realtimeCh, errorCh, worker, table, retry, crashes,
                 delivered>>

-----------------------------------------------------------------------------
(* SlotNotCompleted, the service that re-submits failed slots.             *)

(* FindFirstFailedBlock: the failed row with the lowest id, if any.        *)
FirstFailed ==
  {s \in FailedSlots : \A t \in FailedSlots : block[s].id <= block[t].id}

(* The start of the service: without a configured start block and without  *)
(* a failed row it returns for good.                                       *)
RetryBoot ==
  /\ retry.pc = "boot"
  /\ \/ /\ StartBlock # 0
        /\ retry' = [retry EXCEPT !.pc = "waiting", !.from = StartBlock]
     \/ /\ StartBlock = 0
        /\ \E s \in FirstFailed :
             retry' = [retry EXCEPT !.pc = "waiting", !.from = s]
     \/ /\ StartBlock = 0 /\ (FailedSlots = {} \/ "db" \in Faults)
        /\ retry' = Stopped
  /\ UNCHANGED <<feed, realtimeCh, errorCh, worker, table, trades, crashes,
                 delivered>>

(* Mutant: the query does not look at the status.                          *)
AnyStatusWindow == {s \in Slots : s >= retry.from - Window}

(* The rows FindProcessingSlots selects from.                              *)
RetryWindow == {s \in FailedSlots : s >= retry.from - Window}

(* q lists the newest elements of S first, at most Limit of them.          *)
NewestFirst(q, S) ==
  /\ \A i, j \in DOMAIN q : i < j => q[i] > q[j]
  /\ \A i \in DOMAIN q : q[i] \in S
  /\ \A s \in S : (\E i \in DOMAIN q : q[i] = s)
                     \/ (Len(q) = Limit /\ \A i \in DOMAIN q : q[i] > s)

(* A tick of checkTicker: an empty answer, or an error, which comes with   *)
(* an empty answer, ends the service.                                      *)
RetryQuery ==
  /\ retry.pc = "waiting"
  /\ \/ /\ RetryWindow # {}
        /\ \E n \in 1..Limit : \E q \in [1..n -> Slots] :
             /\ NewestFirst(q, RetryWindow)
             /\ retry' = [retry EXCEPT !.pc = "sending", !.batch = q]
     \/ /\ RetryWindow = {} \/ "db" \in Faults
        /\ retry' = Stopped
  /\ UNCHANGED <<feed, realtimeCh, errorCh, worker, table, trades, crashes,
                 delivered>>

(* A tick of sendTicker and errorCh <- slot; after the last row the        *)
(* service waits for checkTicker again.                                    *)
RetrySend ==
  /\ retry.pc = "sending"
  /\ Len(errorCh) < ErrorCap
  /\ errorCh' = Append(errorCh, Head(retry.batch))
  /\ retry' = [retry EXCEPT
       !.pc = IF Len(retry.batch) = 1 THEN "waiting" ELSE "sending",
       !.batch = Tail(retry.batch)]
  /\ UNCHANGED <<feed, realtimeCh, worker, table, trades, crashes, delivered>>

-----------------------------------------------------------------------------
(* The process stops or dies and is started again: channels, goroutines    *)
(* and the socket are gone, the tables stay.                               *)
Restart ==
  /\ crashes < MaxCrashes
  /\ crashes' = crashes + 1
  /\ conn' = "dialing" /\ pending' = NoSlot
  /\ realtimeCh' = <<>> /\ errorCh' = <<>>
  /\ worker' = [w \in Workers |-> Idle]
  /\ saving' = {}
  /\ retry' = [pc |-> "boot", from |-> 0, batch |-> <<>>]
  /\ UNCHANGED <<head, seen, table, saved, delivered>>

WorkerStep(w) ==
  Receive(w) \/ FindBlock(w) \/ FetchBlock(w) \/ PriceBlock(w) \/ InsertBlock(w)
FeedStep == ReadSlot \/ SendRealtime \/ ReadError \/ MustConnect
RetryStep == RetryBoot \/ RetryQuery \/ RetrySend

Next ==
  \/ Announce \/ ConnectionLost \/ FeedStep
  \/ \E w \in Workers : WorkerStep(w)
  \/ \E s \in Slots : SaveTrades(s)
  \/ RetryStep
  \/ Restart

Spec == Init /\ [][Next]_vars

(* What the scheduler owes: every goroutine that can run does, the node    *)
(* does not refuse a block that is asked for again and again, and          *)
(* SaveTrades goroutines end.                                              *)
FetchAnswer(w) ==
  FetchBlock(w) /\ worker'[w].copy.status # "failed"

Fairness ==
  /\ WF_vars(ReadSlot) /\ WF_vars(SendRealtime)
  /\ WF_vars(ReadError) /\ WF_vars(MustConnect)
  /\ \A w \in Workers : WF_vars(WorkerStep(w))
  /\ \A w \in ErrorWorkers : \A s \in Slots :
       SF_vars(worker[w].slot = s /\ FetchAnswer(w))
  /\ \A s \in Slots : WF_vars(SaveTrades(s))
  /\ WF_vars(RetryStep)

FairSpec == Spec /\ Fairness

-----------------------------------------------------------------------------
(* What a worker may be doing: a slot of the chain outside the receive,    *)
(* and a price only for a slot that has a block.                           *)
Tasks ==
  [pc : {"idle", "find", "fetch", "price", "insert"},
   slot : Slots \cup {NoSlot}, copy : Row]
TaskOK(task) ==
  /\ task \in Tasks
  /\ task.pc # "idle" => task.slot \in Slots
  /\ task.pc = "price" => task.slot \in Produced

FeedOK ==
  /\ head \in 0..MaxSlot /\ seen \in 0..head
  /\ conn \in {"up", "broken", "dialing"}
  /\ pending \in Slots \cup {NoSlot}
  /\ delivered \subseteq 1..seen
ChannelsOK ==
  /\ realtimeCh \in Seq(Slots) /\ Len(realtimeCh) <= RealCap
  /\ errorCh \in Seq(Slots) /\ Len(errorCh) <= ErrorCap
WorkersOK ==
  /\ worker \in [Workers -> Tasks]
  /\ \A w \in Workers : TaskOK(worker[w])
TablesOK ==
  /\ block \in [Slots -> Row] /\ nextId \in Nat \ {0}
  /\ saving \subseteq Slots /\ saved \subseteq Slots
RetryOK ==
  /\ retry \in [pc : {"boot", "waiting", "sending", "stopped"}, from : Nat,
                batch : Seq(Slots)]
  /\ retry.pc = "sending" => retry.batch # <<>>
  /\ crashes \in 0..MaxCrashes

(* The channels within their capacities, the workers and the retry service *)
(* on real slots, a batch only while there is one to send (consumer.go,    *)
(* block.go, not_complete.go).                                             *)
TypeOK == FeedOK /\ ChannelsOK /\ WorkersOK /\ TablesOK /\ RetryOK

-----------------------------------------------------------------------------
(* The table read as a ledger.                                             *)
Ledger == INSTANCE BlockLedger WITH
  status <- [s \in Slots |-> block[s].status],
  price <- [s \in Slots |-> block[s].price]

(* The consumer implements the ledger: one verdict per slot that says what *)
(* the chain says, prices from the past, nothing taken back by a retry, a  *)
(* restart or another worker (ProcessBlock).                               *)
LedgerSpec == Ledger!Spec

(* The slots of a sequence.                                                *)
In(q) == {q[i] : i \in DOMAIN q}

(* A worker past its FindOneBySlot holds a copy of a row that others may   *)
(* change under it.                                                        *)
Holding(w) == worker[w].pc \in {"fetch", "price", "insert"}

(* ProcessBlock skips a slot that is already processed or skipped          *)
(* (block.go, the check after FindOneBySlot), so a final row is never      *)
(* written again: not by a retry that read the row before it became final, *)
(* not by a restart, not by a second delivery.                             *)
FinalStatus ==
  [][\A s \in Slots : block[s].status \in Final => block'[s] = block[s]]_vars

(* The prices found in the block at s or in an earlier one.                *)
KnownBy(s) == {BlockPrice[t] : t \in {u \in Produced : u <= s}} \ {0}

(* The price stored with a processed block was found in that block or in   *)
(* an earlier one, however many fallbacks lie between and in whatever      *)
(* order the blocks were processed (GetBlockSolPrice, FindOneByNearSlot).  *)
PriceFromPast ==
  \A s \in Slots : block[s].status = "processed" =>
    s \in Produced /\ block[s].price \in KnownBy(s)

(* No two workers process the same slot at the same time: a slot is with   *)
(* the realtime side until it has a row and with the retry side afterwards *)
(* (ProcessBlock has no lock of its own).                                  *)
OneHandler ==
  \A v, w \in Workers :
    Holding(v) /\ Holding(w) /\ worker[v].slot = worker[w].slot => v = w

(* A slot belongs to the realtime side until it has a row, and what the    *)
(* retry side sends, reads and rewrites has one, still failed while a      *)
(* retry is between its read and its write (ProcessBlock,                  *)
(* SlotNotCompleted).                                                      *)
Fresh(s) == ~Exists(s) /\ s <= seen
RealtimeFresh ==
  /\ pending # NoSlot => Fresh(pending)
  /\ \A i \in DOMAIN realtimeCh : Fresh(realtimeCh[i])
  /\ \A w \in RealWorkers : worker[w].pc # "idle" => Fresh(worker[w].slot)
RetryRecorded ==
  /\ \A i \in DOMAIN retry.batch : Exists(retry.batch[i])
  /\ \A i \in DOMAIN errorCh : Exists(errorCh[i])
  /\ \A w \in ErrorWorkers : worker[w].pc # "idle" =>
       /\ Exists(worker[w].slot)
       /\ Holding(w) => block[worker[w].slot].status = "failed"
SlotOwnership == RealtimeFresh /\ RetryRecorded

(* The blocks ProcessBlock may give up on without a row: a panic while     *)
(* decoding, or no SOL price of their own.                                 *)
Hopeless == Undecodable \cup {s \in Produced : BlockPrice[s] = 0}

(* A slot taken from the socket is on its way, or recorded, or hopeless.   *)
(* For runs without crash or database fault (GetBlockFromHttp,             *)
(* ProcessBlock).                                                          *)
NoSlotDropped ==
  \A s \in delivered :
    \/ Exists(s)
    \/ s = pending \/ s \in In(realtimeCh)
    \/ \E w \in Workers : worker[w].slot = s
    \/ s \in Hopeless

(* A block is marked processed without waiting for its trades, so the      *)
(* trades of a processed block are stored or still being stored.  For runs *)
(* without crash or failing save.                                          *)
TradesFollow ==
  \A s \in Slots : block[s].status = "processed" => s \in saving \cup saved

(* Without database faults and crashes every slot taken from the socket    *)
(* gets a row, unless it is hopeless, whatever the channels and the        *)
(* workers do with the others (GetBlockFromHttp, ProcessBlock).            *)
DeliveredIsRecorded == \A s \in Slots \ Hopeless : s \in delivered ~> Exists(s)

(* While the retry service runs, a failed slot of its window does not stay *)
(* failed: the newest-first order starves nobody as long as the hopeless   *)
(* rows, which are sent again and again, leave room below the limit        *)
(* (FindProcessingSlots).                                                  *)
RetryHeals ==
  \A s \in Slots \ Hopeless :
    (retry.pc \in {"waiting", "sending"} /\ s \in RetryWindow)
      ~> (retry.pc \in {"boot", "stopped"} \/ block[s].status # "failed")

(* block.go:134 says of a failed block that it is recorded so that a later *)
(* fallback brings the lost block back.                                    *)
FailedIsRetried == \A s \in Slots : s \in FailedSlots ~> s \notin FailedSlots

-----------------------------------------------------------------------------
(* The inductive invariant behind these properties.                        *)

(* What a row, or a copy about to be written, may say of a slot.           *)
VerdictOK(s, row) ==
  /\ row.status = "processed" => s \in Produced /\ row.price \in KnownBy(s)
  /\ row.status = "skipped" => s \notin Produced
  /\ row.status # "processed" => row.price = 0

RowsOK ==
  \A s \in Slots :
    VerdictOK(s, block[s]) /\ (Exists(s) <=> block[s].status # "none")

CopyOK(task) ==
  /\ task.pc = "fetch" =>
       task.copy.status \notin Final /\ VerdictOK(task.slot, task.copy)
  /\ task.pc = "price" => task.copy.status = "processed"
  /\ task.pc = "insert" =>
       task.copy.status # "none" /\ VerdictOK(task.slot, task.copy)

VerdictInv == TypeOK /\ RowsOK /\ \A w \in Workers : CopyOK(worker[w])

(* The realtime side handles slots once and in order.                      *)
RealtimeOrder ==
  /\ \A s \in Slots : Exists(s) => s <= seen
  /\ \A i, j \in DOMAIN realtimeCh : i < j => realtimeCh[i] < realtimeCh[j]
  /\ \A i \in DOMAIN realtimeCh : pending # NoSlot => realtimeCh[i] < pending
  /\ \A w \in RealWorkers : worker[w].pc # "idle" =>
       /\ \A i \in DOMAIN realtimeCh : worker[w].slot < realtimeCh[i]
       /\ pending # NoSlot => worker[w].slot < pending
  /\ \A v, w \in RealWorkers :
       worker[v].pc # "idle" /\ worker[w].pc # "idle" /\ v # w
         => worker[v].slot # worker[w].slot

SlotsInv == SlotOwnership /\ RealtimeOrder

OwnershipInv == VerdictInv /\ SlotsInv

(* A worker at its receive has let go of its last slot.                    *)
IdleEmpty == \A w \in Workers : worker[w].pc = "idle" => worker[w].slot = NoSlot
DeliveryInv == VerdictInv /\ NoSlotDropped /\ IdleEmpty

(* The trades are started before the row that says processed is written.   *)
TradesStarted ==
  \A w \in Workers :
    worker[w].pc = "insert" /\ worker[w].copy.status = "processed" =>
      worker[w].slot \in saving \cup saved
TradesInv == VerdictInv /\ TradesFollow /\ TradesStarted
=============================================================================

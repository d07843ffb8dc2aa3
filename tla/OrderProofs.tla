----------------------------- MODULE OrderProofs -----------------------------
(***************************************************************************)
(* Theorems about OrderLifecycle for any number of orders, blockhashes and *)
(* crashes and for every set of faults.                                    *)
(***************************************************************************)
EXTENDS OrderLifecycle, TLAPS

LEMMA OutcomeType ==
  ASSUME RequestsOK, NEW o \in Orders
  PROVE  Outcome(o) \in Record
BY DEF RequestsOK, Outcome, Record

LEMMA InitType == Init => TypeOK
<1>. SUFFICES ASSUME Init PROVE TypeOK
  OBVIOUS
<1>1. RequestsOK
  BY DEF Init, RequestsOK, Record, NoRecord
<1>2. TablesOK
  BY DEF Init, TablesOK, Record, NoRecord
<1>3. ChainOK
  BY OrderAssumption DEF Init, ChainOK, Accepted
<1>. QED
  BY <1>1, <1>2, <1>3 DEF TypeOK

(* The types of what an attempt changes.                                   *)
LEMMA AttemptType ==
  ASSUME RequestsOK, NEW o \in Orders, tries[o] = 0,
         NEW e \in {"nil", "failed", "slippage", "long"}, Attempted(o, e)
  PROVE  /\ err' \in [Orders -> {"nil", "failed", "slippage", "long"}]
         /\ tries' \in [Orders -> 0..3]
         /\ pc' \in [Orders -> {"check", "insert", "build", "send", "record",
                                "deferred", "done", "dead"}]
         /\ err'[o] = e /\ tries'[o] = 1 /\ pc'[o] = "record"
         /\ \A p \in Orders \ {o} :
              /\ err'[p] = err[p] /\ tries'[p] = tries[p] /\ pc'[p] = pc[p]
BY DEF RequestsOK, Attempted, Goto, TryAgain, IsAutoSlippage

LEMMA RefusalsType == Refusals \subseteq {"nil", "failed", "slippage", "long"}
BY DEF Refusals

(* What sending more leaves in the set of accepted transactions.           *)
LEMMA AcceptedGrows ==
  ASSUME ChainOK, \A o \in Orders : sent[o] \subseteq sent'[o], UNCHANGED landed
  PROVE  landed' \subseteq Accepted'
BY DEF ChainOK, Accepted

LEMMA RequestType ==
  ASSUME LifecycleInv, NEW o \in Orders, RequestStep(o)
  PROVE  TypeOK'
<1>0. RequestsOK /\ TablesOK /\ ChainOK /\ OrderInv(o)
  BY DEF LifecycleInv, TypeOK
<1>. USE DEF chain, tables, request
<1>1. CASE Check(o)
  <2>1. RequestsOK'
    <3>1. CASE Goto(o, "insert") /\ UNCHANGED reply
      BY <1>0, <1>1, <3>1 DEF Check, RequestsOK, Goto
    <3>2. CASE Goto(o, "done") /\ Answer(o, "error")
      BY <1>0, <1>1, <3>2 DEF Check, RequestsOK, Goto, Answer
    <3>. QED
      BY <1>1, <3>1, <3>2 DEF Check
  <2>2. TablesOK' /\ ChainOK'
    BY <1>0, <1>1 DEF Check, TablesOK, ChainOK, Accepted
  <2>. QED
    BY <2>1, <2>2 DEF TypeOK
<1>2. CASE InsertWithLog(o)
  <2>1. RequestsOK'
    <3>1. mem' \in [Orders -> Record]
      BY <1>0, <1>2 DEF InsertWithLog, RequestsOK, Opened, Record
    <3>2. /\ pc' \in [Orders -> {"check", "insert", "build", "send", "record",
                                 "deferred", "done", "dead"}]
          /\ reply' \in [Orders -> {"none", "ok", "error"}]
      <4>1. CASE Goto(o, "build") /\ UNCHANGED reply
        BY <1>0, <4>1 DEF RequestsOK, Goto
      <4>2. CASE Goto(o, "done") /\ Answer(o, "error")
        BY <1>0, <4>2 DEF RequestsOK, Goto, Answer
      <4>. QED
        BY <1>2, <4>1, <4>2 DEF InsertWithLog, InsertRefused
    <3>. QED
      BY <1>0, <1>2, <3>1, <3>2 DEF InsertWithLog, RequestsOK
  <2>2. TablesOK'
    BY <1>0, <1>2 DEF InsertWithLog, TablesOK, Write, RollBack, Opened, Record
  <2>3. ChainOK'
    BY <1>0, <1>2 DEF InsertWithLog, ChainOK, Accepted
  <2>. QED
    BY <2>1, <2>2, <2>3 DEF TypeOK
<1>3. CASE BuildTx(o)
  <2>1. TablesOK' /\ ChainOK'
    BY <1>0, <1>3 DEF BuildTx, TablesOK, ChainOK, Accepted
  <2>2. tries[o] = 0
    BY <1>0, <1>3 DEF BuildTx, OrderInv, Trying
  <2>3. RequestsOK'
    <3>1. CASE Attempted(o, "failed") /\ UNCHANGED <<tx, reply>>
      BY <1>0, <1>3, <2>2, <3>1, AttemptType DEF BuildTx, RequestsOK
    <3>2. CASE /\ tx' = [tx EXCEPT ![o] = [payload |-> Payload[o],
                                           blockhash |-> blockhash]]
               /\ Goto(o, "send") /\ UNCHANGED <<tries, err, reply>>
      BY <1>0, <1>3, <3>2 DEF BuildTx, RequestsOK, Goto, Txs, ChainOK
    <3>3. CASE Panicked(o)
      BY <1>0, <1>3, <3>3 DEF BuildTx, Panicked, RequestsOK, Goto, Answer
    <3>. QED
      BY <1>3, <3>1, <3>2, <3>3 DEF BuildTx
  <2>. QED
    BY <2>1, <2>3 DEF TypeOK
<1>4. CASE SendTx(o)
  <2>1. TablesOK'
    BY <1>0, <1>4 DEF SendTx, TablesOK
  <2>2. tries[o] = 0 /\ tx[o] \in Txs
    BY <1>0, <1>4 DEF SendTx, OrderInv, Trying, Sending
  <2>3. RequestsOK'
    <3>1. PICK e \in {"nil", "failed", "slippage", "long"} : Attempted(o, e)
      BY <1>4, RefusalsType DEF SendTx
    <3>2. UNCHANGED <<mem, tx, reply>>
      BY <1>4 DEF SendTx
    <3>. QED
      BY <1>0, <2>2, <3>1, <3>2, AttemptType DEF RequestsOK
  <2>4. ChainOK'
    <3>1. sent' \in [Orders -> SUBSET Txs] /\ \A p \in Orders : sent[p] \subseteq sent'[p]
      BY <1>0, <1>4, <2>2 DEF SendTx, ChainOK
    <3>2. UNCHANGED <<blockhash, landed, crashes>>
      BY <1>4 DEF SendTx
    <3>. QED
      BY <1>0, <3>1, <3>2, AcceptedGrows DEF ChainOK
  <2>. QED
    BY <2>1, <2>3, <2>4 DEF TypeOK
<1>5. CASE RecordResult(o)
  <2>1. RequestsOK'
    BY <1>0, <1>5, OutcomeType DEF RecordResult, UpdateDb, Unsigned, RequestsOK, Goto
  <2>2. TablesOK'
    BY <1>0, <1>5, OutcomeType
    DEF RecordResult, UpdateDb, Unsigned, Write, RollBack, TablesOK
  <2>3. ChainOK'
    BY <1>0, <1>5 DEF RecordResult, ChainOK, Accepted
  <2>. QED
    BY <2>1, <2>2, <2>3 DEF TypeOK
<1>6. CASE Deferred(o)
  <2>1. ~StillOpen(o)
    BY <1>0, <1>6 DEF Deferred, StillOpen, OrderInv, Tried
  <2>2. RequestsOK'
    BY <1>0, <1>6, <2>1 DEF Deferred, Verdict, RequestsOK, Goto, Answer
  <2>3. TablesOK' /\ ChainOK'
    BY <1>0, <1>6, <2>1 DEF Deferred, TablesOK, ChainOK, Accepted
  <2>. QED
    BY <2>2, <2>3 DEF TypeOK
<1>. QED
  BY <1>1, <1>2, <1>3, <1>4, <1>5, <1>6 DEF RequestStep

LEMMA OtherType ==
  ASSUME TypeOK, NewBlockhash \/ (\E t \in Txs : Land(t)) \/ Crash \/ UNCHANGED vars
  PROVE  TypeOK'
<1>. USE DEF chain, tables, request
<1>0. RequestsOK /\ TablesOK /\ ChainOK
  BY DEF TypeOK
<1>1. RequestsOK'
  BY <1>0 DEF NewBlockhash, Land, Crash, RequestsOK, vars
<1>2. TablesOK'
  BY <1>0 DEF NewBlockhash, Land, Crash, TablesOK, vars
<1>3. ChainOK'
  BY <1>0, OrderAssumption DEF NewBlockhash, Land, Crash, ChainOK, Accepted, vars
<1>. QED
  BY <1>1, <1>2, <1>3 DEF TypeOK

-----------------------------------------------------------------------------
(* One order at a time.                                                    *)

(* What an order's part of the invariant reads.                            *)
Untouched(o) ==
  /\ pc'[o] = pc[o] /\ mem'[o] = mem[o] /\ tx'[o] = tx[o] /\ tries'[o] = tries[o]
  /\ err'[o] = err[o] /\ reply'[o] = reply[o] /\ row'[o] = row[o]
  /\ log'[o] = log[o] /\ sent'[o] = sent[o]

LEMMA UntouchedInv ==
  ASSUME NEW o \in Orders, OrderInv(o), Untouched(o)
  PROVE  OrderInv(o)'
BY DEF Untouched, OrderInv, Before, Trying, Tried, Sending, Rows, Logged, Replied

LEMMA OthersUntouched ==
  ASSUME LifecycleInv, NEW o \in Orders, RequestStep(o), NEW p \in Orders, p # o
  PROVE  Untouched(p)
<1>. USE DEF Untouched, chain, tables, request, TypeOK, LifecycleInv, RequestsOK,
     TablesOK, ChainOK, Goto, Answer, Write, RollBack
<1>1. CASE Check(o)
  BY <1>1 DEF Check
<1>2. CASE InsertWithLog(o)
  BY <1>2 DEF InsertWithLog, InsertRefused
<1>3. CASE BuildTx(o)
  BY <1>3 DEF BuildTx, Attempted, Panicked
<1>4. CASE SendTx(o)
  BY <1>4 DEF SendTx, Attempted
<1>5. CASE RecordResult(o)
  BY <1>5 DEF RecordResult, UpdateDb
<1>6. CASE Deferred(o)
  BY <1>6 DEF Deferred, UpdateDb
<1>. QED
  BY <1>1, <1>2, <1>3, <1>4, <1>5, <1>6 DEF RequestStep

(* A database transaction that records a new status appends it to the log  *)
(* of an order that was just opened.                                       *)
LEMMA WriteLogged ==
  ASSUME LifecycleInv, NEW o \in Orders, NEW rec \in Record,
         \/ row[o] = NoRecord /\ rec = Opened
         \/ row[o] = Opened /\ rec.status \in {"onchain", "fail"},
         Write(o, rec)
  PROVE  Logged(o)' /\ row'[o] = rec
<1>1. row \in [Orders -> Record] /\ log \in [Orders -> SUBSET Record] /\ Logged(o)
  BY DEF LifecycleInv, TypeOK, TablesOK, OrderInv
<1>2. row'[o] = rec /\ rec # NoRecord
  BY <1>1 DEF Write, NoRecord, Opened
<1>3. CASE row[o] = NoRecord /\ rec = Opened
  <2>1. log'[o] = {Opened}
    BY <1>1, <1>3 DEF Write, Logged
  <2>. QED
    BY <1>2, <1>3, <2>1 DEF Logged
<1>4. CASE row[o] = Opened /\ rec.status \in {"onchain", "fail"}
  <2>1. log[o] = {Opened}
    BY <1>1, <1>4 DEF Logged, Opened, NoRecord
  <2>2. log'[o] = {Opened, rec}
    BY <1>1, <1>4, <2>1 DEF Write, Opened
  <2>. QED
    BY <1>2, <2>2 DEF Logged
<1>. QED
  BY <1>3, <1>4

LEMMA RequestInv ==
  ASSUME LifecycleInv, NEW o \in Orders, RequestStep(o)
  PROVE  OrderInv(o)'
<1>0. RequestsOK /\ TablesOK /\ ChainOK /\ OrderInv(o)
  BY DEF LifecycleInv, TypeOK
<1>. USE DEF chain, tables, request
<1>1. CASE Check(o)
  <2>1. /\ pc'[o] \in {"insert", "done"}
        /\ \/ pc'[o] = "insert" /\ reply'[o] = reply[o]
           \/ pc'[o] = "done" /\ reply'[o] = "error"
        /\ UNCHANGED <<mem, tx, tries, err, row, log, sent>>
    BY <1>0, <1>1 DEF Check, Goto, Answer, RequestsOK
  <2>. QED
    BY <1>0, <1>1, <2>1 DEF Check, OrderInv, Before, Trying, Tried, Sending, Rows,
       Logged, Replied
<1>2. CASE InsertWithLog(o)
  <2>1. row[o] = NoRecord /\ err[o] = "nil" /\ tries[o] = 0 /\ reply[o] = "none"
    BY <1>0, <1>2 DEF InsertWithLog, OrderInv, Before
  <2>2. mem'[o] = Opened /\ UNCHANGED <<tx, tries, err, sent>>
    BY <1>0, <1>2 DEF InsertWithLog, RequestsOK
  <2>3. CASE Write(o, Opened) /\ Goto(o, "build") /\ UNCHANGED reply
    <3>1. Logged(o)' /\ row'[o] = Opened
      BY <2>1, <2>3, WriteLogged DEF Opened, Record
    <3>2. pc'[o] = "build" /\ reply'[o] = "none"
      BY <1>0, <2>1, <2>3 DEF Goto, RequestsOK
    <3>. QED
      BY <1>0, <2>1, <2>2, <3>1, <3>2 DEF OrderInv, Before, Trying, Tried, Sending,
         Rows, Replied, Opened, NoRecord
  <2>4. CASE UNCHANGED tables /\ Goto(o, "done") /\ Answer(o, "error")
    <3>1. pc'[o] = "done" /\ reply'[o] = "error" /\ UNCHANGED <<row, log>>
      BY <1>0, <2>4 DEF Goto, Answer, RequestsOK
    <3>. QED
      BY <1>0, <2>1, <2>2, <3>1 DEF OrderInv, Before, Trying, Tried, Sending,
         Rows, Replied, Logged
  <2>. QED
    BY <1>2, <2>3, <2>4 DEF InsertWithLog, InsertRefused, RollBack
<1>3. CASE BuildTx(o)
  <2>1. /\ row[o] = Opened /\ mem[o] = Opened /\ sent[o] = {} /\ err[o] = "nil"
        /\ tries[o] = 0 /\ reply[o] = "none"
    BY <1>0, <1>3 DEF BuildTx, OrderInv, Trying
  <2>2. UNCHANGED <<mem, row, log, sent>>
    BY <1>3 DEF BuildTx
  <2>3. CASE Attempted(o, "failed") /\ UNCHANGED <<tx, reply>>
    <3>1. err'[o] = "failed" /\ pc'[o] = "record"
      BY <1>0, <2>1, <2>3, AttemptType
    <3>. QED
      BY <1>0, <2>1, <2>2, <2>3, <3>1 DEF OrderInv, Before, Trying, Tried, Sending,
         Rows, Logged, Replied, Opened
  <2>4. CASE /\ tx' = [tx EXCEPT ![o] = [payload |-> Payload[o],
                                         blockhash |-> blockhash]]
             /\ Goto(o, "send") /\ UNCHANGED <<tries, err, reply>>
    <3>1. tx'[o] \in Txs /\ tx'[o].payload = Payload[o] /\ pc'[o] = "send"
      BY <1>0, <2>4 DEF RequestsOK, ChainOK, Txs, Goto
    <3>. QED
      BY <1>0, <2>1, <2>2, <2>4, <3>1 DEF OrderInv, Before, Trying, Tried, Sending,
         Rows, Logged, Replied, Opened
  <2>5. CASE Panicked(o)
    <3>1. pc'[o] = "done" /\ reply'[o] = "error" /\ UNCHANGED <<tx, tries, err>>
      BY <1>0, <2>5 DEF Panicked, Goto, Answer, RequestsOK
    <3>. QED
      BY <1>0, <2>1, <2>2, <3>1 DEF OrderInv, Before, Trying, Tried, Sending,
         Rows, Logged, Replied, Opened
  <2>. QED
    BY <1>3, <2>3, <2>4, <2>5 DEF BuildTx
<1>4. CASE SendTx(o)
  <2>1. /\ row[o] = Opened /\ mem[o] = Opened /\ sent[o] = {} /\ err[o] = "nil"
        /\ tries[o] = 0 /\ reply[o] = "none"
        /\ tx[o] \in Txs /\ tx[o].payload = Payload[o]
    BY <1>0, <1>4 DEF SendTx, OrderInv, Trying, Sending
  <2>2. UNCHANGED <<mem, tx, reply, row, log>>
    BY <1>4 DEF SendTx
  <2>3. PICK e \in {"nil", "failed", "slippage", "long"} :
          /\ Attempted(o, e)
          /\ sent'[o] \in {sent[o], {tx[o]}}
          /\ e = "nil" => sent'[o] = {tx[o]}
    BY <1>0, <1>4, <2>1 DEF SendTx, Refusals, ChainOK
  <2>4. err'[o] = e /\ pc'[o] = "record"
    BY <1>0, <2>1, <2>3, AttemptType
  <2>. QED
    BY <1>0, <2>1, <2>2, <2>3, <2>4 DEF OrderInv, Before, Trying, Tried, Sending,
       Rows, Logged, Replied, Opened, NoRecord
<1>5. CASE RecordResult(o)
  <2>1. /\ row[o] = Opened /\ mem[o] = Opened /\ reply[o] = "none"
        /\ err[o] = "nil" => tx[o] \in sent[o]
    BY <1>0, <1>5 DEF RecordResult, OrderInv, Tried
  <2>2. pc'[o] = "deferred" /\ mem'[o] = Outcome(o)
        /\ UNCHANGED <<tx, tries, err, reply, sent>>
    BY <1>0, <1>5 DEF RecordResult, UpdateDb, Unsigned, Goto, RequestsOK
  <2>3. /\ Outcome(o) \in Record
        /\ err[o] = "nil" => Outcome(o) = [status |-> "onchain", hash |-> tx[o]]
        /\ err[o] # "nil" => Outcome(o) = [status |-> "fail", hash |-> NoTx]
    BY <1>0, <2>1, OutcomeType DEF Outcome, Opened
  <2>4. CASE Write(o, Outcome(o))
    <3>1. Logged(o)' /\ row'[o] = Outcome(o)
      BY <2>1, <2>3, <2>4, WriteLogged
    <3>. QED
      BY <1>0, <2>1, <2>2, <2>3, <3>1 DEF OrderInv, Before, Trying, Tried, Sending,
         Rows, Replied, Opened, NoRecord
  <2>5. CASE UNCHANGED tables
    BY <1>0, <2>1, <2>2, <2>3, <2>5 DEF OrderInv, Before, Trying, Tried, Sending,
       Rows, Logged, Replied, Opened
  <2>. QED
    BY <1>5, <2>4, <2>5 DEF RecordResult, UpdateDb, Unsigned, RollBack
<1>6. CASE Deferred(o)
  <2>1. ~StillOpen(o)
    BY <1>0, <1>6 DEF Deferred, StillOpen, OrderInv, Tried
  <2>2. /\ pc'[o] = "done" /\ reply'[o] = Verdict(o)
        /\ UNCHANGED <<mem, tx, tries, err, row, log, sent>>
    BY <1>0, <1>6, <2>1 DEF Deferred, Goto, Answer, RequestsOK
  <2>3. err[o] = "nil" => row[o] # NoRecord
    BY <1>0, <1>6 DEF Deferred, OrderInv, Tried, Sending
  <2>. QED
    BY <1>0, <2>2, <2>3 DEF OrderInv, Before, Trying, Tried, Sending,
       Rows, Logged, Replied, Verdict
<1>. QED
  BY <1>1, <1>2, <1>3, <1>4, <1>5, <1>6 DEF RequestStep

LEMMA CrashInv ==
  ASSUME LifecycleInv, Crash, NEW o \in Orders
  PROVE  OrderInv(o)'
<1>1. pc'[o] = pc[o] \/ pc'[o] = "dead"
  BY DEF Crash
<1>2. UNCHANGED <<mem, tx, tries, err, reply, row, log, sent>>
  BY DEF Crash, tables, chain
<1>. QED
  BY <1>1, <1>2 DEF LifecycleInv, OrderInv, Before, Trying, Tried, Sending, Rows,
     Logged, Replied

LEMMA NextInv == LifecycleInv /\ [Next]_vars => LifecycleInv'
<1>. SUFFICES ASSUME LifecycleInv, [Next]_vars PROVE LifecycleInv'
  OBVIOUS
<1>1. CASE \E o \in Orders : RequestStep(o)
  <2>1. PICK o \in Orders : RequestStep(o)
    BY <1>1
  <2>2. TypeOK'
    BY <2>1, RequestType
  <2>3. ASSUME NEW p \in Orders PROVE OrderInv(p)'
    <3>1. CASE p = o
      BY <2>1, <3>1, RequestInv
    <3>2. CASE p # o
      BY <2>1, <3>2, OthersUntouched, UntouchedInv DEF LifecycleInv
    <3>. QED
      BY <3>1, <3>2
  <2>. QED
    BY <2>2, <2>3 DEF LifecycleInv
<1>2. CASE Crash
  BY <1>2, CrashInv, OtherType DEF LifecycleInv
<1>3. CASE NewBlockhash \/ (\E t \in Txs : Land(t)) \/ UNCHANGED vars
  <2>1. TypeOK'
    BY <1>3, OtherType DEF LifecycleInv
  <2>2. \A o \in Orders : Untouched(o)
    BY <1>3 DEF NewBlockhash, Land, vars, request, tables, chain, Untouched
  <2>. QED
    BY <2>1, <2>2, UntouchedInv DEF LifecycleInv
<1>. QED
  BY <1>1, <1>2, <1>3 DEF Next

LEMMA InitInv == Init => LifecycleInv
<1>. SUFFICES ASSUME Init PROVE LifecycleInv
  OBVIOUS
<1>1. \A o \in Orders : OrderInv(o)
  BY DEF Init, OrderInv, Before, Trying, Tried, Sending, Rows, Logged, Replied,
     NoRecord, Opened
<1>. QED
  BY <1>1, InitType DEF LifecycleInv

(* The whole invariant, for any number of orders and crashes.              *)
THEOREM Lifecycle == Spec => []LifecycleInv
BY InitInv, NextInv, PTL DEF Spec

(* Requests, tables and chain stay well formed (TypeOK).                   *)
THEOREM OrderTypes == Spec => []TypeOK
  BY Lifecycle, PTL DEF LifecycleInv

(* An order's row and its log never disagree, whatever fails or dies.      *)
THEOREM LogFollows == Spec => []LogFollowsOrder
<1>1. LifecycleInv => LogFollowsOrder
  BY DEF LifecycleInv, OrderInv, Logged, LogFollowsOrder
<1>. QED
  BY <1>1, Lifecycle, PTL

(* Nothing is executed on the chain without an order row that asked for it.*)
THEOREM WriteAhead == Spec => []NothingUnrecorded
<1>1. LifecycleInv => NothingUnrecorded
  <2>. SUFFICES ASSUME LifecycleInv, NEW t \in landed
                PROVE  \E o \in Orders : row[o].status # "none" /\ Payload[o] = t.payload
    BY DEF NothingUnrecorded
  <2>1. PICK o \in Orders : t \in sent[o]
    BY DEF LifecycleInv, TypeOK, ChainOK, Accepted
  <2>2. row[o] # NoRecord /\ t = tx[o] /\ t.payload = Payload[o]
    BY <2>1 DEF LifecycleInv, OrderInv, Sending
  <2>. QED
    BY <2>2 DEF LifecycleInv, OrderInv, Rows
<1>. QED
  BY <1>1, Lifecycle, PTL

(* A row that says on chain carries the hash of a transaction of its own   *)
(* order that the node accepted.                                           *)
THEOREM OnChainSent == Spec => []OnChainWasSent
<1>1. LifecycleInv => OnChainWasSent
  BY DEF LifecycleInv, OrderInv, Rows, Sending, OnChainWasSent
<1>. QED
  BY <1>1, Lifecycle, PTL

(* What the caller was told and what the row says differ only while the    *)
(* row is in process.                                                      *)
THEOREM RepliesMatch == Spec => []ReplyMatchesOrder
<1>1. LifecycleInv => ReplyMatchesOrder
  <2>. SUFFICES ASSUME LifecycleInv, NEW o \in Orders
                PROVE  /\ reply[o] = "ok" => row[o].status \in {"onchain", "proc"}
                       /\ reply[o] = "error" => row[o].status # "onchain"
    BY DEF ReplyMatchesOrder
  <2>1. row[o] \in Record /\ Replied(o) /\ Rows(o)
    BY DEF LifecycleInv, TypeOK, TablesOK, OrderInv
  <2>. QED
    BY <2>1 DEF Record, Replied, Rows, NoRecord, Opened
<1>. QED
  BY <1>1, Lifecycle, PTL

-----------------------------------------------------------------------------
(* The order book.                                                         *)

LEMMA BookInit == Init => Book!Init
BY DEF Init, Book!Init, NoRecord

(* A row that is written, as the book reads it.                            *)
LEMMA BookWrite ==
  ASSUME row \in [Orders -> Record], NEW o \in Orders, NEW rec \in Record,
         row' = [row EXCEPT ![o] = rec]
  PROVE  /\ [p \in Orders |-> row'[p].status]
              = [[p \in Orders |-> row[p].status] EXCEPT ![o] = rec.status]
         /\ [p \in Orders |-> row'[p].hash]
              = [[p \in Orders |-> row[p].hash] EXCEPT ![o] = rec.hash]
         /\ rec.hash = row[o].hash =>
              [p \in Orders |-> row'[p].hash] = [p \in Orders |-> row[p].hash]
OBVIOUS

LEMMA BookStep ==
  ASSUME LifecycleInv, [Next]_vars
  PROVE  [Book!Next]_(Book!book)
<1>0. row \in [Orders -> Record] /\ sent \in [Orders -> SUBSET Txs]
  BY DEF LifecycleInv, TypeOK, TablesOK, ChainOK
<1>1. ASSUME UNCHANGED <<row, sent>> PROVE UNCHANGED Book!book
  BY <1>1 DEF Book!book
<1>2. CASE \E o \in Orders : InsertWithLog(o)
  <2>1. PICK o \in Orders : InsertWithLog(o)
    BY <1>2
  <2>2. UNCHANGED sent /\ row[o] = NoRecord
    BY <2>1 DEF InsertWithLog, chain, LifecycleInv, OrderInv, Before
  <2>3. CASE UNCHANGED tables
    BY <1>1, <2>2, <2>3 DEF tables
  <2>4. CASE Write(o, Opened)
    <3>1. row'[o] = Opened /\ row' = [row EXCEPT ![o] = Opened] /\ Opened \in Record
      BY <1>0, <2>4 DEF Write, Opened, Record
    <3>2. /\ Opened.hash = row[o].hash /\ Opened.status = "proc"
          /\ row[o].status = "none"
      BY <2>2 DEF Opened, NoRecord
    <3>3. /\ [p \in Orders |-> row'[p].status]
               = [[p \in Orders |-> row[p].status] EXCEPT ![o] = "proc"]
          /\ [p \in Orders |-> row'[p].hash] = [p \in Orders |-> row[p].hash]
      BY <1>0, <3>1, <3>2, BookWrite
    <3>4. Book!Open(o)
      BY <2>2, <3>2, <3>3 DEF Book!Open
    <3>. QED
      BY <3>4 DEF Book!Next
  <2>. QED
    BY <2>1, <2>3, <2>4 DEF InsertWithLog, RollBack
<1>3. CASE \E o \in Orders : SendTx(o)
  <2>1. PICK o \in Orders : SendTx(o)
    BY <1>3
  <2>2. UNCHANGED row /\ row[o] = Opened /\ sent[o] = {} /\ tx[o] \in Txs
    BY <2>1 DEF SendTx, tables, LifecycleInv, OrderInv, Trying, Sending
  <2>3. CASE UNCHANGED sent
    BY <1>1, <2>2, <2>3
  <2>4. CASE sent' = [sent EXCEPT ![o] = @ \cup {tx[o]}]
    <3>1. sent' = [sent EXCEPT ![o] = {tx[o]}]
      BY <1>0, <2>2, <2>4
    <3>2. row[o].status = "proc" /\ UNCHANGED row
      BY <2>2 DEF Opened
    <3>3. Book!Transmit(o)
      BY <1>0, <2>2, <3>1, <3>2 DEF Book!Transmit
    <3>. QED
      BY <3>3 DEF Book!Next
  <2>. QED
    BY <2>1, <2>3, <2>4 DEF SendTx
<1>4. CASE \E o \in Orders : RecordResult(o)
  <2>1. PICK o \in Orders : RecordResult(o)
    BY <1>4
  <2>2. /\ UNCHANGED sent /\ row[o] = Opened /\ mem[o] = Opened
        /\ err[o] = "nil" => tx[o] \in sent[o]
    BY <2>1 DEF RecordResult, chain, LifecycleInv, OrderInv, Tried
  <2>3. CASE UNCHANGED tables
    BY <1>1, <2>2, <2>3 DEF tables
  <2>4. CASE Write(o, Outcome(o))
    <3>1. Outcome(o) \in Record
      BY OutcomeType DEF LifecycleInv, TypeOK
    <3>2. row'[o] = Outcome(o) /\ row' = [row EXCEPT ![o] = Outcome(o)]
      BY <1>0, <2>4, <3>1 DEF Write
    <3>5. row[o].status = "proc" /\ row[o].hash = NoTx
      BY <2>2 DEF Opened
    <3>3. CASE err[o] = "nil"
      <4>1. Outcome(o).status = "onchain" /\ Outcome(o).hash = tx[o]
        BY <3>3 DEF Outcome
      <4>2. /\ [p \in Orders |-> row'[p].status]
                 = [[p \in Orders |-> row[p].status] EXCEPT ![o] = "onchain"]
            /\ [p \in Orders |-> row'[p].hash]
                 = [[p \in Orders |-> row[p].hash] EXCEPT ![o] = tx[o]]
        BY <1>0, <3>1, <3>2, <4>1, BookWrite
      <4>3. Book!Settle(o)
        BY <2>2, <3>3, <3>5, <4>2 DEF Book!Settle
      <4>. QED
        BY <4>3 DEF Book!Next
    <3>4. CASE err[o] # "nil"
      <4>1. Outcome(o).status = "fail" /\ Outcome(o).hash = row[o].hash
        BY <2>2, <3>4 DEF Outcome, Opened
      <4>2. /\ [p \in Orders |-> row'[p].status]
                 = [[p \in Orders |-> row[p].status] EXCEPT ![o] = "fail"]
            /\ [p \in Orders |-> row'[p].hash] = [p \in Orders |-> row[p].hash]
        BY <1>0, <3>1, <3>2, <4>1, BookWrite
      <4>3. Book!Fail(o)
        BY <2>2, <3>5, <4>2 DEF Book!Fail
      <4>. QED
        BY <4>3 DEF Book!Next
    <3>. QED
      BY <3>3, <3>4
  <2>. QED
    BY <2>1, <2>3, <2>4 DEF RecordResult, UpdateDb, Unsigned, RollBack
<1>5. CASE \E o \in Orders : Check(o) \/ BuildTx(o) \/ Deferred(o)
  <2>1. UNCHANGED <<row, sent>>
    BY <1>5 DEF Check, BuildTx, Deferred, StillOpen, tables, chain, LifecycleInv,
       OrderInv, Tried
  <2>. QED
    BY <1>1, <2>1
<1>6. CASE NewBlockhash \/ (\E t \in Txs : Land(t)) \/ Crash \/ UNCHANGED vars
  BY <1>1, <1>6 DEF NewBlockhash, Land, Crash, vars, tables, chain
<1>. QED
  BY <1>2, <1>3, <1>4, <1>5, <1>6 DEF Next, RequestStep

(* The trade service implements the order book: one transaction per order  *)
(* at most, and nothing settled twice.                                     *)
THEOREM BookImplemented == Spec => BookSpec
<1>1. LifecycleInv /\ [Next]_vars => [Book!Next]_(Book!book)
  BY BookStep
<1>. QED
  BY <1>1, BookInit, Lifecycle, PTL DEF Spec, BookSpec, Book!Spec

-----------------------------------------------------------------------------
(* What an error tells the caller.                                         *)

(* An order whose request ended with an error, or whose row says that it   *)
(* failed, never reached the chain and may be placed again.                *)
ErrorWasNotSent ==
  \A o \in Orders : reply[o] = "error" \/ row[o].status = "fail" => sent[o] = {}

Unsent(o) ==
  /\ err[o] # "nil" => sent[o] = {}
  /\ reply[o] = "error" => sent[o] = {}

(* A step that changes neither error nor reply nor what is sent.           *)
LEMMA UnsentKept ==
  ASSUME NEW o \in Orders, Unsent(o),
         err'[o] = err[o] /\ reply'[o] = reply[o] /\ sent'[o] = sent[o]
  PROVE  Unsent(o)'
BY DEF Unsent

LEMMA RequestUnsent ==
  ASSUME "lost" \notin Faults, LifecycleInv, NEW o \in Orders, Unsent(o), RequestStep(o)
  PROVE  Unsent(o)'
<1>0. RequestsOK /\ ChainOK /\ OrderInv(o)
  BY DEF LifecycleInv, TypeOK
<1>. USE DEF Unsent, chain, tables, request
<1>1. CASE Check(o) \/ InsertWithLog(o)
  <2>1. sent[o] = {} /\ UNCHANGED sent
    BY <1>0, <1>1 DEF Check, InsertWithLog, OrderInv, Before, Sending
  <2>. QED
    BY <2>1
<1>2. CASE BuildTx(o)
  <2>1. sent[o] = {} /\ UNCHANGED sent
    BY <1>0, <1>2 DEF BuildTx, OrderInv, Trying
  <2>. QED
    BY <2>1
<1>3. CASE SendTx(o)
  <2>1. /\ sent[o] = {} /\ tries[o] = 0 /\ reply[o] = "none" /\ UNCHANGED reply
    BY <1>0, <1>3 DEF SendTx, OrderInv, Trying
  <2>2. CASE Attempted(o, "nil")
    <3>1. err'[o] = "nil"
      BY <1>0, <2>1, <2>2, AttemptType
    <3>. QED
      BY <2>1, <3>1
  <2>3. CASE UNCHANGED sent
    BY <2>1, <2>3
  <2>. QED
    BY <1>3, <2>2, <2>3 DEF SendTx
<1>4. CASE RecordResult(o)
  BY <1>4 DEF RecordResult
<1>5. CASE Deferred(o)
  <2>1. reply'[o] = Verdict(o) /\ UNCHANGED <<err, sent>>
    BY <1>0, <1>5 DEF Deferred, Answer, RequestsOK
  <2>. QED
    BY <2>1 DEF Verdict
<1>. QED
  BY <1>1, <1>2, <1>3, <1>4, <1>5 DEF RequestStep

LEMMA NextUnsent ==
  ASSUME "lost" \notin Faults, LifecycleInv, \A o \in Orders : Unsent(o), [Next]_vars
  PROVE  \A o \in Orders : Unsent(o)'
<1>1. CASE \E o \in Orders : RequestStep(o)
  <2>1. PICK o \in Orders : RequestStep(o)
    BY <1>1
  <2>2. ASSUME NEW p \in Orders, p # o PROVE Unsent(p)'
    BY <2>1, <2>2, OthersUntouched, UnsentKept DEF Untouched
  <2>. QED
    BY <2>1, <2>2, RequestUnsent
<1>2. CASE Crash \/ NewBlockhash \/ (\E t \in Txs : Land(t)) \/ UNCHANGED vars
  <2>1. UNCHANGED <<err, reply, sent>>
    BY <1>2 DEF Crash, NewBlockhash, Land, vars, request, tables, chain
  <2>. QED
    BY <2>1, UnsentKept
<1>. QED
  BY <1>1, <1>2 DEF Next

(* While no answer of the node is lost, an error means that the chain never *)
(* got the order: whoever got one may place it again without trading twice, *)
(* although the database may refuse what it likes and the service may crash *)
(* (CreateMarketOrder).                                                    *)
THEOREM SafeToRepeat ==
  ASSUME "lost" \notin Faults
  PROVE  Spec => []ErrorWasNotSent
<1>. DEFINE AllUnsent == \A o \in Orders : Unsent(o)
<1>1. Init => AllUnsent
  BY DEF Init, Unsent
<1>2. LifecycleInv /\ AllUnsent /\ [Next]_vars => AllUnsent'
  BY NextUnsent
<1>3. LifecycleInv /\ AllUnsent => ErrorWasNotSent
  BY DEF LifecycleInv, OrderInv, Rows, Unsent, ErrorWasNotSent
<1>. QED
  <2>. HIDE DEF AllUnsent
  <2>. QED
    BY <1>1, <1>2, <1>3, Lifecycle, PTL DEF Spec

(* An order is marked before its caller has the error.                     *)
Marked(o) ==
  /\ err[o] # "long"
  /\ pc[o] = "deferred" /\ err[o] # "nil" => row[o].status = "fail"
  /\ reply[o] = "error" => row[o].status \in {"none", "fail"}

LEMMA RequestMarked ==
  ASSUME Faults \cap {"db", "long", "panic"} = {}, LifecycleInv, NEW o \in Orders,
         Marked(o), RequestStep(o)
  PROVE  Marked(o)'
<1>0. RequestsOK /\ TablesOK /\ ChainOK /\ OrderInv(o)
  BY DEF LifecycleInv, TypeOK
<1>. USE DEF Marked, chain, tables, request
<1>1. CASE Check(o)
  <2>1. row[o] = NoRecord /\ UNCHANGED <<row, err>> /\ pc'[o] # "deferred"
    BY <1>0, <1>1 DEF Check, OrderInv, Before, RequestsOK, Goto
  <2>. QED
    BY <2>1 DEF NoRecord
<1>2. CASE InsertWithLog(o)
  <2>1. reply[o] = "none" /\ UNCHANGED <<reply, err>> /\ pc'[o] = "build"
    BY <1>0, <1>2 DEF InsertWithLog, OrderInv, Before, RequestsOK, Goto
  <2>. QED
    BY <2>1
<1>3. CASE BuildTx(o)
  <2>1. tries[o] = 0 /\ reply[o] = "none" /\ err[o] = "nil"
    BY <1>0, <1>3 DEF BuildTx, OrderInv, Trying
  <2>2. UNCHANGED reply
    BY <1>3 DEF BuildTx
  <2>3. \/ Attempted(o, "failed")
        \/ UNCHANGED err /\ Goto(o, "send")
    BY <1>3 DEF BuildTx
  <2>4. err'[o] \in {"nil", "failed"} /\ pc'[o] \in {"record", "send"}
    BY <1>0, <2>1, <2>3, AttemptType DEF Goto, RequestsOK
  <2>. QED
    BY <2>1, <2>2, <2>4
<1>4. CASE SendTx(o)
  <2>1. tries[o] = 0 /\ reply[o] = "none" /\ UNCHANGED reply
    BY <1>0, <1>4 DEF SendTx, OrderInv, Trying
  <2>2. PICK e \in {"nil", "failed", "slippage"} : Attempted(o, e)
    BY <1>4 DEF SendTx, Refusals
  <2>3. err'[o] = e /\ pc'[o] = "record"
    BY <1>0, <2>1, <2>2, AttemptType
  <2>. QED
    BY <2>1, <2>3
<1>5. CASE RecordResult(o)
  <2>1. reply[o] = "none" /\ UNCHANGED <<err, reply>>
    BY <1>0, <1>5 DEF RecordResult, OrderInv, Tried
  <2>2. row'[o] = Outcome(o)
    BY <1>0, <1>5 DEF RecordResult, Unsigned, UpdateDb, Write, TablesOK
  <2>. QED
    BY <2>1, <2>2 DEF Outcome
<1>6. CASE Deferred(o)
  <2>1. ~StillOpen(o)
    BY <1>0, <1>6 DEF Deferred, StillOpen, OrderInv, Tried
  <2>2. /\ pc'[o] = "done" /\ reply'[o] = Verdict(o) /\ UNCHANGED <<err, row>>
        /\ pc[o] = "deferred"
    BY <1>0, <1>6, <2>1 DEF Deferred, Goto, Answer, RequestsOK
  <2>. QED
    BY <2>2 DEF Verdict
<1>. QED
  BY <1>1, <1>2, <1>3, <1>4, <1>5, <1>6 DEF RequestStep

LEMMA NextMarked ==
  ASSUME Faults \cap {"db", "long", "panic"} = {}, LifecycleInv,
         \A o \in Orders : Marked(o), [Next]_vars
  PROVE  \A o \in Orders : Marked(o)'
<1>1. CASE \E o \in Orders : RequestStep(o)
  <2>1. PICK o \in Orders : RequestStep(o)
    BY <1>1
  <2>2. ASSUME NEW p \in Orders, p # o PROVE Marked(p)'
    <3>1. Untouched(p)
      BY <2>1, <2>2, OthersUntouched
    <3>. QED
      BY <3>1 DEF Untouched, Marked
  <2>. QED
    BY <2>1, <2>2, RequestMarked
<1>2. CASE Crash
  <2>1. \A o \in Orders : pc'[o] = pc[o] \/ pc'[o] = "dead"
    BY <1>2 DEF Crash
  <2>2. UNCHANGED <<err, reply, row>>
    BY <1>2 DEF Crash, tables
  <2>. QED
    BY <2>1, <2>2 DEF Marked
<1>3. CASE NewBlockhash \/ (\E t \in Txs : Land(t)) \/ UNCHANGED vars
  <2>1. UNCHANGED <<pc, err, reply, row>>
    BY <1>3 DEF NewBlockhash, Land, vars, request, tables, chain
  <2>. QED
    BY <2>1 DEF Marked
<1>. QED
  BY <1>1, <1>2, <1>3 DEF Next

(* createmarketorderlogic.go:185 is right as long as the database takes    *)
(* every update and building the transaction does not panic: whatever the  *)
(* node does and whenever the service crashes, an order whose request      *)
(* ended with an error is marked as failed (CreateMarketTx).               *)
THEOREM ErrorsMarked ==
  ASSUME Faults \cap {"db", "long", "panic"} = {}
  PROVE  Spec => []ErrorMeansFailed
<1>. DEFINE AllMarked == \A o \in Orders : Marked(o)
<1>1. Init => AllMarked
  BY DEF Init, Marked
<1>2. LifecycleInv /\ AllMarked /\ [Next]_vars => AllMarked'
  BY NextMarked
<1>3. AllMarked => ErrorMeansFailed
  BY DEF Marked, ErrorMeansFailed
<1>. QED
  <2>. HIDE DEF AllMarked
  <2>. QED
    BY <1>1, <1>2, <1>3, Lifecycle, PTL DEF Spec
=============================================================================

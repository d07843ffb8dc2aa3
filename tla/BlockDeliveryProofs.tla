-------------------------- MODULE BlockDeliveryProofs --------------------------
(***************************************************************************)
(* Theorems about what BlockIngest does with a slot it has taken and with  *)
(* the trades of a block, for every chain, any number of workers on either *)
(* channel and every capacity.                                             *)
(***************************************************************************)
EXTENDS BlockIngestProofs

(* No process dies and no query or write fails.                            *)
Steady == MaxCrashes = 0 /\ "db" \notin Faults

(* No process dies and the trades of a block can be stored.                *)
TradesStorable == MaxCrashes = 0 /\ "save" \notin Faults

LEMMA NoRestart == ASSUME TypeOK, MaxCrashes = 0 PROVE ~Restart
BY DEF TypeOK, RetryOK, Restart

-----------------------------------------------------------------------------
(* Where a slot may be.                                                    *)

LEMMA SentIsIn ==
  ASSUME NEW q \in Seq(Slots), NEW e \in Slots
  PROVE  In(q) \cup {e} \subseteq In(Append(q, e))
<1>1. /\ DOMAIN Append(q, e) = 1..(Len(q) + 1) /\ DOMAIN q = 1..Len(q)
      /\ Len(q) \in Nat
  BY SendProperties, LenProperties
<1>2. e \in In(Append(q, e))
  BY <1>1, SendProperties DEF In
<1>3. ASSUME NEW i \in DOMAIN q PROVE q[i] \in In(Append(q, e))
  BY <1>1, <1>3, SendProperties DEF In
<1>. QED
  BY <1>2, <1>3 DEF In

LEMMA ReceivedOrIn ==
  ASSUME NEW q \in Seq(Slots), q # <<>>
  PROVE  In(q) \subseteq {Head(q)} \cup In(Tail(q))
<1>1. /\ DOMAIN q = 1..Len(q) /\ Len(q) \in Nat
      /\ DOMAIN Tail(q) = 1..(Len(q) - 1)
  BY ReceiveProperties, LenProperties
<1>2. ASSUME NEW i \in DOMAIN q PROVE q[i] \in {Head(q)} \cup In(Tail(q))
  <2>1. CASE i = 1
    BY <2>1, ReceiveProperties
  <2>2. CASE i # 1
    <3>1. i - 1 \in 1..(Len(q) - 1) /\ (i - 1) + 1 = i
      BY <1>1, <2>2
    <3>2. Tail(q)[i - 1] = q[i]
      BY <1>1, <3>1, ReceiveProperties
    <3>. QED
      BY <1>1, <3>1, <3>2 DEF In
  <2>. QED
    BY <2>1, <2>2
<1>. QED
  BY <1>2 DEF In

LEMMA SlotFacts ==
  ASSUME TypeOK
  PROVE  /\ NoSlot \notin Slots /\ delivered \subseteq Slots
         /\ realtimeCh \in Seq(Slots) /\ pending \in Slots \cup {NoSlot}
         /\ worker \in [Workers -> Tasks] /\ block \in [Slots -> Row]
BY ChainAssumption
DEF TypeOK, FeedOK, ChannelsOK, WorkersOK, TablesOK, Slots, NoSlot

(* A worker that takes another step keeps its slot, or has recorded it, or *)
(* may give up on it.                                                      *)
LEMMA MoveOn ==
  ASSUME TypeOK, NoSlotDropped, IdleEmpty, NEW w \in Workers, NEW task, Become(w, task),
         UNCHANGED <<pending, realtimeCh, delivered>>,
         \A s \in Slots : Exists(s) => Exists(s)',
         \/ task.slot = worker[w].slot
         \/ worker[w].slot \in Slots /\ block'[worker[w].slot].id # 0
         \/ worker[w].slot \in Hopeless,
         task.pc = "idle" => task.slot = NoSlot
  PROVE  NoSlotDropped' /\ IdleEmpty'
<1>1. worker' = [worker EXCEPT ![w] = task] /\ worker \in [Workers -> Tasks]
  BY SlotFacts DEF Become
<1>2. worker'[w] = task /\ \A v \in Workers : v # w => worker'[v] = worker[v]
  BY <1>1
<1>3. IdleEmpty'
  BY <1>2 DEF IdleEmpty
<1>4. ASSUME NEW s \in delivered, NEW v \in Workers, worker[v].slot = s
      PROVE  Exists(s)' \/ s \in Hopeless \/ \E u \in Workers : worker'[u].slot = s
  <2>1. CASE v = w
    BY <1>2, <1>4, <2>1 DEF Exists
  <2>2. CASE v # w
    BY <1>2, <1>4, <2>2
  <2>. QED
    BY <2>1, <2>2
<1>5. NoSlotDropped'
  <2>. SUFFICES ASSUME NEW s \in delivered
                PROVE  \/ Exists(s)' \/ s = pending' \/ s \in In(realtimeCh')
                       \/ (\E u \in Workers : worker'[u].slot = s) \/ s \in Hopeless
    BY DEF NoSlotDropped
  <2>1. s \in Slots
    BY SlotFacts
  <2>2. \/ Exists(s) \/ s = pending \/ s \in In(realtimeCh)
        \/ (\E v \in Workers : worker[v].slot = s) \/ s \in Hopeless
    BY DEF NoSlotDropped
  <2>. QED
    BY <1>4, <2>1, <2>2
<1>. QED
  BY <1>3, <1>5

LEMMA FeedKeeps ==
  ASSUME DeliveryInv, FeedStep
  PROVE  NoSlotDropped' /\ IdleEmpty'
<1>0. TypeOK /\ NoSlotDropped /\ IdleEmpty
  BY DEF DeliveryInv, VerdictInv
<1>1. UNCHANGED <<worker, block>>
  BY DEF FeedStep, ReadSlot, SendRealtime, ReadError, MustConnect, table
<1>2. IdleEmpty'
  BY <1>0, <1>1 DEF IdleEmpty
<1>3. \A s : Exists(s)' = Exists(s)
  BY <1>1 DEF Exists
<1>4. CASE ReadSlot
  <2>1. /\ pending = NoSlot /\ pending' = seen + 1 /\ UNCHANGED realtimeCh
        /\ delivered' = delivered \cup {seen + 1}
    BY <1>4 DEF ReadSlot
  <2>2. \A s \in delivered : s # pending
    BY <1>0, <2>1, SlotFacts
  <2>. QED
    BY <1>0, <1>1, <1>2, <1>3, <2>1, <2>2 DEF NoSlotDropped
<1>5. CASE SendRealtime
  <2>1. /\ pending # NoSlot /\ realtimeCh' = Append(realtimeCh, pending)
        /\ UNCHANGED delivered
    BY <1>5 DEF SendRealtime
  <2>2. In(realtimeCh) \cup {pending} \subseteq In(realtimeCh')
    BY <1>0, <2>1, SlotFacts, SentIsIn
  <2>. QED
    BY <1>0, <1>1, <1>2, <1>3, <2>1, <2>2 DEF NoSlotDropped
<1>6. CASE ReadError \/ MustConnect
  <2>1. UNCHANGED <<pending, realtimeCh, delivered>>
    BY <1>6 DEF ReadError, MustConnect
  <2>. QED
    BY <1>0, <1>1, <1>2, <1>3, <2>1 DEF NoSlotDropped
<1>. QED
  BY <1>4, <1>5, <1>6 DEF FeedStep

LEMMA ReceiveKeeps ==
  ASSUME DeliveryInv, NEW w \in Workers, Receive(w)
  PROVE  NoSlotDropped' /\ IdleEmpty'
<1>0. TypeOK /\ NoSlotDropped /\ IdleEmpty
  BY DEF DeliveryInv, VerdictInv
<1>1. worker[w].slot = NoSlot /\ UNCHANGED <<pending, delivered, block>>
  BY <1>0 DEF Receive, IdleEmpty, feed, table
<1>2. \A s : Exists(s)' = Exists(s)
  BY <1>1 DEF Exists
<1>3. PICK slot : Take(w, slot) /\ \/ slot = Head(realtimeCh) /\ realtimeCh # <<>>
                                      /\ realtimeCh' = Tail(realtimeCh)
                                   \/ UNCHANGED realtimeCh
  BY DEF Receive
<1>. DEFINE task == [pc |-> "find", slot |-> slot, copy |-> NoRow]
<1>4. /\ worker'[w] = task
      /\ \A v \in Workers : v # w => worker'[v] = worker[v]
  BY <1>0, <1>3, SlotFacts DEF Take, Become
<1>5. IdleEmpty'
  BY <1>0, <1>4 DEF IdleEmpty
<1>6. \A s \in In(realtimeCh) : s \in In(realtimeCh') \/ worker'[w].slot = s
  <2>1. CASE /\ slot = Head(realtimeCh) /\ realtimeCh # <<>>
             /\ realtimeCh' = Tail(realtimeCh)
    <3>1. In(realtimeCh) \subseteq {slot} \cup In(Tail(realtimeCh))
      BY <1>0, <2>1, SlotFacts, ReceivedOrIn
    <3>2. worker'[w].slot = slot
      BY <1>4
    <3>. QED
      BY <2>1, <3>1, <3>2
  <2>2. CASE UNCHANGED realtimeCh
    BY <2>2
  <2>. QED
    BY <1>3, <2>1, <2>2
<1>7. \A s \in delivered, v \in Workers : worker[v].slot = s => worker'[v].slot = s
  BY <1>0, <1>1, <1>4, SlotFacts
<1>8. NoSlotDropped'
  <2>. SUFFICES ASSUME NEW s \in delivered
                PROVE  \/ Exists(s)' \/ s = pending' \/ s \in In(realtimeCh')
                       \/ (\E u \in Workers : worker'[u].slot = s) \/ s \in Hopeless
    BY <1>1 DEF NoSlotDropped
  <2>1. \/ Exists(s) \/ s = pending \/ s \in In(realtimeCh)
        \/ (\E v \in Workers : worker[v].slot = s) \/ s \in Hopeless
    BY <1>0 DEF NoSlotDropped
  <2>. QED
    BY <1>1, <1>2, <1>6, <1>7, <2>1
<1>. QED
  BY <1>5, <1>8

LEMMA WorkKeeps ==
  ASSUME DeliveryInv, "db" \notin Faults, NEW w \in Workers, WorkerStep(w)
  PROVE  NoSlotDropped' /\ IdleEmpty'
<1>. DEFINE s == worker[w].slot
<1>0. /\ TypeOK /\ NoSlotDropped /\ IdleEmpty /\ RowsOK /\ CopyOK(worker[w])
      /\ worker[w].pc # "idle" => s \in Slots
  BY DEF DeliveryInv, VerdictInv, TypeOK, WorkersOK, TaskOK
<1>. DEFINE Ahead(pc, copy) == [pc |-> pc, slot |-> s, copy |-> copy]
<1>1. CASE Receive(w)
  BY <1>1, ReceiveKeeps
<1>2. CASE FindBlock(w)
  <2>1. UNCHANGED <<pending, realtimeCh, delivered, block>>
    BY <1>2 DEF FindBlock, feed, table
  <2>2. \A t \in Slots : Exists(t) => Exists(t)'
    BY <2>1 DEF Exists
  <2>3. CASE Goto(w, "fetch", block[s])
    BY <1>0, <2>1, <2>2, <2>3, MoveOn DEF Goto
  <2>4. CASE AlreadyDone(block[s]) /\ Finish(w)
    <3>1. s \in Slots /\ Exists(s)
      BY <1>0, <1>2, <2>4 DEF FindBlock, AlreadyDone, Final, RowsOK
    <3>2. block'[s].id # 0
      BY <2>1, <3>1 DEF Exists
    <3>. QED
      BY <1>0, <2>1, <2>2, <2>4, <3>1, <3>2, MoveOn DEF Finish, Idle
  <2>. QED
    BY <1>2, <2>3, <2>4 DEF FindBlock
<1>3. CASE FetchBlock(w)
  <2>1. UNCHANGED <<pending, realtimeCh, delivered, block>>
    BY <1>3 DEF FetchBlock, feed, table
  <2>2. \A t \in Slots : Exists(t) => Exists(t)'
    BY <2>1 DEF Exists
  <2>3. ASSUME NEW next \in {"price", "insert"}, NEW row, Goto(w, next, row)
        PROVE  NoSlotDropped' /\ IdleEmpty'
    BY <1>0, <2>1, <2>2, <2>3, MoveOn DEF Goto
  <2>. QED
    BY <1>3, <2>3 DEF FetchBlock
<1>4. CASE PriceBlock(w)
  <2>1. UNCHANGED <<pending, realtimeCh, delivered, block>>
    BY <1>4 DEF PriceBlock, feed, table
  <2>2. \A t \in Slots : Exists(t) => Exists(t)'
    BY <2>1 DEF Exists
  <2>3. ASSUME NEW p, Goto(w, "insert", [worker[w].copy EXCEPT !.price = p])
        PROVE  NoSlotDropped' /\ IdleEmpty'
    BY <1>0, <2>1, <2>2, <2>3, MoveOn DEF Goto
  <2>4. CASE (s \in Undecodable \/ SolPrice(s) = {}) /\ Finish(w)
    <3>1. s \in Produced
      BY <1>0, <1>4 DEF PriceBlock, TypeOK, WorkersOK, TaskOK
    <3>2. s \in Hopeless
      BY <2>4, <3>1, ChainAssumption DEF SolPrice, Hopeless
    <3>. QED
      BY <1>0, <2>1, <2>2, <2>4, <3>2, MoveOn DEF Finish, Idle
  <2>. QED
    BY <1>4, <2>3, <2>4 DEF PriceBlock
<1>5. CASE InsertBlock(w)
  <2>1. UNCHANGED <<pending, realtimeCh, delivered>> /\ Finish(w) /\ s \in Slots
    BY <1>0, <1>5 DEF InsertBlock, feed
  <2>2. Save(s, worker[w].copy)
    BY <1>5 DEF InsertBlock
  <2>3. worker[w].copy \in Row /\ nextId \in Nat \ {0} /\ block \in [Slots -> Row]
    BY <1>0 DEF TypeOK, WorkersOK, TablesOK, Tasks
  <2>4. \/ Exists(s) /\ UNCHANGED block
        \/ \E row \in Row : row.id # 0 /\ block' = [block EXCEPT ![s] = row]
    <3>1. CASE worker[w].copy.id = 0 /\ Exists(s) /\ UNCHANGED table
      BY <3>1 DEF table
    <3>2. CASE worker[w].copy.id # 0 /\ Store(s, worker[w].copy, nextId)
      BY <2>3, <3>2 DEF Store
    <3>3. CASE Store(s, [worker[w].copy EXCEPT !.id = nextId], nextId + 1)
      <4>1. PICK row \in Row : row = [worker[w].copy EXCEPT !.id = nextId]
        BY <2>3 DEF Row
      <4>2. row.id # 0
        BY <2>3, <4>1 DEF Row
      <4>. QED
        BY <3>3, <4>1, <4>2 DEF Store
    <3>. QED
      BY <2>2, <3>1, <3>2, <3>3 DEF Save
  <2>5. block'[s].id # 0 /\ \A t \in Slots : block[t].id # 0 => block'[t].id # 0
    BY <2>1, <2>3, <2>4 DEF Exists
  <2>6. \A t \in Slots : Exists(t) => Exists(t)'
    BY <2>5 DEF Exists
  <2>. QED
    BY <1>0, <2>1, <2>5, <2>6, MoveOn DEF Finish, Idle
<1>. QED
  BY <1>1, <1>2, <1>3, <1>4, <1>5 DEF WorkerStep

(* Every slot taken from the socket is on its way, recorded or hopeless,   *)
(* for any number of workers on either channel.                            *)
THEOREM NothingDropped ==
  ASSUME Steady
  PROVE  Spec => []NoSlotDropped
<1>1. Init => DeliveryInv
  BY InitVerdict DEF Init, DeliveryInv, NoSlotDropped, IdleEmpty, Idle
<1>2. DeliveryInv /\ [Next]_vars => DeliveryInv'
  <2>. SUFFICES ASSUME DeliveryInv, [Next]_vars PROVE DeliveryInv'
    OBVIOUS
  <2>1. VerdictInv'
    BY NextVerdict DEF DeliveryInv
  <2>2. CASE \E w \in Workers : WorkerStep(w)
    BY <2>1, <2>2, WorkKeeps DEF Steady, DeliveryInv
  <2>3. CASE FeedStep
    BY <2>1, <2>3, FeedKeeps DEF DeliveryInv
  <2>4. CASE \/ Announce \/ ConnectionLost \/ (\E s \in Slots : SaveTrades(s))
             \/ RetryStep \/ UNCHANGED vars
    <3>1. UNCHANGED <<pending, realtimeCh, worker, block, delivered>>
      BY <2>4 DEF Announce, ConnectionLost, SaveTrades, RetryStep, RetryBoot,
         RetryQuery, RetrySend, vars, feed, table
    <3>. QED
      BY <2>1, <3>1 DEF DeliveryInv, NoSlotDropped, IdleEmpty, Exists
  <2>. QED
    BY <2>2, <2>3, <2>4, NoRestart DEF Next, Steady, DeliveryInv, VerdictInv
<1>3. DeliveryInv => NoSlotDropped
  BY DEF DeliveryInv
<1>. QED
  BY <1>1, <1>2, <1>3, PTL DEF Spec

-----------------------------------------------------------------------------
(* The trades of a block.                                                  *)

LEMMA StartedGrows ==
  ASSUME "save" \notin Faults, TablesOK,
         \/ (\E s \in Slots : SaveTrades(s))
         \/ UNCHANGED trades
         \/ \E S : saving' = saving \cup S /\ UNCHANGED saved
  PROVE  saving \cup saved \subseteq saving' \cup saved'
BY DEF SaveTrades, trades

LEMMA WorkTrades ==
  ASSUME TradesInv, NEW w \in Workers, WorkerStep(w),
         saving \cup saved \subseteq saving' \cup saved'
  PROVE  TradesFollow' /\ TradesStarted'
<1>. DEFINE s == worker[w].slot
            copy == worker[w].copy
<1>0. /\ TypeOK /\ TradesFollow /\ TradesStarted /\ CopyOK(worker[w])
      /\ worker \in [Workers -> Tasks]
  BY DEF TradesInv, VerdictInv, TypeOK, WorkersOK
(* A worker that moves on to a write has started the trades.               *)
<1>1. ASSUME NEW task, Become(w, task),
             task.pc = "insert" /\ task.copy.status = "processed"
               => task.slot \in saving' \cup saved'
      PROVE  TradesStarted'
  <2>1. worker'[w] = task /\ \A v \in Workers : v # w => worker'[v] = worker[v]
    BY <1>0, <1>1 DEF Become
  <2>. QED
    BY <1>0, <1>1, <2>1 DEF TradesStarted
<1>2. ASSUME UNCHANGED block PROVE TradesFollow'
  BY <1>0, <1>2 DEF TradesFollow
<1>3. CASE Receive(w) \/ FindBlock(w)
  <2>1. UNCHANGED block
    BY <1>3 DEF Receive, FindBlock, table
  <2>2. PICK task : Become(w, task) /\ task.pc \in {"find", "fetch", "idle"}
    BY <1>3 DEF Receive, FindBlock, Take, Goto, Finish, Idle
  <2>. QED
    BY <1>1, <1>2, <2>1, <2>2
<1>4. CASE FetchBlock(w)
  <2>1. UNCHANGED block
    BY <1>4 DEF FetchBlock, table
  <2>2. copy \in Row
    BY <1>0 DEF Tasks
  <2>3. PICK v \in Verdicts(s) :
          Goto(w, IF v = "processed" THEN "price" ELSE "insert",
               [copy EXCEPT !.status = v])
    BY <1>4 DEF FetchBlock
  <2>4. [copy EXCEPT !.status = v].status = v
    BY <2>2 DEF Row
  <2>. QED
    BY <1>1, <1>2, <2>1, <2>3, <2>4 DEF Goto
<1>5. CASE PriceBlock(w)
  <2>1. UNCHANGED block
    BY <1>5 DEF PriceBlock, table
  <2>2. CASE saving' = saving \cup TradesToSave(s, copy)
    <3>1. s \in saving' \cup saved'
      BY <2>2 DEF TradesToSave
    <3>2. ASSUME NEW p, Goto(w, "insert", [copy EXCEPT !.price = p])
          PROVE  TradesStarted'
      BY <1>1, <3>1, <3>2 DEF Goto
    <3>3. ASSUME Finish(w) PROVE TradesStarted'
      BY <1>1, <3>3 DEF Finish, Idle
    <3>4. (\E p : Goto(w, "insert", [copy EXCEPT !.price = p])) \/ Finish(w)
      BY <1>5 DEF PriceBlock
    <3>. QED
      BY <1>2, <2>1, <3>2, <3>3, <3>4
  <2>3. CASE Finish(w)
    BY <1>1, <1>2, <2>1, <2>3 DEF Finish, Idle
  <2>. QED
    BY <1>5, <2>2, <2>3 DEF PriceBlock
<1>6. CASE InsertBlock(w)
  <2>1. TradesStarted'
    BY <1>1, <1>6 DEF InsertBlock, Finish, Idle
  <2>2. worker[w].pc = "insert"
    BY <1>6 DEF InsertBlock
  <2>3. ASSUME NEW row \in Row, row.status = copy.status,
               block' = [block EXCEPT ![s] = row]
        PROVE  TradesFollow'
    <3>1. ASSUME NEW t \in Slots, block'[t].status = "processed"
          PROVE  t \in saving' \cup saved'
      <4>1. CASE t = s
        <5>1. block'[t] = row
          BY <1>0, <2>3, <4>1 DEF TypeOK, TablesOK
        <5>. QED
          BY <1>0, <2>2, <2>3, <3>1, <4>1, <5>1 DEF TradesStarted
      <4>2. CASE t # s
        BY <1>0, <2>3, <3>1, <4>2 DEF TypeOK, TablesOK, TradesFollow
      <4>. QED
        BY <4>1, <4>2
    <3>. QED
      BY <3>1 DEF TradesFollow
  <2>. QED
    BY <1>2, <1>6, <2>1, <2>3, InsertEffect DEF TradesInv
<1>. QED
  BY <1>3, <1>4, <1>5, <1>6 DEF WorkerStep

(* A block is marked processed only after its trades were started, and     *)
(* they stay started or are stored.                                        *)
THEOREM TradesKept ==
  ASSUME TradesStorable
  PROVE  Spec => []TradesFollow
<1>1. Init => TradesInv
  BY InitVerdict
  DEF Init, TradesInv, TradesFollow, TradesStarted, Idle, NoRow
<1>2. TradesInv /\ [Next]_vars => TradesInv'
  <2>. SUFFICES ASSUME TradesInv, [Next]_vars PROVE TradesInv'
    OBVIOUS
  <2>0. TypeOK /\ TablesOK
    BY DEF TradesInv, VerdictInv, TypeOK
  <2>1. VerdictInv'
    BY NextVerdict DEF TradesInv
  <2>2. CASE \E w \in Workers : WorkerStep(w)
    <3>1. PICK w \in Workers : WorkerStep(w)
      BY <2>2
    <3>2. \/ UNCHANGED trades
          \/ \E S : saving' = saving \cup S /\ UNCHANGED saved
      BY <3>1 DEF WorkerStep, Receive, FindBlock, FetchBlock, PriceBlock,
         InsertBlock, trades
    <3>. QED
      BY <2>0, <2>1, <3>1, <3>2, StartedGrows, WorkTrades DEF TradesInv, TradesStorable
  <2>3. CASE \/ Announce \/ ConnectionLost \/ FeedStep \/ RetryStep
             \/ (\E s \in Slots : SaveTrades(s)) \/ UNCHANGED vars
    <3>1. UNCHANGED <<worker, block>>
      BY <2>3, OtherStepRows, OtherStepWorkers
    <3>2. UNCHANGED trades \/ (\E s \in Slots : SaveTrades(s))
      BY <2>3 DEF Announce, ConnectionLost, FeedStep, ReadSlot, SendRealtime,
         ReadError, MustConnect, RetryStep, RetryBoot, RetryQuery, RetrySend,
         vars, trades
    <3>3. saving \cup saved \subseteq saving' \cup saved'
      BY <2>0, <3>2, StartedGrows DEF TradesStorable
    <3>. QED
      BY <2>1, <3>1, <3>3 DEF TradesInv, TradesFollow, TradesStarted
  <2>. QED
    BY <2>0, <2>2, <2>3, NoRestart DEF Next, TradesStorable
<1>3. TradesInv => TradesFollow
  BY DEF TradesInv
<1>. QED
  BY <1>1, <1>2, <1>3, PTL DEF Spec
===============================================================================

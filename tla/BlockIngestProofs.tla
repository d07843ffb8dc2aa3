-------------------------- MODULE BlockIngestProofs --------------------------
(***************************************************************************)
(* Theorems about BlockIngest for every chain, every number of realtime    *)
(* workers and every capacity.                                             *)
(***************************************************************************)
EXTENDS BlockIngest, SequenceTheorems, TLAPS

-----------------------------------------------------------------------------
(* Sequences used as channels.                                             *)

(* Sending adds one element at the end.                                    *)
LEMMA SendProperties ==
  ASSUME NEW S, NEW q \in Seq(S), NEW e \in S
  PROVE  /\ Append(q, e) \in Seq(S)
         /\ Len(Append(q, e)) = Len(q) + 1
         /\ Append(q, e) # <<>>
         /\ \A i \in 1..Len(q) : Append(q, e)[i] = q[i]
         /\ Append(q, e)[Len(q) + 1] = e
<1>. QED
  BY AppendProperties

(* Receiving removes the first element and moves the others down.          *)
LEMMA ReceiveProperties ==
  ASSUME NEW S, NEW q \in Seq(S), q # <<>>
  PROVE  /\ Head(q) \in S
         /\ Head(q) = q[1]
         /\ Tail(q) \in Seq(S)
         /\ Len(Tail(q)) = Len(q) - 1
         /\ Len(q) \in Nat \ {0}
         /\ \A i \in 1..Len(Tail(q)) : Tail(q)[i] = q[i + 1]
<1>1. Len(q) \in Nat \ {0}
  BY EmptySeq, LenProperties
<1>. QED
  BY <1>1, HeadTailProperties, LenProperties, ElementOfSeq

(* What is left of a queue keeps its place behind what was received.       *)
LEMMA RestProperties ==
  ASSUME NEW S, NEW q \in Seq(S), q # <<>>
  PROVE  /\ 1 \in DOMAIN q /\ Head(q) = q[1]
         /\ \A i \in DOMAIN Tail(q) :
              i \in Int /\ i + 1 \in DOMAIN q /\ 1 < i + 1 /\ Tail(q)[i] = q[i + 1]
<1>1. /\ Len(q) \in Nat \ {0} /\ DOMAIN q = 1..Len(q) /\ Head(q) = q[1]
      /\ DOMAIN Tail(q) = 1..(Len(q) - 1)
      /\ \A i \in 1..(Len(q) - 1) : Tail(q)[i] = q[i + 1]
  BY ReceiveProperties, LenProperties
<1>. QED
  BY <1>1

-----------------------------------------------------------------------------
(* Type correctness.                                                       *)

LEMMA InitType == Init => TypeOK
<1>. SUFFICES ASSUME Init PROVE TypeOK
  OBVIOUS
<1>1. FeedOK
  BY ChainAssumption DEF Init, FeedOK
<1>2. ChannelsOK
  BY EmptySeq, ConfigAssumption DEF Init, ChannelsOK
<1>3. WorkersOK
  BY DEF Init, WorkersOK, TaskOK, Tasks, Idle, NoRow, Row, Statuses
<1>4. TablesOK
  BY DEF Init, TablesOK, NoRow, Row, Statuses
<1>5. RetryOK
  BY EmptySeq, ConfigAssumption DEF Init, RetryOK
<1>. QED
  BY <1>1, <1>2, <1>3, <1>4, <1>5 DEF TypeOK

(* A worker that takes on a well-formed task leaves the workers well       *)
(* formed.                                                                 *)
LEMMA BecomeType ==
  ASSUME WorkersOK, NEW w \in Workers, NEW task, TaskOK(task), Become(w, task)
  PROVE  WorkersOK'
BY DEF WorkersOK, TaskOK, Become

LEMMA FinishType ==
  ASSUME WorkersOK, NEW w \in Workers, Finish(w)
  PROVE  WorkersOK'
<1>1. TaskOK(Idle)
  BY DEF TaskOK, Tasks, Idle, NoRow, Row, Statuses
<1>. QED
  BY <1>1, BecomeType DEF Finish

LEMMA GotoType ==
  ASSUME WorkersOK, NEW w \in Workers, worker[w].pc # "idle",
         NEW pc \in {"fetch", "price", "insert"}, NEW copy \in Row,
         pc = "price" => worker[w].slot \in Produced,
         Goto(w, pc, copy)
  PROVE  WorkersOK'
<1>. DEFINE task == [pc |-> pc, slot |-> worker[w].slot, copy |-> copy]
<1>1. TaskOK(task)
  BY DEF TaskOK, Tasks, WorkersOK
<1>. QED
  BY <1>1, BecomeType DEF Goto

LEMMA TakeType ==
  ASSUME WorkersOK, NEW w \in Workers, NEW slot \in Slots, Take(w, slot)
  PROVE  WorkersOK'
<1>. DEFINE task == [pc |-> "find", slot |-> slot, copy |-> NoRow]
<1>1. TaskOK(task)
  BY DEF TaskOK, Tasks, NoRow, Row, Statuses
<1>. QED
  BY <1>1, BecomeType DEF Take

(* Prices are numbers.                                                     *)
LEMMA SolPriceType ==
  ASSUME TablesOK, NEW s \in Produced
  PROVE  SolPrice(s) \subseteq Nat
BY ChainAssumption DEF SolPrice, NearRow, ProcessedSlots, TablesOK, Row

LEMMA WorkerStepType ==
  ASSUME TypeOK, NEW w \in Workers, WorkerStep(w)
  PROVE  TypeOK'
<1>. USE DEF TypeOK, feed, table, trades
<1>1. CASE Receive(w)
  <2>1. FeedOK' /\ TablesOK' /\ RetryOK'
    BY <1>1 DEF Receive, FeedOK, TablesOK, RetryOK
  <2>2. CASE /\ realtimeCh # <<>> /\ Take(w, Head(realtimeCh))
             /\ realtimeCh' = Tail(realtimeCh) /\ UNCHANGED errorCh
    <3>1. ChannelsOK'
      BY <2>2, ReceiveProperties, ConfigAssumption DEF ChannelsOK
    <3>2. WorkersOK'
      BY <2>2, ReceiveProperties, TakeType DEF ChannelsOK
    <3>. QED
      BY <2>1, <3>1, <3>2
  <2>3. CASE /\ errorCh # <<>> /\ Take(w, Head(errorCh))
             /\ errorCh' = Tail(errorCh) /\ UNCHANGED realtimeCh
    <3>1. ChannelsOK'
      BY <2>3, ReceiveProperties, ConfigAssumption DEF ChannelsOK
    <3>2. WorkersOK'
      BY <2>3, ReceiveProperties, TakeType DEF ChannelsOK
    <3>. QED
      BY <2>1, <3>1, <3>2
  <2>. QED
    BY <1>1, <2>2, <2>3 DEF Receive
<1>2. CASE FindBlock(w)
  <2>1. FeedOK' /\ ChannelsOK' /\ TablesOK' /\ RetryOK'
    BY <1>2 DEF FindBlock, FeedOK, ChannelsOK, TablesOK, RetryOK
  <2>2. worker[w].pc = "find" /\ block[worker[w].slot] \in Row
    BY <1>2 DEF FindBlock, WorkersOK, TaskOK, TablesOK
  <2>3. WorkersOK'
    BY <1>2, <2>2, GotoType, FinishType DEF FindBlock
  <2>. QED
    BY <2>1, <2>3
<1>3. CASE FetchBlock(w)
  <2>1. FeedOK' /\ ChannelsOK' /\ TablesOK' /\ RetryOK'
    BY <1>3 DEF FetchBlock, FeedOK, ChannelsOK, TablesOK, RetryOK
  <2>2. PICK v \in Verdicts(worker[w].slot) :
          Goto(w, IF v = "processed" THEN "price" ELSE "insert",
               [worker[w].copy EXCEPT !.status = v])
    BY <1>3 DEF FetchBlock
  <2>3. v \in Statuses /\ (v = "processed" => worker[w].slot \in Produced)
    BY <2>2 DEF Verdicts, Statuses, Final
  <2>4. [worker[w].copy EXCEPT !.status = v] \in Row
    BY <2>3 DEF WorkersOK, Tasks, Row
  <2>5. WorkersOK'
    BY <1>3, <2>2, <2>3, <2>4, GotoType DEF FetchBlock
  <2>. QED
    BY <2>1, <2>5
<1>4. CASE PriceBlock(w)
  <2>1. FeedOK' /\ ChannelsOK' /\ RetryOK'
    BY <1>4 DEF PriceBlock, FeedOK, ChannelsOK, RetryOK
  <2>2. worker[w].pc = "price" /\ worker[w].slot \in Produced \cap Slots
    BY <1>4 DEF PriceBlock, WorkersOK, TaskOK
  <2>3. TablesOK'
    BY <1>4, <2>2 DEF PriceBlock, TradesToSave, TablesOK
  <2>4. ASSUME NEW p \in SolPrice(worker[w].slot)
        PROVE  [worker[w].copy EXCEPT !.price = p] \in Row
    BY <2>2, <2>4, SolPriceType DEF WorkersOK, Tasks, Row
  <2>5. WorkersOK'
    BY <1>4, <2>2, <2>4, GotoType, FinishType DEF PriceBlock
  <2>. QED
    BY <2>1, <2>3, <2>5
<1>5. CASE InsertBlock(w)
  <2>1. FeedOK' /\ ChannelsOK' /\ RetryOK'
    BY <1>5 DEF InsertBlock, FeedOK, ChannelsOK, RetryOK
  <2>2. WorkersOK'
    BY <1>5, FinishType DEF InsertBlock
  <2>3. worker[w].copy \in Row
    BY DEF WorkersOK, Tasks
  <2>4. TablesOK'
    BY <1>5, <2>3 DEF InsertBlock, Save, Store, TablesOK, Row
  <2>. QED
    BY <2>1, <2>2, <2>4
<1>. QED
  BY <1>1, <1>2, <1>3, <1>4, <1>5 DEF WorkerStep

LEMMA FeedStepType ==
  ASSUME TypeOK, Announce \/ ConnectionLost \/ FeedStep
  PROVE  TypeOK'
<1>. USE DEF TypeOK, table, trades
<1>1. WorkersOK' /\ TablesOK' /\ RetryOK'
  BY DEF Announce, ConnectionLost, FeedStep, ReadSlot, SendRealtime, ReadError,
         MustConnect, WorkersOK, TablesOK, RetryOK
<1>2. ChannelsOK'
  <2>1. CASE SendRealtime
    BY <2>1, SendProperties, LenProperties, ConfigAssumption
    DEF SendRealtime, RealtimeRoom, ChannelsOK, FeedOK, NoSlot
  <2>. QED
    BY <2>1 DEF Announce, ConnectionLost, FeedStep, ReadSlot, ReadError,
                MustConnect, ChannelsOK
<1>3. FeedOK'
  <2>. USE ChainAssumption DEF FeedOK, Slots, NoSlot
  <2>1. CASE Announce
    BY <2>1 DEF Announce
  <2>2. CASE ConnectionLost \/ ReadError \/ SendRealtime
    BY <2>2 DEF ConnectionLost, ReadError, SendRealtime
  <2>3. CASE ReadSlot
    <3>1. seen + 1 \in 0..head /\ seen + 1 \in Slots
      BY <2>3 DEF ReadSlot
    <3>2. delivered \cup {seen + 1} \subseteq 1..(seen + 1)
      BY <3>1
    <3>. QED
      BY <2>3, <3>1, <3>2 DEF ReadSlot
  <2>4. CASE MustConnect
    <3>1. delivered \subseteq 1..head
      OBVIOUS
    <3>. QED
      BY <2>4, <3>1 DEF MustConnect, SubscribeFrom
  <2>. QED
    BY <2>1, <2>2, <2>3, <2>4 DEF FeedStep
<1>. QED
  BY <1>1, <1>2, <1>3

(* What a check sends is a sequence of failed slots.                       *)
LEMMA BatchType ==
  ASSUME NEW n \in 1..Limit, NEW q \in [1..n -> Slots]
  PROVE  q \in Seq(Slots) /\ q # <<>> /\ Len(q) = n /\ DOMAIN q = 1..n
<1>1. n \in Nat \ {0}
  BY ConfigAssumption
<1>2. q \in Seq(Slots)
  BY <1>1, SeqDef
<1>3. DOMAIN q = 1..n /\ Len(q) = n
  BY <1>1, <1>2, LenProperties
<1>. QED
  BY <1>1, <1>2, <1>3, EmptySeq

LEMMA RestOfBatch ==
  ASSUME NEW S, NEW q \in Seq(S), q # <<>>, Len(q) # 1
  PROVE  Tail(q) # <<>>
<1>1. Len(Tail(q)) = Len(q) - 1 /\ Len(q) \in Nat \ {0}
  BY ReceiveProperties
<1>2. Len(Tail(q)) # 0
  BY <1>1
<1>3. Len(<<>>) = 0
  BY EmptySeq
<1>. QED
  BY <1>2, <1>3

LEMMA RetryStepType ==
  ASSUME TypeOK, RetryStep
  PROVE  TypeOK'
<1>. USE DEF TypeOK, feed, table, trades
<1>1. FeedOK' /\ WorkersOK' /\ TablesOK'
  BY DEF RetryStep, RetryBoot, RetryQuery, RetrySend, FeedOK, WorkersOK, TablesOK
<1>2. CASE RetryBoot
  <2>1. ChannelsOK'
    BY <1>2 DEF RetryBoot, ChannelsOK
  <2>2. RetryOK'
    <3>1. CASE retry' = Stopped
      BY <1>2, <3>1, EmptySeq DEF RetryBoot, Stopped, RetryOK
    <3>2. ASSUME NEW from \in Nat, retry' = [retry EXCEPT !.pc = "waiting", !.from = from]
          PROVE  RetryOK'
      BY <1>2, <3>2 DEF RetryBoot, RetryOK
    <3>3. FirstFailed \subseteq Nat
      BY ChainAssumption DEF FirstFailed, FailedSlots, Slots
    <3>. QED
      BY <1>2, <3>1, <3>2, <3>3, ConfigAssumption DEF RetryBoot
  <2>. QED
    BY <1>1, <2>1, <2>2
<1>3. CASE RetryQuery
  <2>1. ChannelsOK'
    BY <1>3 DEF RetryQuery, ChannelsOK
  <2>2. RetryOK'
    <3>1. CASE retry' = Stopped
      BY <1>3, <3>1, EmptySeq DEF RetryQuery, Stopped, RetryOK
    <3>2. ASSUME NEW n \in 1..Limit, NEW q \in [1..n -> Slots],
                 retry' = [retry EXCEPT !.pc = "sending", !.batch = q]
          PROVE  RetryOK'
      <4>1. q \in Seq(Slots) /\ q # <<>>
        BY BatchType
      <4>2. UNCHANGED crashes
        BY <1>3 DEF RetryQuery
      <4>. QED
        BY <3>2, <4>1, <4>2 DEF RetryOK
    <3>. QED
      BY <1>3, <3>1, <3>2 DEF RetryQuery
  <2>. QED
    BY <1>1, <2>1, <2>2
<1>4. CASE RetrySend
  <2>1. retry.batch \in Seq(Slots) /\ retry.batch # <<>>
    BY <1>4 DEF RetrySend, RetryOK
  <2>2. ChannelsOK'
    BY <1>4, <2>1, SendProperties, ReceiveProperties, LenProperties, ConfigAssumption
    DEF RetrySend, ChannelsOK
  <2>3. Len(Tail(retry.batch)) = Len(retry.batch) - 1 /\ Tail(retry.batch) \in Seq(Slots)
    BY <2>1, ReceiveProperties
  <2>4. Len(retry.batch) # 1 => Tail(retry.batch) # <<>>
    BY <2>1, RestOfBatch
  <2>5. RetryOK'
    BY <1>4, <2>3, <2>4 DEF RetrySend, RetryOK
  <2>. QED
    BY <1>1, <2>2, <2>5
<1>. QED
  BY <1>2, <1>3, <1>4 DEF RetryStep

LEMMA OtherStepType ==
  ASSUME TypeOK, Restart \/ (\E s \in Slots : SaveTrades(s)) \/ UNCHANGED vars
  PROVE  TypeOK'
<1>. USE DEF TypeOK, feed, table, trades
<1>1. CASE Restart
  <2>1. WorkersOK'
    BY <1>1 DEF Restart, WorkersOK, TaskOK, Tasks, Idle, NoRow, Row, Statuses
  <2>2. ChannelsOK' /\ RetryOK'
    BY <1>1, EmptySeq, ConfigAssumption DEF Restart, ChannelsOK, RetryOK
  <2>3. FeedOK' /\ TablesOK'
    BY <1>1 DEF Restart, FeedOK, TablesOK, NoSlot
  <2>. QED
    BY <2>1, <2>2, <2>3
<1>2. CASE \E s \in Slots : SaveTrades(s)
  BY <1>2 DEF SaveTrades, FeedOK, ChannelsOK, WorkersOK, TablesOK, RetryOK
<1>3. CASE UNCHANGED vars
  BY <1>3 DEF vars, FeedOK, ChannelsOK, WorkersOK, TablesOK, RetryOK
<1>. QED
  BY <1>1, <1>2, <1>3

(* Whatever the chain, the faults and the number of workers: the channels  *)
(* stay within their capacities and every goroutine works on slots of the  *)
(* chain.                                                                  *)
THEOREM TypeCorrect == Spec => []TypeOK
<1>1. TypeOK /\ [Next]_vars => TypeOK'
  BY WorkerStepType, FeedStepType, RetryStepType, OtherStepType DEF Next
<1>. QED
  BY <1>1, InitType, PTL DEF Spec

-----------------------------------------------------------------------------
(* Verdicts: what the rows and the copies of the workers say is true of    *)
(* the chain.                                                              *)

(* A fallback price was known by every later slot.                         *)
LEMMA SolPriceKnown ==
  ASSUME TypeOK, RowsOK, NEW s \in Produced
  PROVE  SolPrice(s) \subseteq KnownBy(s)
<1>. SUFFICES ASSUME NEW p \in SolPrice(s) PROVE p \in KnownBy(s)
  OBVIOUS
<1>1. s \in Int /\ Produced \subseteq Int /\ Slots \subseteq Int
  BY ChainAssumption DEF Slots
<1>2. CASE BlockPrice[s] > 0
  BY <1>1, <1>2, ChainAssumption DEF SolPrice, KnownBy
<1>3. CASE ~(BlockPrice[s] > 0)
  <2>1. PICK r \in NearRow(Parent[s]) : p = block[r].price /\ p # 0
    BY <1>3 DEF SolPrice
  <2>2. r \in Slots /\ r < Parent[s] /\ block[r].status = "processed"
    BY <2>1 DEF NearRow, ProcessedSlots
  <2>3. p \in KnownBy(r)
    BY <2>1, <2>2 DEF RowsOK, VerdictOK
  <2>4. r \in Int /\ r <= s
    BY <1>1, <2>2, ChainAssumption
  <2>5. PICK t \in Produced : t <= r /\ p = BlockPrice[t]
    BY <2>3 DEF KnownBy
  <2>6. t <= s
    BY <1>1, <2>4, <2>5
  <2>. QED
    BY <2>1, <2>5, <2>6 DEF KnownBy
<1>. QED
  BY <1>2, <1>3

LEMMA IdleCopy == CopyOK(Idle)
BY DEF CopyOK, Idle

LEMMA InitVerdict == Init => VerdictInv
<1>. SUFFICES ASSUME Init PROVE VerdictInv
  OBVIOUS
<1>1. RowsOK
  BY DEF Init, RowsOK, VerdictOK, Exists, NoRow
<1>2. \A w \in Workers : CopyOK(worker[w])
  BY IdleCopy DEF Init
<1>. QED
  BY <1>1, <1>2, InitType DEF VerdictInv

(* Taking on a task whose copy is right.                                   *)
LEMMA BecomeCopy ==
  ASSUME VerdictInv, NEW w \in Workers, NEW task, CopyOK(task), Become(w, task)
  PROVE  \A v \in Workers : CopyOK(worker[v])'
BY DEF VerdictInv, TypeOK, WorkersOK, Become, CopyOK, VerdictOK

LEMMA WorkerStepVerdict ==
  ASSUME VerdictInv, TypeOK', NEW w \in Workers, WorkerStep(w)
  PROVE  VerdictInv'
<1>. DEFINE s == worker[w].slot
            copy == worker[w].copy
<1>0. TypeOK /\ RowsOK /\ CopyOK(worker[w])
  BY DEF VerdictInv
<1>1. CASE Receive(w)
  <2>1. RowsOK'
    BY <1>0, <1>1 DEF Receive, table, RowsOK, VerdictOK, Exists
  <2>2. ASSUME NEW slot, Take(w, slot)
        PROVE  \A v \in Workers : CopyOK(worker[v])'
    <3>1. CopyOK([pc |-> "find", slot |-> slot, copy |-> NoRow])
      BY DEF CopyOK
    <3>. QED
      BY <2>2, <3>1, BecomeCopy DEF Take
  <2>. QED
    BY <1>1, <2>1, <2>2 DEF Receive, VerdictInv
<1>2. CASE FindBlock(w)
  <2>1. RowsOK'
    BY <1>0, <1>2 DEF FindBlock, table, RowsOK, VerdictOK, Exists
  <2>2. s \in Slots
    BY <1>0, <1>2 DEF FindBlock, TypeOK, WorkersOK, TaskOK
  <2>3. CASE ~AlreadyDone(block[s]) /\ Goto(w, "fetch", block[s])
    <3>1. CopyOK([pc |-> "fetch", slot |-> s, copy |-> block[s]])
      BY <1>0, <2>2, <2>3 DEF CopyOK, RowsOK, AlreadyDone
    <3>. QED
      BY <2>1, <2>3, <3>1, BecomeCopy DEF Goto, VerdictInv
  <2>4. CASE Finish(w)
    BY <2>1, <2>4, IdleCopy, BecomeCopy DEF Finish, VerdictInv
  <2>. QED
    BY <1>2, <2>3, <2>4 DEF FindBlock
<1>3. CASE FetchBlock(w)
  <2>1. RowsOK'
    BY <1>0, <1>3 DEF FetchBlock, table, RowsOK, VerdictOK, Exists
  <2>2. copy.status \notin Final /\ VerdictOK(s, copy) /\ copy \in Row
    BY <1>0, <1>3 DEF FetchBlock, CopyOK, TypeOK, WorkersOK, Tasks
  <2>3. PICK v \in Verdicts(s) :
          Goto(w, IF v = "processed" THEN "price" ELSE "insert",
               [copy EXCEPT !.status = v])
    BY <1>3 DEF FetchBlock
  <2>4. CopyOK([pc |-> IF v = "processed" THEN "price" ELSE "insert",
                slot |-> s, copy |-> [copy EXCEPT !.status = v]])
    BY <2>2 DEF Verdicts, CopyOK, VerdictOK, Final, Row
  <2>. QED
    BY <2>1, <2>3, <2>4, BecomeCopy DEF Goto, VerdictInv
<1>4. CASE PriceBlock(w)
  <2>1. RowsOK'
    BY <1>0, <1>4 DEF PriceBlock, table, RowsOK, VerdictOK, Exists
  <2>2. /\ copy.status = "processed" /\ copy \in Row
        /\ s \in Produced
    BY <1>0, <1>4 DEF PriceBlock, CopyOK, TypeOK, WorkersOK, TaskOK, Tasks
  <2>3. ASSUME NEW p \in SolPrice(s), Goto(w, "insert", [copy EXCEPT !.price = p])
        PROVE  \A v \in Workers : CopyOK(worker[v])'
    <3>1. p \in KnownBy(s)
      BY <1>0, <2>2, <2>3, SolPriceKnown
    <3>2. CopyOK([pc |-> "insert", slot |-> s, copy |-> [copy EXCEPT !.price = p]])
      BY <2>2, <3>1 DEF CopyOK, VerdictOK, Row
    <3>. QED
      BY <2>3, <3>2, BecomeCopy DEF Goto
  <2>4. CASE Finish(w)
    BY <2>1, <2>4, IdleCopy, BecomeCopy DEF Finish, VerdictInv
  <2>. QED
    BY <1>4, <2>1, <2>3, <2>4 DEF PriceBlock, VerdictInv
<1>5. CASE InsertBlock(w)
  <2>1. \A v \in Workers : CopyOK(worker[v])'
    BY <1>5, IdleCopy, BecomeCopy DEF InsertBlock, Finish
  <2>2. /\ copy.status # "none" /\ VerdictOK(s, copy) /\ copy \in Row
        /\ s \in Slots
    BY <1>0, <1>5 DEF InsertBlock, CopyOK, TypeOK, WorkersOK, TaskOK, Tasks
  <2>3. ASSUME NEW row \in Row, row.id # 0, row.status # "none", VerdictOK(s, row),
               block' = [block EXCEPT ![s] = row]
        PROVE  RowsOK'
    BY <1>0, <2>2, <2>3 DEF RowsOK, VerdictOK, Exists, TypeOK, TablesOK
  <2>4. [copy EXCEPT !.id = nextId] \in Row /\ nextId # 0
    BY <1>0, <2>2 DEF Row, TypeOK, TablesOK
  <2>5. VerdictOK(s, [copy EXCEPT !.id = nextId])
    BY <2>2 DEF VerdictOK, Row
  <2>6. ASSUME UNCHANGED block PROVE RowsOK'
    BY <1>0, <2>6 DEF RowsOK, VerdictOK, Exists
  <2>7. ASSUME block' = [block EXCEPT ![s] = [copy EXCEPT !.id = nextId]]
        PROVE  RowsOK'
    <3>1. PICK row \in Row : row = [copy EXCEPT !.id = nextId]
      BY <2>4
    <3>2. row.id # 0 /\ row.status # "none"
      BY <2>2, <2>4, <3>1 DEF Row
    <3>. QED
      BY <2>3, <2>5, <2>7, <3>1, <3>2
  <2>8. ASSUME copy.id # 0, block' = [block EXCEPT ![s] = copy] PROVE RowsOK'
    BY <2>2, <2>3, <2>8
  <2>9. RowsOK'
    BY <1>5, <2>6, <2>7, <2>8 DEF InsertBlock, Save, Store, table
  <2>. QED
    BY <2>1, <2>9 DEF VerdictInv
<1>. QED
  BY <1>1, <1>2, <1>3, <1>4, <1>5 DEF WorkerStep

LEMMA NextType == TypeOK /\ [Next]_vars => TypeOK'
BY WorkerStepType, FeedStepType, RetryStepType, OtherStepType DEF Next

(* Steps of the feed, the retry service and the trade goroutines, and the  *)
(* restart, leave the rows alone.                                          *)
LEMMA OtherStepRows ==
  ASSUME \/ Announce \/ ConnectionLost \/ FeedStep
         \/ (\E s \in Slots : SaveTrades(s)) \/ RetryStep \/ Restart
         \/ UNCHANGED vars
  PROVE  UNCHANGED block
BY DEF Announce, ConnectionLost, FeedStep, ReadSlot, SendRealtime, ReadError,
       MustConnect, SaveTrades, RetryStep, RetryBoot, RetryQuery, RetrySend,
       Restart, vars, table

LEMMA OtherStepWorkers ==
  ASSUME \/ Announce \/ ConnectionLost \/ FeedStep
         \/ (\E s \in Slots : SaveTrades(s)) \/ RetryStep \/ UNCHANGED vars
  PROVE  UNCHANGED worker
BY DEF Announce, ConnectionLost, FeedStep, ReadSlot, SendRealtime, ReadError,
       MustConnect, SaveTrades, RetryStep, RetryBoot, RetryQuery, RetrySend,
       vars

LEMMA NextVerdict == VerdictInv /\ [Next]_vars => VerdictInv'
<1>. SUFFICES ASSUME VerdictInv, [Next]_vars PROVE VerdictInv'
  OBVIOUS
<1>1. TypeOK'
  BY NextType DEF VerdictInv
<1>2. CASE \E w \in Workers : WorkerStep(w)
  BY <1>1, <1>2, WorkerStepVerdict
<1>3. CASE UNCHANGED block /\ (UNCHANGED worker \/ Restart)
  <2>1. RowsOK'
    BY <1>3 DEF VerdictInv, RowsOK, VerdictOK, Exists
  <2>2. CASE UNCHANGED worker
    BY <1>1, <2>1, <2>2 DEF VerdictInv, CopyOK, VerdictOK, KnownBy
  <2>3. CASE Restart
    <3>1. \A w \in Workers : worker'[w] = Idle
      BY <2>3 DEF Restart
    <3>. QED
      BY <1>1, <2>1, <3>1 DEF VerdictInv, CopyOK, Idle
  <2>. QED
    BY <1>3, <2>2, <2>3
<1>. QED
  BY <1>2, <1>3, OtherStepRows, OtherStepWorkers DEF Next

(* What the rows and the copies say of the chain is right, with any number *)
(* of workers on either channel.                                           *)
THEOREM VerdictsCorrect == Spec => []VerdictInv
BY InitVerdict, NextVerdict, PTL DEF Spec

(* However many fallbacks and retries it took, the price stored with a     *)
(* processed block was found in that block or in an earlier one.           *)
THEOREM PricesFromPast == Spec => []PriceFromPast
<1>1. VerdictInv => PriceFromPast
  BY DEF VerdictInv, RowsOK, VerdictOK, PriceFromPast
<1>. QED
  BY <1>1, VerdictsCorrect, PTL
-----------------------------------------------------------------------------
(* Who owns which slot.                                                    *)

(* The properties below need one worker on errorCh, which is what          *)
(* Concurrency 1 of the configuration starts.                              *)
SingleRetrier == \A v, w \in ErrorWorkers : v = w

(* The slots in the channels and with the workers are numbers.             *)
LEMMA SlotNumbers ==
  ASSUME TypeOK
  PROVE  /\ seen \in Int /\ head \in Int /\ seen <= head
         /\ pending \in Int
         /\ DOMAIN realtimeCh = 1..Len(realtimeCh) /\ Len(realtimeCh) \in Nat
         /\ \A i \in DOMAIN realtimeCh : realtimeCh[i] \in Slots
         /\ \A w \in Workers : worker[w].pc # "idle" => worker[w].slot \in Slots
         /\ Slots \subseteq Int
<1>1. Slots \subseteq Int /\ Slots \subseteq Nat \ {0}
  BY ChainAssumption DEF Slots
<1>2. realtimeCh \in Seq(Slots)
  BY DEF TypeOK, ChannelsOK
<1>3. /\ DOMAIN realtimeCh = 1..Len(realtimeCh) /\ Len(realtimeCh) \in Nat
      /\ \A i \in DOMAIN realtimeCh : realtimeCh[i] \in Slots
  BY <1>2, LenProperties, ElementOfSeq
<1>4. seen \in Int /\ head \in Int /\ seen <= head /\ pending \in Int
  BY <1>1, ChainAssumption DEF TypeOK, FeedOK, NoSlot
<1>5. \A w \in Workers : worker[w].pc # "idle" => worker[w].slot \in Slots
  BY DEF TypeOK, WorkersOK, TaskOK
<1>. QED
  BY <1>1, <1>3, <1>4, <1>5

LEMMA InitSlots == Init => SlotsInv
<1>. SUFFICES ASSUME Init PROVE SlotsInv
  OBVIOUS
<1>1. DOMAIN <<>> = {}
  BY EmptySeq
<1>2. \A w \in Workers : worker[w].pc = "idle"
  BY DEF Init, Idle
<1>3. RealtimeFresh /\ RetryRecorded
  BY <1>1, <1>2 DEF Init, RealtimeFresh, RetryRecorded, Workers
<1>4. RealtimeOrder
  BY <1>1, <1>2 DEF Init, RealtimeOrder, Exists, NoRow, Workers
<1>. QED
  BY <1>3, <1>4 DEF SlotsInv, SlotOwnership

(* A step that moves no slot.                                              *)
LEMMA StillSlots ==
  ASSUME SlotsInv,
         UNCHANGED <<seen, pending, realtimeCh, errorCh, worker, block, retry>>
  PROVE  SlotsInv'
BY DEF SlotsInv, SlotOwnership, RealtimeFresh, RetryRecorded, RealtimeOrder,
       Fresh, Exists, Holding

LEMMA FeedStepSlots ==
  ASSUME OwnershipInv, TypeOK', FeedStep
  PROVE  SlotsInv'
<1>0. TypeOK /\ RealtimeFresh /\ RetryRecorded /\ RealtimeOrder
  BY DEF OwnershipInv, VerdictInv, SlotsInv, SlotOwnership
<1>. USE SlotNumbers
<1>1. RetryRecorded'
  BY <1>0 DEF FeedStep, ReadSlot, SendRealtime, ReadError, MustConnect, table,
     RetryRecorded, Exists, Holding
<1>2. UNCHANGED <<worker, block>>
  BY DEF FeedStep, ReadSlot, SendRealtime, ReadError, MustConnect, table
<1>3. CASE ReadSlot
  <2>1. pending' = seen + 1 /\ seen' = seen + 1 /\ pending = NoSlot
        /\ UNCHANGED realtimeCh
    BY <1>3 DEF ReadSlot
  <2>2. ~Exists(seen + 1) /\ seen + 1 \in Slots
    <3>1. seen \in Nat /\ seen + 1 \in Slots
      BY <1>0, <2>1, ChainAssumption DEF TypeOK, FeedOK, NoSlot
    <3>. QED
      BY <1>0, <3>1 DEF RealtimeOrder
  <2>3. RealtimeFresh'
    BY <1>0, <1>2, <2>1, <2>2 DEF RealtimeFresh, Fresh, Exists, Workers
  <2>4. RealtimeOrder'
    BY <1>0, <1>2, <2>1, <2>2 DEF RealtimeFresh, RealtimeOrder, Fresh, Exists, Workers
  <2>. QED
    BY <1>1, <2>3, <2>4 DEF SlotsInv, SlotOwnership
<1>4. CASE SendRealtime
  <2>1. /\ realtimeCh' = Append(realtimeCh, pending) /\ pending' = NoSlot
        /\ pending # NoSlot /\ pending \in Slots /\ UNCHANGED seen
        /\ realtimeCh \in Seq(Slots)
    BY <1>0, <1>4 DEF SendRealtime, TypeOK, FeedOK, ChannelsOK
  <2>2. /\ DOMAIN realtimeCh' = 1..(Len(realtimeCh) + 1)
        /\ \A i \in 1..Len(realtimeCh) : realtimeCh'[i] = realtimeCh[i]
        /\ realtimeCh'[Len(realtimeCh) + 1] = pending
    BY <2>1, SendProperties, LenProperties
  <2>3. RealtimeFresh'
    BY <1>0, <1>2, <2>1, <2>2 DEF RealtimeFresh, Fresh, Exists, Workers
  <2>4. RealtimeOrder'
    BY <1>0, <1>2, <2>1, <2>2 DEF RealtimeOrder, Exists, Workers
  <2>. QED
    BY <1>1, <2>3, <2>4 DEF SlotsInv, SlotOwnership
<1>5. CASE ReadError
  BY <1>0, <1>5, StillSlots DEF ReadError, OwnershipInv, table
<1>6. CASE MustConnect
  <2>1. seen' = head /\ UNCHANGED <<realtimeCh, pending>>
    BY <1>6 DEF MustConnect, SubscribeFrom
  <2>2. RealtimeFresh'
    BY <1>0, <1>2, <2>1 DEF RealtimeFresh, Fresh, Exists, Workers, TypeOK, FeedOK
  <2>3. RealtimeOrder'
    BY <1>0, <1>2, <2>1 DEF RealtimeOrder, Exists, Workers
  <2>. QED
    BY <1>1, <2>2, <2>3 DEF SlotsInv, SlotOwnership
<1>. QED
  BY <1>3, <1>4, <1>5, <1>6 DEF FeedStep

LEMMA RetryStepSlots ==
  ASSUME OwnershipInv, RetryStep
  PROVE  SlotsInv'
<1>0. TypeOK /\ RowsOK /\ RealtimeFresh /\ RetryRecorded /\ RealtimeOrder
  BY DEF OwnershipInv, VerdictInv, SlotsInv, SlotOwnership
<1>1. UNCHANGED <<seen, pending, realtimeCh, worker, block>>
  BY DEF RetryStep, RetryBoot, RetryQuery, RetrySend, table, feed
<1>2. RealtimeFresh' /\ RealtimeOrder'
  BY <1>0, <1>1 DEF RealtimeFresh, RealtimeOrder, Fresh, Exists
<1>3. ASSUME \A i \in DOMAIN retry'.batch : Exists(retry'.batch[i]),
             \A i \in DOMAIN errorCh' : Exists(errorCh'[i])
      PROVE  RetryRecorded'
  BY <1>0, <1>1, <1>3 DEF RetryRecorded, Exists, Holding
<1>4. CASE RetryBoot
  <2>1. retry'.batch = retry.batch \/ retry'.batch = <<>>
    <3>1. CASE retry' = Stopped
      BY <3>1 DEF Stopped
    <3>2. ASSUME NEW from, retry' = [retry EXCEPT !.pc = "waiting", !.from = from]
          PROVE  retry'.batch = retry.batch
      <4>1. retry \in [pc : {"boot", "waiting", "sending", "stopped"}, from : Nat,
                       batch : Seq(Slots)]
        BY <1>0 DEF TypeOK, RetryOK
      <4>. QED
        BY <3>2, <4>1
    <3>. QED
      BY <1>4, <3>1, <3>2 DEF RetryBoot
  <2>2. \A i \in DOMAIN retry'.batch : Exists(retry'.batch[i])
    BY <1>0, <2>1, EmptySeq DEF RetryRecorded
  <2>3. UNCHANGED errorCh
    BY <1>4 DEF RetryBoot
  <2>4. RetryRecorded'
    BY <1>0, <1>3, <2>2, <2>3 DEF RetryRecorded
  <2>. QED
    BY <1>2, <2>4 DEF SlotsInv, SlotOwnership
<1>5. CASE RetryQuery
  <2>1. UNCHANGED errorCh
    BY <1>5 DEF RetryQuery
  <2>2. \A s \in FailedSlots : Exists(s)
    BY <1>0 DEF FailedSlots, RowsOK
  <2>3. \A i \in DOMAIN retry'.batch : Exists(retry'.batch[i])
    <3>1. CASE retry' = Stopped
      BY <3>1, EmptySeq DEF Stopped
    <3>2. ASSUME NEW q, NewestFirst(q, RetryWindow), retry'.batch = q
          PROVE  \A i \in DOMAIN retry'.batch : Exists(retry'.batch[i])
      BY <2>2, <3>2 DEF NewestFirst, RetryWindow
    <3>3. retry \in [pc : {"boot", "waiting", "sending", "stopped"}, from : Nat,
                     batch : Seq(Slots)]
      BY <1>0 DEF TypeOK, RetryOK
    <3>. QED
      BY <1>5, <3>1, <3>2, <3>3 DEF RetryQuery
  <2>4. RetryRecorded'
    BY <1>0, <1>3, <2>1, <2>3 DEF RetryRecorded
  <2>. QED
    BY <1>2, <2>4 DEF SlotsInv, SlotOwnership
<1>6. CASE RetrySend
  <2>1. /\ retry.batch \in Seq(Slots) /\ retry.batch # <<>>
        /\ errorCh \in Seq(Slots)
    BY <1>0, <1>6 DEF RetrySend, TypeOK, RetryOK, ChannelsOK
  <2>2. errorCh' = Append(errorCh, Head(retry.batch))
        /\ retry'.batch = Tail(retry.batch)
    BY <1>0, <1>6 DEF RetrySend, TypeOK, RetryOK
  <2>3. Head(retry.batch) \in Slots
    BY <2>1, ReceiveProperties
  <2>4. \A i \in DOMAIN retry'.batch : Exists(retry'.batch[i])
    BY <1>0, <2>1, <2>2, RestProperties DEF RetryRecorded
  <2>5. Exists(Head(retry.batch))
    BY <1>0, <2>1, RestProperties DEF RetryRecorded
  <2>6. /\ DOMAIN errorCh' = 1..(Len(errorCh) + 1)
        /\ DOMAIN errorCh = 1..Len(errorCh) /\ Len(errorCh) \in Nat
        /\ \A i \in 1..Len(errorCh) : errorCh'[i] = errorCh[i]
        /\ errorCh'[Len(errorCh) + 1] = Head(retry.batch)
    BY <2>1, <2>2, <2>3, SendProperties, LenProperties
  <2>7. \A i \in DOMAIN errorCh' : Exists(errorCh'[i])
    BY <1>0, <2>5, <2>6 DEF RetryRecorded
  <2>8. RetryRecorded'
    BY <1>3, <2>4, <2>7
  <2>. QED
    BY <1>2, <2>8 DEF SlotsInv, SlotOwnership
<1>. QED
  BY <1>4, <1>5, <1>6 DEF RetryStep

(* A worker that moves on with its slot, or gives it up.                   *)
LEMMA MoveOnSlots ==
  ASSUME SlotsInv, NEW w \in Workers, NEW task, Become(w, task),
         worker \in [Workers -> Tasks],
         UNCHANGED <<seen, pending, realtimeCh, errorCh, block, retry>>,
         \/ task.pc = "idle"
         \/ worker[w].pc # "idle" /\ task.slot = worker[w].slot,
         w \in ErrorWorkers /\ task.pc \in {"fetch", "price", "insert"}
           => block[task.slot].status = "failed"
  PROVE  SlotsInv'
<1>1. \A v \in Workers : worker'[v] = IF v = w THEN task ELSE worker[v]
  BY DEF Become
<1>2. RealtimeFresh'
  BY <1>1 DEF SlotsInv, SlotOwnership, RealtimeFresh, Fresh, Exists, Workers
<1>3. RetryRecorded'
  BY <1>1 DEF SlotsInv, SlotOwnership, RetryRecorded, Exists, Holding, Workers
<1>4. RealtimeOrder'
  BY <1>1 DEF SlotsInv, RealtimeOrder, Exists, Workers
<1>. QED
  BY <1>2, <1>3, <1>4 DEF SlotsInv, SlotOwnership

LEMMA ReceiveSlots ==
  ASSUME OwnershipInv, NEW w \in Workers, Receive(w)
  PROVE  SlotsInv'
<1>0. TypeOK /\ RealtimeFresh /\ RetryRecorded /\ RealtimeOrder
      /\ worker \in [Workers -> Tasks]
  BY DEF OwnershipInv, VerdictInv, SlotsInv, SlotOwnership, TypeOK, WorkersOK
<1>. USE SlotNumbers
<1>1. UNCHANGED <<seen, pending, block, retry>>
  BY DEF Receive, feed, table
<1>2. CASE /\ w \in RealWorkers /\ realtimeCh # <<>>
           /\ Take(w, Head(realtimeCh))
           /\ realtimeCh' = Tail(realtimeCh) /\ UNCHANGED errorCh
  <2>1. realtimeCh \in Seq(Slots) /\ w \notin ErrorWorkers
    BY <1>0, <1>2, ConfigAssumption DEF TypeOK, ChannelsOK
  <2>2. /\ 1 \in DOMAIN realtimeCh /\ Head(realtimeCh) = realtimeCh[1]
        /\ \A i \in DOMAIN realtimeCh' :
             /\ i \in Int /\ i + 1 \in DOMAIN realtimeCh /\ 1 < i + 1
             /\ realtimeCh'[i] = realtimeCh[i + 1]
    BY <1>2, <2>1, RestProperties
  <2>3. /\ worker'[w].slot = realtimeCh[1] /\ worker'[w].pc = "find"
        /\ \A v \in Workers : v # w => worker'[v] = worker[v]
    BY <1>0, <1>2, <2>2 DEF Take, Become
  <2>4. RealtimeFresh'
    <3>1. \A i \in DOMAIN realtimeCh : Fresh(realtimeCh[i])
      BY <1>0 DEF RealtimeFresh
    <3>2. (\A i \in DOMAIN realtimeCh : Fresh(realtimeCh[i]))'
      BY <1>1, <2>2, <3>1 DEF Fresh, Exists
    <3>3. (\A v \in RealWorkers : worker[v].pc # "idle" => Fresh(worker[v].slot))'
      BY <1>0, <1>1, <2>2, <2>3, <3>1 DEF RealtimeFresh, Fresh, Exists, Workers
    <3>4. (pending # NoSlot => Fresh(pending))'
      BY <1>0, <1>1 DEF RealtimeFresh, Fresh, Exists
    <3>. QED
      BY <3>2, <3>3, <3>4 DEF RealtimeFresh
  <2>5. RetryRecorded'
    BY <1>0, <1>1, <1>2, <2>1, <2>3 DEF RetryRecorded, Exists, Holding, Workers
  <2>6. RealtimeOrder'
    <3>1. (\A s \in Slots : Exists(s) => s <= seen)'
      BY <1>0, <1>1 DEF RealtimeOrder, Exists
    <3>2. /\ \A i, j \in DOMAIN realtimeCh' : i < j => realtimeCh'[i] < realtimeCh'[j]
          /\ \A i \in DOMAIN realtimeCh' : pending' # NoSlot => realtimeCh'[i] < pending'
      BY <1>0, <1>1, <2>2 DEF RealtimeOrder
    <3>3. \A v \in RealWorkers : worker'[v].pc # "idle" =>
            /\ \A i \in DOMAIN realtimeCh' : worker'[v].slot < realtimeCh'[i]
            /\ pending' # NoSlot => worker'[v].slot < pending'
      BY <1>0, <1>1, <2>2, <2>3 DEF RealtimeOrder, Workers
    <3>4. \A u, v \in RealWorkers :
            worker'[u].pc # "idle" /\ worker'[v].pc # "idle" /\ u # v
              => worker'[u].slot # worker'[v].slot
      BY <1>0, <2>2, <2>3 DEF RealtimeOrder, Workers
    <3>. QED
      BY <3>1, <3>2, <3>3, <3>4 DEF RealtimeOrder
  <2>. QED
    BY <2>4, <2>5, <2>6 DEF SlotsInv, SlotOwnership
<1>3. CASE /\ w \in ErrorWorkers /\ errorCh # <<>>
           /\ Take(w, Head(errorCh))
           /\ errorCh' = Tail(errorCh) /\ UNCHANGED realtimeCh
  <2>1. errorCh \in Seq(Slots) /\ w \notin RealWorkers
    BY <1>0, <1>3, ConfigAssumption DEF TypeOK, ChannelsOK
  <2>2. /\ 1 \in DOMAIN errorCh /\ Head(errorCh) = errorCh[1]
        /\ \A i \in DOMAIN errorCh' :
             i + 1 \in DOMAIN errorCh /\ errorCh'[i] = errorCh[i + 1]
    BY <1>3, <2>1, RestProperties
  <2>3. /\ worker'[w].slot = errorCh[1] /\ worker'[w].pc = "find"
        /\ \A v \in Workers : v # w => worker'[v] = worker[v]
    BY <1>0, <1>3, <2>2 DEF Take, Become
  <2>4. RealtimeFresh' /\ RealtimeOrder'
    BY <1>0, <1>1, <1>3, <2>1, <2>3
    DEF RealtimeFresh, RealtimeOrder, Fresh, Exists, Workers
  <2>5. RetryRecorded'
    BY <1>0, <1>1, <2>2, <2>3 DEF RetryRecorded, Exists, Holding, Workers
  <2>. QED
    BY <2>4, <2>5 DEF SlotsInv, SlotOwnership
<1>. QED
  BY <1>2, <1>3 DEF Receive

LEMMA WorkingSlots ==
  ASSUME OwnershipInv, NEW w \in Workers,
         FindBlock(w) \/ FetchBlock(w) \/ PriceBlock(w)
  PROVE  SlotsInv'
<1>0. /\ TypeOK /\ RowsOK /\ SlotsInv /\ RetryRecorded
      /\ worker \in [Workers -> Tasks]
  BY DEF OwnershipInv, VerdictInv, SlotsInv, SlotOwnership, TypeOK, WorkersOK
<1>1. UNCHANGED <<seen, pending, realtimeCh, errorCh, block, retry>>
  BY DEF FindBlock, FetchBlock, PriceBlock, feed, table
<1>2. CASE Finish(w)
  BY <1>0, <1>1, <1>2, MoveOnSlots DEF Finish, Idle
<1>3. ASSUME NEW pc, NEW copy, Goto(w, pc, copy), worker[w].pc # "idle",
             w \in ErrorWorkers => block[worker[w].slot].status = "failed"
      PROVE  SlotsInv'
  BY <1>0, <1>1, <1>3, MoveOnSlots DEF Goto
<1>4. CASE FindBlock(w)
  <2>1. worker[w].slot \in Slots
    BY <1>0, <1>4, SlotNumbers DEF FindBlock
  <2>2. block[worker[w].slot].status \in Statuses
    BY <1>0, <2>1 DEF TypeOK, TablesOK, Row
  <2>3. CASE ~AlreadyDone(block[worker[w].slot])
             /\ Goto(w, "fetch", block[worker[w].slot])
    <3>1. w \in ErrorWorkers => block[worker[w].slot].status = "failed"
      BY <1>0, <1>4, <2>1, <2>2, <2>3
      DEF FindBlock, RetryRecorded, RowsOK, AlreadyDone, Statuses
    <3>. QED
      BY <1>3, <1>4, <2>3, <3>1 DEF FindBlock
  <2>. QED
    BY <1>2, <1>4, <2>3 DEF FindBlock
<1>5. CASE FetchBlock(w) \/ PriceBlock(w)
  <2>1. w \in ErrorWorkers => block[worker[w].slot].status = "failed"
    BY <1>0, <1>5 DEF FetchBlock, PriceBlock, RetryRecorded, Holding
  <2>. QED
    BY <1>2, <1>3, <1>5, <2>1 DEF FetchBlock, PriceBlock
<1>. QED
  BY <1>4, <1>5

(* What a write does to the table: nothing, or the verdict the worker      *)
(* holds becomes the row of its slot.                                      *)
LEMMA InsertEffect ==
  ASSUME VerdictInv, NEW w \in Workers, InsertBlock(w)
  PROVE  \/ UNCHANGED block
         \/ \E row \in Row :
              /\ row.id # 0
              /\ row.status = worker[w].copy.status
              /\ row.price = worker[w].copy.price
              /\ block' = [block EXCEPT ![worker[w].slot] = row]
<1>1. worker[w].copy \in Row /\ nextId \in Nat \ {0}
  BY DEF VerdictInv, TypeOK, WorkersOK, TablesOK, Tasks
<1>2. ASSUME block' = [block EXCEPT ![worker[w].slot] =
                         [worker[w].copy EXCEPT !.id = nextId]]
      PROVE  \E row \in Row :
              /\ row.id # 0
              /\ row.status = worker[w].copy.status
              /\ row.price = worker[w].copy.price
              /\ block' = [block EXCEPT ![worker[w].slot] = row]
  <2>1. PICK row \in Row : row = [worker[w].copy EXCEPT !.id = nextId]
    BY <1>1 DEF Row
  <2>2. /\ row.id # 0
        /\ row.status = worker[w].copy.status
        /\ row.price = worker[w].copy.price
    BY <1>1, <2>1 DEF Row
  <2>. QED
    BY <1>2, <2>1, <2>2
<1>. QED
  BY <1>1, <1>2 DEF InsertBlock, Save, Store, table

LEMMA InsertSlots ==
  ASSUME SingleRetrier, OwnershipInv, NEW w \in Workers, InsertBlock(w)
  PROVE  SlotsInv'
<1>0. /\ TypeOK /\ RealtimeFresh /\ RetryRecorded /\ RealtimeOrder /\ SlotsInv
      /\ worker \in [Workers -> Tasks]
  BY DEF OwnershipInv, VerdictInv, SlotsInv, SlotOwnership, TypeOK, WorkersOK
<1>. USE SlotNumbers
<1>1. UNCHANGED <<seen, pending, realtimeCh, errorCh, retry>>
      /\ worker[w].pc = "insert"
  BY DEF InsertBlock, feed
<1>2. CASE UNCHANGED block
  BY <1>0, <1>1, <1>2, MoveOnSlots DEF InsertBlock, Finish, Idle
<1>3. ASSUME NEW row \in Row, row.id # 0,
             block' = [block EXCEPT ![worker[w].slot] = row]
      PROVE  SlotsInv'
  <2>1. worker' = [worker EXCEPT ![w] = Idle]
    BY DEF InsertBlock, Finish, Become
  <2>2. /\ worker'[w].pc = "idle"
        /\ \A v \in Workers : v # w => worker'[v] = worker[v]
    BY <1>0, <2>1 DEF Idle
  <2>3. worker[w].slot \in Slots /\ worker[w].slot <= seen
    BY <1>0, <1>1 DEF RealtimeFresh, RetryRecorded, RealtimeOrder, Fresh, Workers
  <2>4. \A s : s # worker[w].slot => block'[s] = block[s]
    BY <1>0, <1>3 DEF TypeOK, TablesOK
  <2>5. block'[worker[w].slot] = row
    BY <1>0, <1>3, <2>3 DEF TypeOK, TablesOK
  <2>6. \A s : Exists(s)' <=> s = worker[w].slot \/ Exists(s)
    BY <1>3, <2>4, <2>5 DEF Exists
  <2>7. \A v \in RealWorkers : v # w /\ worker[v].pc # "idle"
          => worker[v].slot # worker[w].slot
    BY <1>0, <1>1 DEF RealtimeOrder, RealtimeFresh, RetryRecorded, Fresh, Workers
  <2>8. \A i \in DOMAIN realtimeCh : realtimeCh[i] # worker[w].slot
    BY <1>0, <1>1 DEF RealtimeOrder, RealtimeFresh, RetryRecorded, Fresh, Workers
  <2>9. pending # NoSlot => pending # worker[w].slot
    BY <1>0, <1>1 DEF RealtimeOrder, RealtimeFresh, RetryRecorded, Fresh, Workers
  <2>10. \A v \in ErrorWorkers : v # w /\ worker[v].pc # "idle"
           => worker[v].slot # worker[w].slot
    BY <1>0, <1>1 DEF SingleRetrier, RealtimeFresh, RetryRecorded, Fresh, Workers
  <2>11. RealtimeFresh'
    BY <1>0, <1>1, <2>2, <2>6, <2>7, <2>8, <2>9 DEF RealtimeFresh, Fresh, Workers
  <2>12. RetryRecorded'
    BY <1>0, <1>1, <2>2, <2>4, <2>6, <2>10 DEF RetryRecorded, Holding, Workers
  <2>13. RealtimeOrder'
    BY <1>0, <1>1, <2>2, <2>3, <2>6 DEF RealtimeOrder, Workers
  <2>. QED
    BY <2>11, <2>12, <2>13 DEF SlotsInv, SlotOwnership
<1>. QED
  BY <1>2, <1>3, InsertEffect DEF OwnershipInv

LEMMA RestartSlots ==
  ASSUME OwnershipInv, Restart
  PROVE  SlotsInv'
<1>0. RealtimeOrder
  BY DEF OwnershipInv, SlotsInv
<1>1. /\ realtimeCh' = <<>> /\ errorCh' = <<>> /\ retry'.batch = <<>>
      /\ pending' = NoSlot /\ UNCHANGED <<seen, block>>
      /\ \A w \in Workers : worker'[w].pc = "idle"
  BY DEF Restart, Idle, table
<1>2. DOMAIN <<>> = {}
  BY EmptySeq
<1>3. RealtimeFresh' /\ RetryRecorded'
  BY <1>1, <1>2 DEF RealtimeFresh, RetryRecorded, Workers
<1>4. RealtimeOrder'
  BY <1>0, <1>1, <1>2 DEF RealtimeOrder, Exists, Workers
<1>. QED
  BY <1>3, <1>4 DEF SlotsInv, SlotOwnership

LEMMA NextOwnership ==
  ASSUME SingleRetrier, OwnershipInv, [Next]_vars
  PROVE  OwnershipInv'
<1>1. VerdictInv' /\ TypeOK'
  BY NextVerdict DEF OwnershipInv, VerdictInv
<1>2. CASE \E w \in Workers : WorkerStep(w)
  <2>1. PICK w \in Workers : WorkerStep(w)
    BY <1>2
  <2>2. SlotsInv'
    BY <2>1, ReceiveSlots, WorkingSlots, InsertSlots DEF WorkerStep
  <2>. QED
    BY <1>1, <2>2 DEF OwnershipInv
<1>3. CASE \/ Announce \/ ConnectionLost \/ (\E s \in Slots : SaveTrades(s))
           \/ UNCHANGED vars
  <2>1. UNCHANGED <<seen, pending, realtimeCh, errorCh, worker, block, retry>>
    BY <1>3 DEF Announce, ConnectionLost, SaveTrades, vars, feed, table
  <2>. QED
    BY <1>1, <2>1, StillSlots DEF OwnershipInv
<1>. QED
  BY <1>1, <1>2, <1>3, FeedStepSlots, RetryStepSlots, RestartSlots
  DEF Next, OwnershipInv

(* With one worker on errorCh every slot has one owner at a time, whatever *)
(* the number of workers on realtimeCh.                                    *)
THEOREM Ownership ==
  ASSUME SingleRetrier
  PROVE  Spec => []OwnershipInv
<1>1. Init => OwnershipInv
  BY InitVerdict, InitSlots DEF OwnershipInv
<1>2. OwnershipInv /\ [Next]_vars => OwnershipInv'
  BY NextOwnership
<1>. QED
  BY <1>1, <1>2, PTL DEF Spec

(* No two workers hold a copy of the same row: a retry never races the     *)
(* realtime side.                                                          *)
THEOREM OneHandlerOnly ==
  ASSUME SingleRetrier
  PROVE  Spec => []OneHandler
<1>1. OwnershipInv => OneHandler
  <2>. SUFFICES ASSUME OwnershipInv, NEW v \in Workers, NEW w \in Workers,
                       Holding(v), Holding(w), worker[v].slot = worker[w].slot
                PROVE  v = w
    BY DEF OneHandler
  <2>1. worker[v].pc # "idle" /\ worker[w].pc # "idle"
    BY DEF Holding
  <2>. QED
    BY <2>1 DEF OwnershipInv, SlotsInv, SlotOwnership, RealtimeFresh,
       RetryRecorded, RealtimeOrder, Fresh, Workers, SingleRetrier
<1>. QED
  BY <1>1, Ownership, PTL

-----------------------------------------------------------------------------
(* The table is a ledger.                                                  *)

(* The row a worker is about to write is open.                             *)
LEMMA OpenRow ==
  ASSUME OwnershipInv, NEW w \in Workers, worker[w].pc = "insert"
  PROVE  /\ worker[w].slot \in Slots
         /\ block[worker[w].slot].status \notin Final
<1>1. worker[w].slot \in Slots
  BY DEF OwnershipInv, VerdictInv, TypeOK, WorkersOK, TaskOK
<1>2. CASE w \in RealWorkers
  BY <1>1, <1>2 DEF OwnershipInv, VerdictInv, RowsOK, SlotsInv, SlotOwnership,
     RealtimeFresh, Fresh, Final
<1>3. CASE w \in ErrorWorkers
  BY <1>1, <1>3 DEF OwnershipInv, SlotsInv, SlotOwnership, RetryRecorded,
     Holding, Final
<1>. QED
  BY <1>1, <1>2, <1>3 DEF Workers

LEMMA StepFinal ==
  ASSUME OwnershipInv, [Next]_vars,
         NEW s \in Slots, block[s].status \in Final
  PROVE  block'[s] = block[s]
<1>1. CASE \E w \in Workers : InsertBlock(w)
  <2>1. PICK w \in Workers : InsertBlock(w)
    BY <1>1
  <2>2. s # worker[w].slot
    BY <2>1, OpenRow DEF InsertBlock
  <2>. QED
    BY <2>1, <2>2, InsertEffect DEF OwnershipInv, VerdictInv, TypeOK, TablesOK
<1>2. CASE \E w \in Workers : Receive(w) \/ FindBlock(w) \/ FetchBlock(w)
                                \/ PriceBlock(w)
  BY <1>2 DEF Receive, FindBlock, FetchBlock, PriceBlock, table
<1>. QED
  BY <1>1, <1>2, OtherStepRows DEF Next, WorkerStep

(* A processed or skipped row is never written again: not by a retry that  *)
(* read the row before, not after a restart, not by a second delivery.     *)
THEOREM FinalRowsStay ==
  ASSUME SingleRetrier
  PROVE  Spec => FinalStatus
<1>1. OwnershipInv /\ [Next]_vars =>
        [\A s \in Slots : block[s].status \in Final => block'[s] = block[s]]_vars
  BY StepFinal
<1>. QED
  BY <1>1, Ownership, PTL DEF Spec, FinalStatus

LEMMA LedgerInit == Init => Ledger!Init
BY DEF Init, Ledger!Init, NoRow

(* Writing a verdict is a step of the ledger.                              *)
LEMMA LedgerInsert ==
  ASSUME OwnershipInv, NEW w \in Workers, worker[w].pc = "insert",
         NEW row \in Row,
         row.status = worker[w].copy.status,
         row.price = worker[w].copy.price,
         block' = [block EXCEPT ![worker[w].slot] = row]
  PROVE  Ledger!Next
<1>. DEFINE s == worker[w].slot
<1>1. s \in Slots /\ block[s].status \notin Final
  BY OpenRow
<1>2. VerdictOK(s, row) /\ row.status # "none"
  BY DEF OwnershipInv, VerdictInv, CopyOK, VerdictOK
<1>3. block[s].price = 0 /\ block \in [Slots -> Row]
  BY <1>1 DEF OwnershipInv, VerdictInv, RowsOK, VerdictOK, Final, TypeOK, TablesOK
<1>4. /\ [t \in Slots |-> block'[t].status]
           = [[t \in Slots |-> block[t].status] EXCEPT ![s] = row.status]
      /\ [t \in Slots |-> block'[t].price]
           = [[t \in Slots |-> block[t].price] EXCEPT ![s] = row.price]
  BY <1>1, <1>3
<1>5. row.price = 0 => [t \in Slots |-> block'[t].price]
                          = [t \in Slots |-> block[t].price]
  BY <1>1, <1>3
<1>6. CASE row.status = "processed"
  <2>1. s \in Produced /\ row.price \in Ledger!KnownBy(s)
    BY <1>2, <1>6 DEF VerdictOK, KnownBy, Ledger!KnownBy
  <2>. QED
    BY <1>1, <1>4, <1>6, <2>1 DEF Ledger!Next, Ledger!Process, Ledger!Final, Final
<1>7. CASE row.status = "skipped"
  BY <1>1, <1>2, <1>4, <1>5, <1>7
  DEF VerdictOK, Ledger!Next, Ledger!Skip, Ledger!Final, Final
<1>8. CASE row.status = "failed"
  BY <1>1, <1>2, <1>4, <1>5, <1>8
  DEF VerdictOK, Ledger!Next, Ledger!Fail, Ledger!Final, Final
<1>. QED
  BY <1>2, <1>6, <1>7, <1>8 DEF Row, Statuses, Final

LEMMA LedgerStep ==
  ASSUME OwnershipInv, [Next]_vars
  PROVE  [Ledger!Next]_(Ledger!ledger)
<1>1. CASE \E w \in Workers : InsertBlock(w)
  <2>1. PICK w \in Workers : InsertBlock(w)
    BY <1>1
  <2>2. CASE UNCHANGED block
    BY <2>2 DEF Ledger!ledger
  <2>3. ASSUME NEW row \in Row,
               row.status = worker[w].copy.status,
               row.price = worker[w].copy.price,
               block' = [block EXCEPT ![worker[w].slot] = row]
        PROVE  Ledger!Next
    BY <2>1, <2>3, LedgerInsert DEF InsertBlock
  <2>. QED
    BY <2>1, <2>2, <2>3, InsertEffect DEF OwnershipInv
<1>2. CASE \E w \in Workers : Receive(w) \/ FindBlock(w) \/ FetchBlock(w)
                                \/ PriceBlock(w)
  <2>1. UNCHANGED block
    BY <1>2 DEF Receive, FindBlock, FetchBlock, PriceBlock, table
  <2>. QED
    BY <2>1 DEF Ledger!ledger
<1>3. CASE UNCHANGED block
  BY <1>3 DEF Ledger!ledger
<1>. QED
  BY <1>1, <1>2, <1>3, OtherStepRows DEF Next, WorkerStep

(* A slot between the socket and a realtime worker has no row, one that is *)
(* on its way to a retry has one.                                          *)
THEOREM SlotsOwned ==
  ASSUME SingleRetrier
  PROVE  Spec => []SlotOwnership
<1>1. OwnershipInv => SlotOwnership
  BY DEF OwnershipInv, SlotsInv
<1>. QED
  BY <1>1, Ownership, PTL

(* The consumer implements the ledger.                                     *)
THEOREM Refinement ==
  ASSUME SingleRetrier
  PROVE  Spec => LedgerSpec
<1>1. OwnershipInv /\ [Next]_vars => [Ledger!Next]_(Ledger!ledger)
  BY LedgerStep
<1>. QED
  BY <1>1, LedgerInit, Ownership, PTL DEF Spec, LedgerSpec, Ledger!Spec
=============================================================================

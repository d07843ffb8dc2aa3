--------------------------- MODULE BlockDataProofs ---------------------------
(***************************************************************************)
(* Proofs about what is read off a block: the average of its SOL prices,   *)
(* the trades of its transactions, the price in a list of instructions and *)
(* in a transaction, and the account map they are read with, for every     *)
(* block, account and log.                                                 *)
(***************************************************************************)
EXTENDS Calculations, FoldProofs, FiniteSetTheorems, SequenceTheorems

-----------------------------------------------------------------------------
(* The average without its extremes.                                       *)

(* The loop that adds up a list, one element at a time.                    *)
LEMMA TotalSteps ==
  ASSUME NEW s \in Seq(Nat)
  PROVE  \E h : /\ h[0] = 0
                /\ \A k \in 1..Len(s) : h[k] = h[k - 1] + s[k]
                /\ Total(s) = h[Len(s)]
<1> DEFINE n == Len(s)
           Op(sum, x) == sum + x
           step == [x \in Nat \X (1..n) |-> Op(x[1], s[x[2]])]
           E(g) == g = [t \in SUBSET (DOMAIN s) |->
                          IF t = {} THEN 0 ELSE Op(g[t \ {Max(t)}], s[Max(t)])]
           c == CHOOSE g : E(g)
<1>1. DOMAIN s = 1..n /\ n \in Nat
  OBVIOUS
<1>2. E(c)
  <2>1. step \in [Nat \X (1..n) -> Nat]
    BY <1>1
  <2>2. PICK g : IsFold(g, n, Nat, 0, step)
    <3> HIDE DEF step, n
    <3> QED
      BY <1>1, <2>1, FoldExists
  <2>3. ASSUME NEW t \in SUBSET (1..n), t # {}
        PROVE  step[<<g[t \ {Max(t)}], Max(t)>>] = Op(g[t \ {Max(t)}], s[Max(t)])
    <3>1. Max(t) \in 1..n /\ g[t \ {Max(t)}] \in Nat
      BY <1>1, <2>2, <2>3, MaxOfIndices DEF IsFold
    <3> QED
      BY <3>1
  <2>4. E(g)
    <3> HIDE DEF step, Op, n
    <3> QED
      BY <1>1, <2>2, <2>3 DEF IsFold
  <2> HIDE DEF E
  <2> QED
    BY <2>4
<1>3. c[{}] = 0
  <2> HIDE DEF c
  <2> QED
    BY <1>2
<1>4. ASSUME NEW k \in 1..n
      PROVE  c[1..k] = Op(c[1..(k - 1)], s[k])
  <2>1. /\ 1..k \in SUBSET (DOMAIN s) /\ 1..k # {}
        /\ Max(1..k) = k /\ (1..k) \ {k} = 1..(k - 1)
    BY <1>1, MaxOfPrefix
  <2> HIDE DEF c, Op
  <2> QED
    BY <1>2, <2>1
<1>5. Total(s) = c[DOMAIN s]
  BY Zenon DEF Total, FoldLeft, MapThenFoldSet
<1> DEFINE h == [k \in 0..n |-> c[1..k]]
<1>6. h[0] = 0 /\ \A k \in 1..n : h[k] = Op(h[k - 1], s[k])
  <2>1. 1..0 = {} /\ 0 \in 0..n
    BY <1>1
  <2> HIDE DEF c, Op, n
  <2> QED
    BY <1>1, <1>3, <1>4, <2>1
<1>7. Total(s) = h[n]
  <2> HIDE DEF c
  <2> QED
    BY <1>1, <1>5
<1> HIDE DEF h, c
<1> QED
  BY <1>6, <1>7

(* Products of naturals by a count that grows by one.                      *)
LEMMA TimesNext ==
  ASSUME NEW a \in Nat, NEW c \in Nat
  PROVE  a * c \in Nat /\ a * (c + 1) = a * c + a
BY SMT

(* A sum lies between as many times the least and the greatest of what is  *)
(* added, zeros aside.                                                     *)
LEMMA TotalBetween ==
  ASSUME NEW nums \in Seq(Nat), NEW out \in SUBSET (DOMAIN nums),
         NEW lo \in Nat, NEW hi \in Nat,
         \A i \in DOMAIN nums \ out : lo <= nums[i] /\ nums[i] <= hi
  PROVE  LET sum == Total([i \in DOMAIN nums |-> IF i \in out THEN 0 ELSE nums[i]])
             count == Len(nums) - Cardinality(out)
         IN lo * count <= sum /\ sum <= hi * count
<1> DEFINE n == Len(nums)
           rest == [i \in DOMAIN nums |-> IF i \in out THEN 0 ELSE nums[i]]
           Count(k) == Cardinality((1..k) \ out)
<1>1. DOMAIN nums = 1..n /\ n \in Nat
  OBVIOUS
<1>2. rest \in Seq(Nat) /\ Len(rest) = n
  <2>1. rest \in [1..n -> Nat]
    BY <1>1
  <2> HIDE DEF rest, n
  <2> QED
    BY <1>1, <2>1
<1>3. \A k \in 0..n : IsFiniteSet((1..k) \ out) /\ Count(k) \in Nat
  <2> TAKE k \in 0..n
  <2>1. IsFiniteSet(1..k)
    BY <1>1, FS_Interval
  <2> QED
    BY <2>1, FS_Difference, FS_CardinalityType
<1>4. PICK h : /\ h[0] = 0
               /\ \A k \in 1..n : h[k] = h[k - 1] + rest[k]
               /\ Total(rest) = h[n]
  <2> HIDE DEF rest
  <2> QED
    BY <1>2, TotalSteps
<1> DEFINE Fits(k) == h[k] \in Nat /\ lo * Count(k) <= h[k] /\ h[k] <= hi * Count(k)
           Good == {k \in 0..n : Fits(k)}
<1>5. 0 \in Good
  <2>1. (1..0) \ out = {}
    OBVIOUS
  <2>2. Count(0) = 0
    BY <2>1, FS_EmptySet
  <2>3. Fits(0)
    <3> HIDE DEF Count
    <3> QED
      BY <1>4, <2>2
  <2> HIDE DEF Fits
  <2> QED
    BY <1>1, <2>3
<1>6. ASSUME NEW k \in 1..n, k - 1 \in Good
      PROVE  k \in Good
  <2>1. k - 1 \in 0..n /\ k \in 0..n /\ Count(k - 1) \in Nat /\ IsFiniteSet((1..(k - 1)) \ out)
    <3>1. k - 1 \in 0..n /\ k \in 0..n
      BY <1>1
    <3> HIDE DEF n
    <3> QED
      BY <1>3, <3>1
  <2>2. h[k] = h[k - 1] + rest[k]
    BY <1>4
  <2>5. Fits(k - 1)
    <3> HIDE DEF Fits
    <3> QED
      BY <1>6
  <2>3. ASSUME k \in out PROVE Fits(k)
    <3>1. (1..k) \ out = (1..(k - 1)) \ out
      BY <2>3
    <3>2. Count(k) = Count(k - 1) /\ rest[k] = 0
      BY <1>1, <2>3, <3>1
    <3>3. h[k] = h[k - 1]
      <4> HIDE DEF rest
      <4> QED
        BY <2>2, <2>5, <3>2
    <3> HIDE DEF Count
    <3> QED
      BY <2>5, <3>2, <3>3
  <2>4. ASSUME k \notin out PROVE Fits(k)
    <3>1. (1..k) \ out = ((1..(k - 1)) \ out) \cup {k} /\ k \notin (1..(k - 1)) \ out
      BY <2>4
    <3>2. Count(k) = Count(k - 1) + 1
      BY <2>1, <3>1, FS_AddElement
    <3>3. rest[k] = nums[k] /\ nums[k] \in Nat /\ lo <= nums[k] /\ nums[k] <= hi
      BY <1>1, <2>4
    <3>4. /\ lo * Count(k - 1) \in Nat /\ lo * (Count(k - 1) + 1) = lo * Count(k - 1) + lo
          /\ hi * Count(k - 1) \in Nat /\ hi * (Count(k - 1) + 1) = hi * Count(k - 1) + hi
      BY <2>1, TimesNext
    <3>5. h[k] = h[k - 1] + nums[k]
      <4> HIDE DEF rest
      <4> QED
        BY <2>2, <3>3
    <3> HIDE DEF Count
    <3> QED
      BY <2>5, <3>2, <3>3, <3>4, <3>5
  <2> HIDE DEF Fits
  <2> QED
    BY <2>1, <2>3, <2>4
<1>7. Fits(n)
  <2>1. n \in Good
    <3>1. n \in Nat
      OBVIOUS
    <3> HIDE DEF Good
    <3>2. 0..n \subseteq Good
      BY <1>5, <1>6, <3>1, PrefixInduction
    <3> QED
      BY <3>1, <3>2
  <2> HIDE DEF Fits
  <2> QED
    BY <2>1
<1>8. Count(n) = n - Cardinality(out)
  <2>1. IsFiniteSet(1..n) /\ Cardinality(1..n) = n
    BY <1>1, FS_Interval
  <2>2. (1..n) \cap out = out
    BY <1>1
  <2>3. Cardinality((1..n) \ out) = Cardinality(1..n) - Cardinality((1..n) \cap out)
    BY <2>1, FS_Difference
  <2> QED
    BY <2>1, <2>2, <2>3
<1> HIDE DEF rest, Count
<1> QED
  BY <1>4, <1>7, <1>8 DEF rest

(* An element of a list is of its type.                                    *)
LEMMA ElementType ==
  ASSUME NEW T, NEW s \in Seq(T), NEW i \in 1..Len(s)
  PROVE  s[i] \in T
OBVIOUS

(* Of the prices at some places, one is least and one is greatest.         *)
LEMMA ExtremesOf ==
  ASSUME NEW nums \in Seq(0..Infinite), NEW s \in SUBSET (DOMAIN nums), s # {}
  PROVE  /\ \E i \in s : \A j \in s : nums[i] <= nums[j]
         /\ \E i \in s : \A j \in s : nums[j] <= nums[i]
<1> DEFINE T == {nums[i] : i \in s}
<1>1. T \in SUBSET (0..Infinite) /\ T # {} /\ Infinite \in Nat
  BY PriceAssumption
<1>2. PICK lo \in T : \A x \in T : lo <= x
  <2>1. T \in SUBSET Nat
    BY <1>1
  <2> HIDE DEF T
  <2> QED
    BY <1>1, <2>1, LeastNatural
<1>3. PICK hi \in T : \A x \in T : x <= hi
  <2> HIDE DEF T
  <2> QED
    BY <1>1, GreatestNatural
<1> QED
  BY <1>2, <1>3

(* The average lies in the range of the prices without the k-th,           *)
(* whatever k.                                                              *)
LEMMA AverageWithin ==
  ASSUME NEW nums \in Seq(0..Infinite), Len(nums) >= 3, NEW k \in DOMAIN nums
  PROVE  LET avg == RemoveMinAndMaxAndCalculateAverage(nums)
             others == DOMAIN nums \ {k}
         IN /\ \E i \in others : nums[i] * avg.count <= avg.sum
            /\ \E i \in others : avg.sum <= nums[i] * avg.count
<1> DEFINE out == LeftOut(nums)
           others == DOMAIN nums \ {k}
<1>1. /\ DOMAIN nums = 1..Len(nums) /\ Len(nums) \in Nat /\ Infinite \in Nat
      /\ nums \in Seq(Nat)
  BY PriceAssumption
<1>2. out = MinIndex(nums) \cup MaxIndex(nums) /\ out \in SUBSET (DOMAIN nums)
  BY <1>1 DEF LeftOut, MinIndex, MaxIndex
<1>3. \A j \in DOMAIN nums : nums[j] \in 0..Infinite /\ nums[j] \in Nat
  <2>1. \A j \in 1..Len(nums) : nums[j] \in 0..Infinite
    BY ElementType
  <2> QED
    BY <1>1, <2>1
<1>4. others # {} /\ others \in SUBSET (DOMAIN nums)
  <2>1. \E j \in 1..Len(nums) : j # k
    <3>1. 1 \in 1..Len(nums) /\ 2 \in 1..Len(nums)
      BY <1>1
    <3> QED
      BY <3>1
  <2> QED
    BY <1>1, <2>1
<1>5. PICK i \in others : \A j \in others : nums[i] <= nums[j]
  BY <1>4, ExtremesOf
<1>6. PICK m \in others : \A j \in others : nums[j] <= nums[m]
  BY <1>4, ExtremesOf
<1>7. \A j \in DOMAIN nums \ out : nums[i] <= nums[j] /\ nums[j] <= nums[m]
  <2> SUFFICES ASSUME k \notin out
               PROVE  nums[i] <= nums[k] /\ nums[k] <= nums[m]
    BY <1>5, <1>6
  <2>1. nums[i] <= nums[k]
    <3>1. CASE nums[k] >= Infinite
      BY <1>1, <1>3, <3>1
    <3>2. CASE nums[k] < Infinite
      <4>1. PICK j \in DOMAIN nums : ~(nums[k] < nums[j] \/ (nums[k] = nums[j] /\ k <= j))
        BY <1>2, <3>2 DEF MinIndex
      <4>2. nums[j] \in Nat /\ nums[k] \in Nat /\ k \in Nat
        BY <1>1, <1>3
      <4>3. nums[j] <= nums[k] /\ j # k
        BY <4>1, <4>2
      <4> QED
        BY <1>1, <1>3, <1>5, <4>3
    <3> QED
      BY <1>1, <1>3, <3>1, <3>2
  <2>2. nums[k] <= nums[m]
    <3>1. PICK j \in DOMAIN nums : ~(nums[k] > nums[j] \/ (nums[k] = nums[j] /\ k <= j))
      BY <1>2 DEF MaxIndex
    <3>2. nums[j] \in Nat /\ nums[k] \in Nat /\ k \in Nat
      BY <1>1, <1>3
    <3>3. nums[k] <= nums[j] /\ j # k
      BY <3>1, <3>2
    <3> QED
      BY <1>1, <1>3, <1>6, <3>3
  <2> QED
    BY <2>1, <2>2
<1> DEFINE sum == Total([j \in DOMAIN nums |-> IF j \in out THEN 0 ELSE nums[j]])
           count == Len(nums) - Cardinality(out)
<1>8. nums[i] * count <= sum /\ sum <= nums[m] * count
  <2>1. nums[i] \in Nat /\ nums[m] \in Nat
    BY <1>1, <1>3
  <2> HIDE DEF out
  <2> QED
    BY <1>1, <1>2, <1>7, <2>1, TotalBetween
<1>9. /\ RemoveMinAndMaxAndCalculateAverage(nums).sum = sum
      /\ RemoveMinAndMaxAndCalculateAverage(nums).count = count
  BY DEF RemoveMinAndMaxAndCalculateAverage
<1> HIDE DEF out, sum, count
<1> QED
  BY <1>8, <1>9

-----------------------------------------------------------------------------
(* The trades of a transaction.                                            *)

(* What IsList says of a list.                                              *)
LEMMA ListType ==
  ASSUME NEW s, IsList(s)
  PROVE  /\ s \in Seq({s[i] : i \in DOMAIN s})
         /\ Len(s) \in Nat /\ DOMAIN s = 1..Len(s)
BY DEF IsList

(* The events decoded are those of the first trades, in their order.       *)
LEMMA EventsDecoded ==
  ASSUME NEW tx \in TradeTxs
  PROVE  LET ev == DecodePumpEvent(tx) IN
         /\ Len(ev) \in Nat /\ \A e \in 1..Len(ev) : ev[e].trade = e
         /\ ~tx.garbled => \A i \in DOMAIN tx.trades : i <= tx.logged => i <= Len(ev)
<1>1. tx.logged \in Nat /\ Len(tx.trades) \in Nat /\ DOMAIN tx.trades = 1..Len(tx.trades)
  BY InputAssumption, ListType
<1>2. CASE tx.garbled
  <2>1. DecodePumpEvent(tx) = <<>>
    BY <1>2 DEF DecodePumpEvent
  <2> QED
    BY <1>2, <2>1
<1>3. CASE ~tx.garbled
  <2> DEFINE n == IF tx.logged < Len(tx.trades) THEN tx.logged ELSE Len(tx.trades)
             ev == [e \in 1..n |-> [trade |-> e, mint |-> tx.trades[e].pair]]
  <2>1. DecodePumpEvent(tx) = ev
    BY <1>3 DEF DecodePumpEvent, Events
  <2>2. n \in Nat /\ \A i \in 1..Len(tx.trades) : i <= tx.logged => i <= n
    BY <1>1
  <2>3. Len(ev) = n /\ \A e \in 1..n : ev[e].trade = e
    <3> HIDE DEF n
    <3> QED
      BY <2>2
  <2> HIDE DEF n, ev
  <2> QED
    BY <1>1, <2>1, <2>2, <2>3
<1> QED
  BY <1>2, <1>3

(* What the decoder may hold: a count of events, and trades with events.   *)
TradeType(tx) ==
  [pair : {tx.trades[i].pair : i \in DOMAIN tx.trades}, from : DOMAIN tx.trades,
   event : {DecodePumpEvent(tx)[e] : e \in DOMAIN DecodePumpEvent(tx)}]
Decoders(tx) == [index : Nat, trades : Seq(TradeType(tx))]

(* One turn of the decoder, on a trade the chain executed.                  *)
LEMMA DecodeTyped ==
  ASSUME NEW tx \in TradeTxs, NEW acc \in Decoders(tx), NEW i \in DOMAIN tx.trades
  PROVE  DecodeInstruction(acc, Executed(tx)[i], DecodePumpEvent(tx)) \in Decoders(tx)
<1> DEFINE ev == DecodePumpEvent(tx)
           t == Executed(tx)[i]
           made == [pair |-> t.pair, from |-> t.at, event |-> ev[acc.index + 1]]
<1>1. t.pair = tx.trades[i].pair /\ t.at = i
  BY DEF Executed
<1>2. acc.index \in Nat /\ acc.trades \in Seq(TradeType(tx))
  BY DEF Decoders
<1>3. CASE acc.index < Len(ev)
  <2>1. acc.index + 1 \in DOMAIN ev
    BY <1>2, <1>3, EventsDecoded
  <2>2. made \in TradeType(tx)
    BY <1>1, <2>1 DEF TradeType
  <2>3. Append(acc.trades, made) \in Seq(TradeType(tx))
    BY <1>2, <2>2
  <2>4. [index |-> NextEvent(acc.index), trades |-> Append(acc.trades, made)] \in Decoders(tx)
    <3> HIDE DEF made
    <3> QED
      BY <1>2, <2>3 DEF Decoders, NextEvent
  <2> QED
    BY Zenon, <2>4 DEF DecodeInstruction, DecodePumpInstruction
<1>4. CASE ~(acc.index < Len(ev))
  <2>1. EventIsMissing(acc, ev)
    BY <1>2, <1>4, EventsDecoded DEF EventIsMissing
  <2> QED
    BY <2>1 DEF DecodeInstruction, DecodePumpInstruction
<1> QED
  BY <1>3, <1>4

(* The loop over the trades of a transaction, one trade at a time.         *)
LEMMA DecodeSteps ==
  ASSUME NEW tx \in TradeTxs, ~tx.failed, ~tx.unlogged
  PROVE  \E h : /\ h[0] = [index |-> 0, trades |-> <<>>]
                /\ \A k \in 1..Len(tx.trades) :
                     h[k] = DecodeInstruction(h[k - 1], Executed(tx)[k], DecodePumpEvent(tx))
                /\ DecodeTx(tx) = h[Len(tx.trades)].trades
<1> DEFINE s == Executed(tx)
           n == Len(tx.trades)
           A == Decoders(tx)
           base == [index |-> 0, trades |-> <<>>]
           Op(acc, t) == DecodeInstruction(acc, t, DecodePumpEvent(tx))
           step == [x \in A \X (1..n) |-> Op(x[1], s[x[2]])]
           E(g) == g = [t \in SUBSET (DOMAIN s) |->
                          IF t = {} THEN base ELSE Op(g[t \ {Max(t)}], s[Max(t)])]
           c == CHOOSE g : E(g)
<1>1. DOMAIN s = 1..n /\ n \in Nat /\ DOMAIN tx.trades = 1..n
  BY InputAssumption, ListType DEF Executed
<1>2. E(c)
  <2>1. step \in [A \X (1..n) -> A]
    <3>1. \A a \in A, i \in 1..n : Op(a, s[i]) \in A
      BY <1>1, DecodeTyped
    <3> HIDE DEF Op, A, s, n
    <3> QED
      BY <3>1
  <2>2. base \in A
    BY DEF Decoders
  <2>3. PICK g : IsFold(g, n, A, base, step)
    <3> HIDE DEF step, n, A, base
    <3> QED
      BY <1>1, <2>1, <2>2, FoldExists
  <2>4. ASSUME NEW t \in SUBSET (1..n), t # {}
        PROVE  step[<<g[t \ {Max(t)}], Max(t)>>] = Op(g[t \ {Max(t)}], s[Max(t)])
    <3>1. Max(t) \in 1..n /\ g[t \ {Max(t)}] \in A
      <4> HIDE DEF step, n, A, base
      <4> QED
        BY <1>1, <2>3, <2>4, MaxOfIndices DEF IsFold
    <3> HIDE DEF Op, A, s, n
    <3> QED
      BY <3>1
  <2>5. E(g)
    <3> HIDE DEF step, Op, n, s, A, base
    <3> QED
      BY <1>1, <2>3, <2>4 DEF IsFold
  <2> HIDE DEF E
  <2> QED
    BY <2>5
<1>3. c[{}] = base
  <2> HIDE DEF c, Op, base, s
  <2> QED
    BY <1>2
<1>4. ASSUME NEW k \in 1..n
      PROVE  c[1..k] = Op(c[1..(k - 1)], s[k])
  <2>1. /\ 1..k \in SUBSET (DOMAIN s) /\ 1..k # {}
        /\ Max(1..k) = k /\ (1..k) \ {k} = 1..(k - 1)
    BY <1>1, MaxOfPrefix
  <2> HIDE DEF c, Op, s, base
  <2> QED
    BY <1>2, <2>1
<1>5. DecodeTx(tx) = c[DOMAIN s].trades
  BY Zenon DEF DecodeTx, FoldLeft, MapThenFoldSet
<1> DEFINE h == [k \in 0..n |-> c[1..k]]
<1>6. h[0] = base /\ \A k \in 1..n : h[k] = Op(h[k - 1], s[k])
  <2>1. 1..0 = {} /\ 0 \in 0..n
    BY <1>1
  <2> HIDE DEF c, Op, n, s, base
  <2> QED
    BY <1>1, <1>3, <1>4, <2>1
<1>7. DecodeTx(tx) = h[n].trades
  <2> HIDE DEF c, s, n
  <2> QED
    BY <1>1, <1>5
<1> HIDE DEF h, c
<1> QED
  BY <1>6, <1>7

(* What the decoder holds after k trades: as many trades as events it has  *)
(* counted, each with the event at its place, and while it is in step the  *)
(* trades of the chain at their places.                                    *)
Pass(tx, acc, k) ==
  LET ev == DecodePumpEvent(tx) IN
  /\ acc \in Decoders(tx)
  /\ Len(acc.trades) = acc.index /\ acc.index <= Len(ev)
  /\ \A i \in 1..acc.index : acc.trades[i].event = ev[i]
  /\ \A i \in 1..k :
       InStep(tx, i) /\ i <= Len(ev) => i <= acc.index /\ acc.trades[i].from = i
  /\ InStep(tx, k) /\ k <= Len(ev) => acc.index = k

(* One more trade: passed over, given up, or given the next event.          *)
LEMMA PassNext ==
  ASSUME NEW tx \in TradeTxs, NEW k \in DOMAIN tx.trades, NEW acc, Pass(tx, acc, k - 1)
  PROVE  Pass(tx, DecodeInstruction(acc, Executed(tx)[k], DecodePumpEvent(tx)), k)
<1> DEFINE ev == DecodePumpEvent(tx)
           t == Executed(tx)[k]
           next == DecodeInstruction(acc, t, ev)
           made == [pair |-> t.pair, from |-> t.at, event |-> ev[acc.index + 1]]
<1>1. /\ acc \in Decoders(tx) /\ Len(acc.trades) = acc.index /\ acc.index <= Len(ev)
      /\ \A i \in 1..acc.index : acc.trades[i].event = ev[i]
      /\ \A i \in 1..(k - 1) :
           InStep(tx, i) /\ i <= Len(ev) => i <= acc.index /\ acc.trades[i].from = i
      /\ InStep(tx, k - 1) /\ k - 1 <= Len(ev) => acc.index = k - 1
  BY DEF Pass
<1>2. /\ k \in 1..Len(tx.trades) /\ k \in Nat /\ Len(ev) \in Nat
      /\ acc.index \in Nat /\ acc.trades \in Seq(TradeType(tx))
  <2>1. k \in 1..Len(tx.trades) /\ Len(tx.trades) \in Nat
    BY InputAssumption, ListType
  <2>2. Len(ev) \in Nat
    BY EventsDecoded
  <2> QED
    BY <1>1, <2>1, <2>2 DEF Decoders
<1>3. t.level = tx.trades[k].level /\ t.account = tx.trades[k].account /\ t.at = k
  BY DEF Executed
<1>4. next \in Decoders(tx)
  BY <1>1, DecodeTyped
<1>5. InStep(tx, k) => t.level = "outer" /\ t.account = "known" /\ InStep(tx, k - 1)
  BY <1>2, <1>3 DEF InStep
<1>6. CASE t.level = "inner" \/ t.account = "unknown" \/ ~(acc.index < Len(ev))
  <2>1. next = acc
    BY <1>2, <1>6 DEF DecodeInstruction, DecodePumpInstruction, EventIsMissing
  <2>2. ~(InStep(tx, k) /\ k <= Len(ev))
    BY <1>1, <1>2, <1>5, <1>6
  <2>3. ASSUME NEW i \in 1..k, InStep(tx, i), i <= Len(ev)
        PROVE  i <= acc.index /\ acc.trades[i].from = i
    <3>1. i \in 1..(k - 1)
      BY <1>2, <2>2, <2>3
    <3> QED
      BY <1>1, <2>3, <3>1
  <2>4. Pass(tx, acc, k)
    BY <1>1, <2>2, <2>3 DEF Pass
  <2> QED
    BY <2>1, <2>4
<1>7. CASE t.level # "inner" /\ t.account # "unknown" /\ acc.index < Len(ev)
  <2>1. next = [index |-> acc.index + 1, trades |-> Append(acc.trades, made)]
    BY <1>2, <1>7 DEF DecodeInstruction, DecodePumpInstruction, EventIsMissing, NextEvent
  <2>2. /\ next.index = acc.index + 1 /\ Len(next.trades) = next.index
        /\ next.trades[acc.index + 1] = made
        /\ \A i \in 1..acc.index : next.trades[i] = acc.trades[i]
    <3> HIDE DEF next, made
    <3> QED
      BY <1>1, <1>2, <2>1
  <2>3. made.event = ev[acc.index + 1] /\ made.from = k
    BY <1>3
  <2>4. InStep(tx, k) /\ k <= Len(ev) => acc.index = k - 1
    BY <1>1, <1>2, <1>5
  <2> HIDE DEF next, made, t, ev
  <2>5. ASSUME NEW i \in 1..next.index
        PROVE  next.trades[i].event = ev[i]
    <3>1. CASE i = acc.index + 1
      BY <2>2, <2>3, <3>1
    <3>2. CASE i # acc.index + 1
      <4>1. i \in 1..acc.index
        BY <1>2, <2>2, <3>2
      <4> QED
        BY <1>1, <2>2, <4>1
    <3> QED
      BY <3>1, <3>2
  <2>6. ASSUME NEW i \in 1..k, InStep(tx, i), i <= Len(ev)
        PROVE  i <= next.index /\ next.trades[i].from = i
    <3>1. CASE i = k
      BY <1>2, <2>2, <2>3, <2>4, <2>6, <3>1
    <3>2. CASE i # k
      <4>1. i \in 1..(k - 1)
        BY <1>2, <3>2
      <4>2. i <= acc.index /\ acc.trades[i].from = i /\ i \in 1..acc.index
        BY <1>1, <1>2, <2>6, <4>1
      <4> QED
        BY <1>2, <2>2, <4>1, <4>2
    <3> QED
      BY <3>1, <3>2
  <2>7. InStep(tx, k) /\ k <= Len(ev) => next.index = k
    BY <1>2, <2>2, <2>4
  <2>8. next.index <= Len(ev)
    BY <1>2, <1>7, <2>2
  <2> QED
    BY <1>4, <2>2, <2>5, <2>6, <2>7, <2>8 DEF Pass, ev, next, t
<1> QED
  BY <1>6, <1>7

(* A trade decoded has the event at its place, and as long as no trade was *)
(* passed over the trades decoded are those executed.                      *)
LEMMA TradesRight ==
  ASSUME NEW tx \in TradeTxs
  PROVE  LET trades == DecodeTx(tx) IN
         /\ trades \in Seq(TradeType(tx))
         /\ \A i \in 1..Len(trades) : trades[i].event.trade = i
         /\ ~tx.failed /\ ~tx.unlogged /\ ~tx.garbled =>
              \A i \in DOMAIN tx.trades :
                InStep(tx, i) /\ i <= tx.logged => i <= Len(trades) /\ trades[i].from = i
<1> DEFINE n == Len(tx.trades)
           ev == DecodePumpEvent(tx)
<1>1. n \in Nat /\ DOMAIN tx.trades = 1..n
  BY InputAssumption, ListType
<1>2. /\ Len(ev) \in Nat /\ \A e \in 1..Len(ev) : ev[e].trade = e
      /\ ~tx.garbled => \A i \in DOMAIN tx.trades : i <= tx.logged => i <= Len(ev)
  BY EventsDecoded
<1>3. CASE tx.failed \/ tx.unlogged
  <2>1. DecodeTx(tx) = <<>>
    BY <1>3 DEF DecodeTx
  <2> QED
    BY <1>3, <2>1
<1>4. CASE ~tx.failed /\ ~tx.unlogged
  <2>1. PICK h : /\ h[0] = [index |-> 0, trades |-> <<>>]
                 /\ \A k \in 1..n :
                      h[k] = DecodeInstruction(h[k - 1], Executed(tx)[k], ev)
                 /\ DecodeTx(tx) = h[n].trades
    BY <1>4, DecodeSteps
  <2> DEFINE Good == {k \in 0..n : Pass(tx, h[k], k)}
  <2>2. 0 \in Good
    <3>1. h[0] \in Decoders(tx) /\ h[0].index = 0 /\ Len(h[0].trades) = 0
      BY <2>1 DEF Decoders
    <3>2. 1..0 = {} /\ 0 \in 0..n
      BY <1>1
    <3>3. Pass(tx, h[0], 0)
      BY <1>2, <3>1, <3>2 DEF Pass
    <3> QED
      BY <3>2, <3>3
  <2>3. ASSUME NEW k \in 1..n, k - 1 \in Good PROVE k \in Good
    <3>1. Pass(tx, h[k - 1], k - 1) /\ k \in DOMAIN tx.trades
      BY <1>1, <2>3
    <3>2. Pass(tx, h[k], k)
      BY <2>1, <3>1, PassNext
    <3> QED
      BY <1>1, <3>2
  <2>4. Pass(tx, h[n], n)
    <3>1. 0..n \subseteq Good
      <4> HIDE DEF Good, n
      <4> QED
        BY <1>1, <2>2, <2>3, PrefixInduction
    <3> QED
      BY <1>1, <3>1
  <2> DEFINE trades == DecodeTx(tx)
  <2>5. /\ trades \in Seq(TradeType(tx))
        /\ Len(trades) <= Len(ev) /\ \A i \in 1..Len(trades) : trades[i].event = ev[i]
        /\ \A i \in 1..n :
             InStep(tx, i) /\ i <= Len(ev) => i <= Len(trades) /\ trades[i].from = i
    BY <2>1, <2>4 DEF Pass, Decoders
  <2>6. \A i \in 1..Len(trades) : i \in 1..Len(ev)
    <3>1. Len(trades) \in Nat
      BY <2>5
    <3> HIDE DEF trades, ev
    <3> QED
      BY <1>2, <2>5, <3>1
  <2> HIDE DEF trades, ev, n
  <2> QED
    BY <1>1, <1>2, <2>5, <2>6 DEF trades
<1> QED
  BY <1>3, <1>4

(* The trades of a pair are those decoded for it, in their order.          *)
LEMMA PairTrades ==
  ASSUME NEW T, NEW trades \in Seq(T)
  PROVE  /\ \A p \in DOMAIN TradeMap(trades) :
              \E f : /\ f \in [DOMAIN TradeMap(trades)[p] -> 1..Len(trades)]
                     /\ \A i \in DOMAIN TradeMap(trades)[p] :
                          TradeMap(trades)[p][i] = trades[f[i]]
                     /\ \A i, j \in DOMAIN TradeMap(trades)[p] : i < j => f[i] < f[j]
         /\ \A m \in 1..Len(trades) :
              \E p \in DOMAIN TradeMap(trades) :
                \E i \in DOMAIN TradeMap(trades)[p] : TradeMap(trades)[p][i] = trades[m]
<1> DEFINE map == TradeMap(trades)
           Of(p) == {t \in ToSet(trades) : t.pair = p}
<1>1. DOMAIN map = {trades[m].pair : m \in 1..Len(trades)}
  BY DEF TradeMap
<1>2. ASSUME NEW p \in DOMAIN map
      PROVE  \E f : Keeps(trades, Of(p), map[p], Len(trades), f) /\ DOMAIN map[p] = 1..Len(map[p])
  <2>1. map[p] = Kept(trades, Of(p))
    BY <1>1 DEF TradeMap
  <2>2. KeptUpTo(T, trades, Of(p), map[p], Len(trades))
    <3> HIDE DEF map, Of
    <3> QED
      BY <2>1, KeptRight
  <2> HIDE DEF map, Of
  <2> QED
    BY <2>2 DEF KeptUpTo
<1>3. ASSUME NEW p \in DOMAIN map
      PROVE  \E f : /\ f \in [DOMAIN map[p] -> 1..Len(trades)]
                    /\ \A i \in DOMAIN map[p] : map[p][i] = trades[f[i]]
                    /\ \A i, j \in DOMAIN map[p] : i < j => f[i] < f[j]
  <2> HIDE DEF map, Of
  <2> QED
    BY <1>2 DEF Keeps
<1>4. ASSUME NEW m \in 1..Len(trades)
      PROVE  \E p \in DOMAIN map : \E i \in DOMAIN map[p] : map[p][i] = trades[m]
  <2> DEFINE p == trades[m].pair
  <2>1. p \in DOMAIN map
    BY <1>1
  <2>2. trades[m] \in Of(p)
    BY DEF ToSet
  <2>3. PICK f : Keeps(trades, Of(p), map[p], Len(trades), f) /\ DOMAIN map[p] = 1..Len(map[p])
    <3> HIDE DEF map, Of, p
    <3> QED
      BY <1>2, <2>1
  <2>4. PICK i \in 1..Len(map[p]) : f[i] = m
    <3> HIDE DEF map, Of, p
    <3> QED
      BY <2>2, <2>3 DEF Keeps
  <2>5. map[p][i] = trades[m]
    <3> HIDE DEF map, Of, p
    <3> QED
      BY <2>3, <2>4 DEF Keeps
  <2> HIDE DEF map, Of, p
  <2> QED
    BY <2>1, <2>3, <2>4, <2>5
<1> HIDE DEF map
<1> QED
  BY <1>3, <1>4 DEF map

-----------------------------------------------------------------------------
(* The price in a list of inner instructions.                              *)

(* What the loop may hold of the transfers of a list.                      *)
Transfers(ixs) == {DecodeTokenTransfer(ixs[i]) : i \in DOMAIN ixs}
Searches(ixs) ==
  [sol : Transfers(ixs) \cup {None}, usd : Transfers(ixs) \cup {None}, swap : BOOLEAN]

(* A nil transfer is none of the list.                                     *)
LEMMA TransferIsSome ==
  ASSUME NEW ix
  PROVE  DecodeTokenTransfer(ix) # None
<1>1. "from" \in DOMAIN DecodeTokenTransfer(ix)
  BY DEF DecodeTokenTransfer
<1>2. "from" \notin DOMAIN None
  BY DEF None
<1> QED
  BY <1>1, <1>2

(* One turn of the loop, case by case.                                     *)
LEMMA LookCases ==
  ASSUME NEW map, NEW acc, NEW ix
  PROVE  LET t == DecodeTokenTransfer(ix)
             mint == map[t.from].mint
             pays == IsTransfer(ix) /\ Known(map, t) /\ mint \in Stables \cup {Sol}
             next == Look(map, acc, ix)
             meets(other) == other # None /\ IsSwapTransfer(map, t, other)
         IN /\ acc.swap => next = acc
            /\ ~acc.swap /\ ~pays => next = Apart
            /\ ~acc.swap /\ pays /\ mint = Sol =>
                 next = IF meets(acc.usd) THEN [sol |-> t, usd |-> acc.usd, swap |-> TRUE]
                        ELSE [sol |-> t, usd |-> None, swap |-> FALSE]
            /\ ~acc.swap /\ pays /\ mint # Sol =>
                 next = IF meets(acc.sol) THEN [sol |-> acc.sol, usd |-> t, swap |-> TRUE]
                        ELSE [sol |-> None, usd |-> t, swap |-> FALSE]
<1> DEFINE t == DecodeTokenTransfer(ix)
           mint == map[t.from].mint
           known == IsTransfer(ix) /\ Known(map, t)
           next == Look(map, acc, ix)
           meets(other) == other # None /\ IsSwapTransfer(map, t, other)
<1>1. ASSUME acc.swap PROVE next = acc
  BY <1>1 DEF Look
<1>2. ASSUME ~acc.swap, ~known PROVE next = Apart
  BY Zenon, <1>2 DEF Look, StartAnew
<1>3. ASSUME ~acc.swap, known
      PROVE  next = IF mint \notin Stables \cup {Sol} THEN Apart
                    ELSE IF meets(IF mint = Sol THEN acc.usd ELSE acc.sol)
                    THEN [sol |-> IF mint = Sol THEN t ELSE acc.sol,
                          usd |-> IF mint = Sol THEN acc.usd ELSE t, swap |-> TRUE]
                    ELSE IF mint = Sol THEN [Apart EXCEPT !.sol = t] ELSE [Apart EXCEPT !.usd = t]
  BY Zenon, <1>3 DEF Look, StartAnew
<1>4. /\ [Apart EXCEPT !.sol = t] = [sol |-> t, usd |-> None, swap |-> FALSE]
      /\ [Apart EXCEPT !.usd = t] = [sol |-> None, usd |-> t, swap |-> FALSE]
  <2> HIDE DEF t
  <2>1. \E none, no :
          none = None /\ no = FALSE /\ Apart = [sol |-> none, usd |-> none, swap |-> no]
    BY Zenon DEF Apart
  <2>2. PICK none, no :
          none = None /\ no = FALSE /\ Apart = [sol |-> none, usd |-> none, swap |-> no]
    BY Zenon, <2>1
  <2>3. /\ [Apart EXCEPT !.sol = t] = [sol |-> t, usd |-> none, swap |-> no]
        /\ [Apart EXCEPT !.usd = t] = [sol |-> none, usd |-> t, swap |-> no]
    BY <2>2
  <2> QED
    BY Zenon, <2>2, <2>3
<1> HIDE DEF t, mint, known, next, meets
<1> QED
  BY <1>1, <1>2, <1>3, <1>4 DEF t, mint, known, next, meets

(* One turn keeps to the transfers of the list.                             *)
LEMMA LookTyped ==
  ASSUME NEW map, NEW ixs, NEW acc \in Searches(ixs), NEW i \in DOMAIN ixs
  PROVE  Look(map, acc, ixs[i]) \in Searches(ixs)
<1> DEFINE t == DecodeTokenTransfer(ixs[i])
<1>1. t \in Transfers(ixs)
  BY DEF Transfers
<1>2. Apart \in Searches(ixs)
  BY DEF Apart, Searches
<1>3. \A sol, usd \in Transfers(ixs) \cup {None}, swap \in BOOLEAN :
        [sol |-> sol, usd |-> usd, swap |-> swap] \in Searches(ixs)
  BY DEF Searches
<1>4. acc.sol \in Transfers(ixs) \cup {None} /\ acc.usd \in Transfers(ixs) \cup {None}
      /\ acc.swap \in BOOLEAN
  BY DEF Searches
<1>5. Look(map, acc, ixs[i]) \in
        {acc, Apart, [sol |-> t, usd |-> acc.usd, swap |-> TRUE],
         [sol |-> t, usd |-> None, swap |-> FALSE], [sol |-> acc.sol, usd |-> t, swap |-> TRUE],
         [sol |-> None, usd |-> t, swap |-> FALSE]}
  BY Zenon, LookCases
<1> HIDE DEF t
<1> QED
  BY <1>1, <1>2, <1>3, <1>4, <1>5

(* The loop over a list, one instruction at a time.                        *)
LEMMA LookSteps ==
  ASSUME NEW map, NEW ixs, IsList(ixs)
  PROVE  \E h : /\ h[0] = Apart
                /\ \A k \in 1..Len(ixs) : h[k] = Look(map, h[k - 1], ixs[k])
                /\ GetBlockSolPriceByTransfer(map, ixs) =
                     IF h[Len(ixs)].swap
                     THEN Ratio(h[Len(ixs)].sol.amount, h[Len(ixs)].usd.amount) ELSE 0
<1> DEFINE n == Len(ixs)
           A == Searches(ixs)
           Op(acc, ix) == Look(map, acc, ix)
           step == [x \in A \X (1..n) |-> Op(x[1], ixs[x[2]])]
           E(g) == g = [t \in SUBSET (DOMAIN ixs) |->
                          IF t = {} THEN Apart ELSE Op(g[t \ {Max(t)}], ixs[Max(t)])]
           c == CHOOSE g : E(g)
<1>1. DOMAIN ixs = 1..n /\ n \in Nat
  BY ListType
<1>2. E(c)
  <2>1. step \in [A \X (1..n) -> A]
    <3>1. \A a \in A, i \in 1..n : Op(a, ixs[i]) \in A
      BY <1>1, LookTyped
    <3> HIDE DEF Op, A, n
    <3> QED
      BY <3>1
  <2>2. Apart \in A
    BY DEF Searches, Apart
  <2>3. PICK g : IsFold(g, n, A, Apart, step)
    <3> HIDE DEF step, n, A
    <3> QED
      BY <1>1, <2>1, <2>2, FoldExists
  <2>4. ASSUME NEW t \in SUBSET (1..n), t # {}
        PROVE  step[<<g[t \ {Max(t)}], Max(t)>>] = Op(g[t \ {Max(t)}], ixs[Max(t)])
    <3>1. Max(t) \in 1..n /\ g[t \ {Max(t)}] \in A
      <4> HIDE DEF step, n, A
      <4> QED
        BY <1>1, <2>3, <2>4, MaxOfIndices DEF IsFold
    <3> HIDE DEF Op, A, n
    <3> QED
      BY <3>1
  <2>5. E(g)
    <3> HIDE DEF step, Op, n, A
    <3> QED
      BY <1>1, <2>3, <2>4 DEF IsFold
  <2> HIDE DEF E
  <2> QED
    BY <2>5
<1>3. c[{}] = Apart
  <2> HIDE DEF c, Op
  <2> QED
    BY <1>2
<1>4. ASSUME NEW k \in 1..n
      PROVE  c[1..k] = Op(c[1..(k - 1)], ixs[k])
  <2>1. /\ 1..k \in SUBSET (DOMAIN ixs) /\ 1..k # {}
        /\ Max(1..k) = k /\ (1..k) \ {k} = 1..(k - 1)
    BY <1>1, MaxOfPrefix
  <2> HIDE DEF c, Op
  <2> QED
    BY <1>2, <2>1
<1>5. GetBlockSolPriceByTransfer(map, ixs) =
        LET end == c[DOMAIN ixs] IN IF end.swap THEN Ratio(end.sol.amount, end.usd.amount) ELSE 0
  BY Zenon DEF GetBlockSolPriceByTransfer, FoldLeft, MapThenFoldSet
<1> DEFINE h == [k \in 0..n |-> c[1..k]]
<1>6. h[0] = Apart /\ \A k \in 1..n : h[k] = Op(h[k - 1], ixs[k])
  <2>1. 1..0 = {} /\ 0 \in 0..n
    BY <1>1
  <2> HIDE DEF c, Op, n
  <2> QED
    BY <1>1, <1>3, <1>4, <2>1
<1>7. c[DOMAIN ixs] = h[n]
  <2> HIDE DEF c, n
  <2> QED
    BY <1>1
<1> HIDE DEF h, c
<1> QED
  BY <1>5, <1>6, <1>7

(* A map that knows the accounts of the chain by mint and owner.           *)
Faithful(map) ==
  /\ DOMAIN map = DOMAIN Accounts
  /\ \A a \in DOMAIN map :
       map[a].mint = Accounts[a].mint /\ map[a].owner = Accounts[a].owner

(* The map of the accounts before a transaction is one.                    *)
LEMMA FirstMapFaithful == Faithful(WithPre(NoAccounts, Accounts))
BY DEF Faithful, WithPre, NoAccounts

(* An instruction that may be a side of a swap.                            *)
Pays(ixs, i) ==
  LET t == DecodeTokenTransfer(ixs[i]) IN
  /\ IsTransfer(ixs[i]) /\ {t.from, t.to} \subseteq DOMAIN Accounts
  /\ Accounts[t.from].mint \in Stables \cup {Sol}
PaysSol(ixs, i) == Pays(ixs, i) /\ Accounts[DecodeTokenTransfer(ixs[i]).from].mint = Sol
PaysUsd(ixs, i) == Pays(ixs, i) /\ Accounts[DecodeTokenTransfer(ixs[i]).from].mint # Sol

(* A swap has one side in SOL and one in a stablecoin.                     *)
LEMMA SwapSides ==
  ASSUME NEW map, Faithful(map), NEW ixs, NEW i
  PROVE  LET a == DecodeTokenTransfer(ixs[i])
             b == DecodeTokenTransfer(ixs[i + 1])
         IN /\ IsSwap(ixs, i) => \/ PaysSol(ixs, i) /\ PaysUsd(ixs, i + 1)
                                 \/ PaysUsd(ixs, i) /\ PaysSol(ixs, i + 1)
            /\ PaysSol(ixs, i) /\ PaysUsd(ixs, i + 1) =>
                 /\ IsSwap(ixs, i) <=> IsSwapTransfer(map, b, a)
                 /\ SwapRatio(ixs, i) = Ratio(a.amount, b.amount)
            /\ PaysUsd(ixs, i) /\ PaysSol(ixs, i + 1) =>
                 /\ IsSwap(ixs, i) <=> IsSwapTransfer(map, b, a)
                 /\ SwapRatio(ixs, i) = Ratio(b.amount, a.amount)
<1> DEFINE a == DecodeTokenTransfer(ixs[i])
           b == DecodeTokenTransfer(ixs[i + 1])
           map0 == WithPre(NoAccounts, Accounts)
           isA == IsTransfer(ixs[i])
           isB == IsTransfer(ixs[i + 1])
<1>1. Sol \notin Stables
  BY PriceAssumption
<1>2. Faithful(map0)
  BY FirstMapFaithful
<1>3. IsSwap(ixs, i) <=>
        /\ isA /\ isB /\ {a.from, a.to, b.from, b.to} \subseteq DOMAIN Accounts
        /\ Sol \in {Accounts[a.from].mint, Accounts[b.from].mint}
        /\ {Accounts[a.from].mint, Accounts[b.from].mint} \cap Stables # {}
        /\ IsSwapTransfer(map0, a, b)
  <2>1. IsSwap(ixs, i) <=>
          /\ isA /\ isB /\ Known(map0, a) /\ Known(map0, b)
          /\ Sol \in {map0[a.from].mint, map0[b.from].mint}
          /\ {map0[a.from].mint, map0[b.from].mint} \cap Stables # {}
          /\ IsSwapTransfer(map0, a, b)
    BY Zenon DEF IsSwap
  <2>2. Known(map0, a) /\ Known(map0, b) <=> {a.from, a.to, b.from, b.to} \subseteq DOMAIN Accounts
    <3> HIDE DEF a, b, map0
    <3> QED
      BY <1>2 DEF Known, Faithful
  <2>3. ASSUME {a.from, b.from} \subseteq DOMAIN Accounts
        PROVE  map0[a.from].mint = Accounts[a.from].mint /\ map0[b.from].mint = Accounts[b.from].mint
    <3> HIDE DEF a, b, map0
    <3> QED
      BY <1>2, <2>3 DEF Faithful
  <2> HIDE DEF a, b, map0, isA, isB
  <2> QED
    BY <2>1, <2>2, <2>3
<1>4. ASSUME {a.from, a.to, b.from, b.to} \subseteq DOMAIN Accounts
      PROVE  IsSwapTransfer(map0, a, b) <=> IsSwapTransfer(map, b, a)
  <2> HIDE DEF a, b, map0
  <2> QED
    BY <1>2, <1>4 DEF IsSwapTransfer, Faithful
<1>5. /\ Pays(ixs, i) <=> /\ isA /\ {a.from, a.to} \subseteq DOMAIN Accounts
                          /\ Accounts[a.from].mint \in Stables \cup {Sol}
      /\ Pays(ixs, i + 1) <=> /\ isB /\ {b.from, b.to} \subseteq DOMAIN Accounts
                              /\ Accounts[b.from].mint \in Stables \cup {Sol}
  BY DEF Pays
<1>6. /\ PaysSol(ixs, i) <=> Pays(ixs, i) /\ Accounts[a.from].mint = Sol
      /\ PaysUsd(ixs, i) <=> Pays(ixs, i) /\ Accounts[a.from].mint # Sol
      /\ PaysSol(ixs, i + 1) <=> Pays(ixs, i + 1) /\ Accounts[b.from].mint = Sol
      /\ PaysUsd(ixs, i + 1) <=> Pays(ixs, i + 1) /\ Accounts[b.from].mint # Sol
  BY DEF PaysSol, PaysUsd
<1>7. SwapRatio(ixs, i) = IF Accounts[a.from].mint = Sol THEN Ratio(a.amount, b.amount)
                          ELSE Ratio(b.amount, a.amount)
  BY DEF SwapRatio
<1> HIDE DEF a, b, map0, isA, isB
<1> QED
  BY <1>1, <1>3, <1>4, <1>5, <1>6, <1>7 DEF a, b

(* What the loop holds after k instructions: the first swap among them, or *)
(* the last of them, if it may be a side of a swap.                        *)
Search(ixs, acc, k) ==
  IF acc.swap
  THEN \E i \in 1..(k - 1) :
         /\ IsSwap(ixs, i) /\ \A j \in 1..(k - 1) : IsSwap(ixs, j) => i <= j
         /\ Ratio(acc.sol.amount, acc.usd.amount) = SwapRatio(ixs, i)
  ELSE /\ \A j \in 1..(k - 1) : ~IsSwap(ixs, j)
       /\ acc.sol = IF k > 0 /\ PaysSol(ixs, k) THEN DecodeTokenTransfer(ixs[k]) ELSE None
       /\ acc.usd = IF k > 0 /\ PaysUsd(ixs, k) THEN DecodeTokenTransfer(ixs[k]) ELSE None

(* One more instruction: it ends a swap, may begin one, or parts what comes *)
(* before from what comes after.                                            *)
LEMMA SearchNext ==
  ASSUME NEW map, Faithful(map), NEW ixs, NEW k \in Nat \ {0},
         NEW acc, acc.swap \in BOOLEAN, Search(ixs, acc, k - 1)
  PROVE  LET next == Look(map, acc, ixs[k]) IN
         next.swap \in BOOLEAN /\ Search(ixs, next, k)
<1> DEFINE t == DecodeTokenTransfer(ixs[k])
           last == DecodeTokenTransfer(ixs[k - 1])
           next == Look(map, acc, ixs[k])
<1>1. k - 1 \in Nat /\ k - 1 + 1 = k /\ k > 0 /\ (k - 1 > 0 <=> k - 1 \in 1..(k - 1))
  OBVIOUS
<1>2. \A j \in 1..(k - 1) : j \in 1..(k - 1 - 1) \/ j = k - 1
  BY <1>1
<1>3. CASE acc.swap
  <2>1. next = acc
    BY Zenon, <1>3, LookCases
  <2>2. PICK i \in 1..(k - 1 - 1) :
          /\ IsSwap(ixs, i) /\ \A j \in 1..(k - 1 - 1) : IsSwap(ixs, j) => i <= j
          /\ Ratio(acc.sol.amount, acc.usd.amount) = SwapRatio(ixs, i)
    BY <1>3 DEF Search
  <2>3. i \in 1..(k - 1) /\ \A j \in 1..(k - 1) : IsSwap(ixs, j) => i <= j
    BY <1>1, <1>2, <2>2
  <2> HIDE DEF next
  <2> QED
    BY <1>3, <2>1, <2>2, <2>3 DEF Search, next
<1>4. CASE ~acc.swap
  <2>1. /\ \A j \in 1..(k - 1 - 1) : ~IsSwap(ixs, j)
        /\ acc.sol = IF k - 1 > 0 /\ PaysSol(ixs, k - 1) THEN last ELSE None
        /\ acc.usd = IF k - 1 > 0 /\ PaysUsd(ixs, k - 1) THEN last ELSE None
    BY <1>4 DEF Search
  <2>2. last # None
    BY TransferIsSome
  <2>3. /\ PaysSol(ixs, k) => ~PaysUsd(ixs, k) /\ Pays(ixs, k)
        /\ PaysUsd(ixs, k) => ~PaysSol(ixs, k) /\ Pays(ixs, k)
    BY DEF PaysSol, PaysUsd
  <2>4. /\ IsSwap(ixs, k - 1) => \/ PaysSol(ixs, k - 1) /\ PaysUsd(ixs, k)
                                 \/ PaysUsd(ixs, k - 1) /\ PaysSol(ixs, k)
        /\ PaysSol(ixs, k - 1) /\ PaysUsd(ixs, k) =>
             /\ IsSwap(ixs, k - 1) <=> IsSwapTransfer(map, t, last)
             /\ SwapRatio(ixs, k - 1) = Ratio(last.amount, t.amount)
        /\ PaysUsd(ixs, k - 1) /\ PaysSol(ixs, k) =>
             /\ IsSwap(ixs, k - 1) <=> IsSwapTransfer(map, t, last)
             /\ SwapRatio(ixs, k - 1) = Ratio(t.amount, last.amount)
    <3>1. \A j : j = k - 1 + 1 => j = k
      BY <1>1
    <3> QED
      BY <1>1, SwapSides
  <2>5. /\ Pays(ixs, k) <=> /\ IsTransfer(ixs[k]) /\ Known(map, t)
                            /\ map[t.from].mint \in Stables \cup {Sol}
        /\ Pays(ixs, k) => (PaysSol(ixs, k) <=> map[t.from].mint = Sol)
        /\ Pays(ixs, k) => (PaysUsd(ixs, k) <=> map[t.from].mint # Sol)
    BY DEF Pays, PaysSol, PaysUsd, Known, Faithful
  <2>6. /\ ~Pays(ixs, k) => next = Apart
        /\ PaysSol(ixs, k) =>
             next = IF acc.usd # None /\ IsSwapTransfer(map, t, acc.usd)
                    THEN [sol |-> t, usd |-> acc.usd, swap |-> TRUE]
                    ELSE [sol |-> t, usd |-> None, swap |-> FALSE]
        /\ PaysUsd(ixs, k) =>
             next = IF acc.sol # None /\ IsSwapTransfer(map, t, acc.sol)
                    THEN [sol |-> acc.sol, usd |-> t, swap |-> TRUE]
                    ELSE [sol |-> None, usd |-> t, swap |-> FALSE]
    BY Zenon, <1>4, <2>3, <2>5, LookCases
  <2> HIDE DEF next, t, last
  <2>7. CASE IsSwap(ixs, k - 1) /\ k - 1 > 0
    <3>1. next.swap /\ Ratio(next.sol.amount, next.usd.amount) = SwapRatio(ixs, k - 1)
      BY <2>1, <2>2, <2>3, <2>4, <2>6, <2>7
    <3>2. k - 1 \in 1..(k - 1) /\ \A j \in 1..(k - 1) : IsSwap(ixs, j) => k - 1 <= j
      BY <1>1, <1>2, <2>1, <2>7
    <3>3. next.swap = TRUE
      BY <2>1, <2>2, <2>3, <2>4, <2>6, <2>7
    <3> QED
      BY <2>7, <3>1, <3>2, <3>3 DEF Search, next
  <2>8. CASE ~(IsSwap(ixs, k - 1) /\ k - 1 > 0)
    <3>1. \A j \in 1..(k - 1) : ~IsSwap(ixs, j)
      BY <1>1, <1>2, <2>1, <2>8
    <3>2. /\ next.swap = FALSE
          /\ next.sol = IF PaysSol(ixs, k) THEN t ELSE None
          /\ next.usd = IF PaysUsd(ixs, k) THEN t ELSE None
      <4>1. CASE ~Pays(ixs, k)
        BY <2>3, <2>6, <4>1 DEF Apart
      <4>2. CASE PaysSol(ixs, k)
        BY <2>1, <2>3, <2>4, <2>6, <2>8, <4>2
      <4>3. CASE PaysUsd(ixs, k)
        BY <2>1, <2>3, <2>4, <2>6, <2>8, <4>3
      <4> QED
        BY <2>5, <4>1, <4>2, <4>3
    <3> QED
      BY <1>1, <3>1, <3>2 DEF Search, next, t
  <2> QED
    BY <2>7, <2>8
<1> QED
  BY <1>3, <1>4

(* The price of a list is that of its first swap, for every map that knows *)
(* the accounts.                                                           *)
LEMMA FirstSwapPriced ==
  ASSUME NEW map, Faithful(map), NEW ixs, IsList(ixs)
  PROVE  LET price == GetBlockSolPriceByTransfer(map, ixs) IN
         \/ Swaps(ixs) = {} /\ price = 0
         \/ \E i \in Swaps(ixs) :
              (\A j \in Swaps(ixs) : i <= j) /\ price = SwapRatio(ixs, i)
<1> DEFINE n == Len(ixs)
<1>1. n \in Nat
  BY ListType
<1>2. PICK h : /\ h[0] = Apart
               /\ \A k \in 1..n : h[k] = Look(map, h[k - 1], ixs[k])
               /\ GetBlockSolPriceByTransfer(map, ixs) =
                    IF h[n].swap THEN Ratio(h[n].sol.amount, h[n].usd.amount) ELSE 0
  BY LookSteps
<1> DEFINE Good == {k \in 0..n : h[k].swap \in BOOLEAN /\ Search(ixs, h[k], k)}
<1>3. 0 \in Good
  <2>1. Apart.swap = FALSE /\ Apart.sol = None /\ Apart.usd = None
    BY DEF Apart
  <2>2. Search(ixs, Apart, 0)
    BY <2>1 DEF Search
  <2>3. h[0].swap \in BOOLEAN /\ Search(ixs, h[0], 0)
    BY Zenon, <1>2, <2>1, <2>2
  <2> QED
    BY <1>1, <2>3
<1>4. ASSUME NEW k \in 1..n, k - 1 \in Good PROVE k \in Good
  <2>1. h[k - 1].swap \in BOOLEAN /\ Search(ixs, h[k - 1], k - 1) /\ k \in Nat \ {0}
    BY <1>1, <1>4
  <2>2. h[k].swap \in BOOLEAN /\ Search(ixs, h[k], k)
    BY <1>2, <2>1, SearchNext
  <2> QED
    BY <1>1, <2>2
<1>5. h[n].swap \in BOOLEAN /\ Search(ixs, h[n], n)
  <2>1. 0..n \subseteq Good
    <3> HIDE DEF Good, n
    <3> QED
      BY <1>1, <1>3, <1>4, PrefixInduction
  <2> QED
    BY <1>1, <2>1
<1>6. Swaps(ixs) = {i \in 1..(n - 1) : IsSwap(ixs, i)}
  BY DEF Swaps
<1>7. CASE h[n].swap
  BY <1>2, <1>5, <1>6, <1>7 DEF Search
<1>8. CASE ~h[n].swap
  BY <1>2, <1>5, <1>6, <1>8 DEF Search
<1> QED
  BY <1>7, <1>8

-----------------------------------------------------------------------------
(* The prices of a block.                                                  *)

(* One turn of the loop over the transactions of a block.                  *)
TxStep(acc, tx) ==
  LET map == FillTokenAccountMap(acc.map, tx) IN
  [map |-> map,
   prices |-> acc.prices \o IF HasTokenChange(acc.map, tx) THEN TxPrices(map, tx) ELSE <<>>]
NoPrices == [map |-> [a \in {} |-> 0], prices |-> <<>>]

(* A block of one transaction takes one turn.                              *)
LEMMA OneTx ==
  ASSUME NEW tx
  PROVE  BlockPrices(<<tx>>) = TxStep(NoPrices, tx)
<1> DEFINE s == <<tx>>
           E(g) == g = [t \in SUBSET (DOMAIN s) |->
                          IF t = {} THEN NoPrices ELSE TxStep(g[t \ {Max(t)}], s[Max(t)])]
           c == CHOOSE g : E(g)
<1>1. DOMAIN s = 1..1 /\ s[1] = tx
  OBVIOUS
<1>2. \A t \in SUBSET (DOMAIN s) : t # {} => Max(t) = 1 /\ t \ {Max(t)} = {}
  <2> SUFFICES ASSUME NEW t \in SUBSET (1..1), t # {}
               PROVE  Max(t) = 1 /\ t \ {Max(t)} = {}
    BY <1>1
  <2>1. \A x \in 1..1 : x = 1
    OBVIOUS
  <2>2. t = {1}
    BY Zenon, <2>1
  <2>3. Max(t) \in t
    BY MaxOfIndices
  <2> QED
    BY <2>2, <2>3
<1> HIDE DEF s
<1>3. E(c)
  <2> DEFINE g == [t \in SUBSET (DOMAIN s) |-> IF t = {} THEN NoPrices ELSE TxStep(NoPrices, tx)]
  <2>1. g[{}] = NoPrices
    OBVIOUS
  <2>2. ASSUME NEW t \in SUBSET (DOMAIN s)
        PROVE  g[t] = IF t = {} THEN NoPrices ELSE TxStep(g[t \ {Max(t)}], s[Max(t)])
    <3> HIDE DEF g
    <3>1. g[t] = IF t = {} THEN NoPrices ELSE TxStep(NoPrices, tx)
      BY DEF g
    <3> QED
      BY <1>1, <1>2, <2>1, <3>1
  <2>3. g = [t \in SUBSET (DOMAIN s) |-> g[t]]
    OBVIOUS
  <2>4. E(g)
    <3> HIDE DEF g
    <3> QED
      BY <2>2, <2>3
  <2> HIDE DEF E, g
  <2> QED
    BY <2>4
<1>4. BlockPrices(<<tx>>) = c[DOMAIN s]
  BY Zenon DEF BlockPrices, FoldLeft, MapThenFoldSet, TxStep, NoPrices, s
<1>5. c[{}] = NoPrices /\ c[1..1] = TxStep(c[{}], tx)
  <2>1. 1..1 # {} /\ 1..1 \in SUBSET (DOMAIN s) /\ {} \in SUBSET (DOMAIN s)
    BY <1>1
  <2> HIDE DEF c
  <2> QED
    BY <1>1, <1>2, <1>3, <2>1
<1> HIDE DEF c
<1> QED
  BY <1>1, <1>4, <1>5

(* A transaction that initialises no account adds none.                    *)
LEMMA NoInits ==
  ASSUME NEW map
  PROVE  FoldLeft(WithInit, map, <<>>) = map
<1> DEFINE s == <<>>
           E(g) == g = [t \in SUBSET (DOMAIN s) |->
                          IF t = {} THEN map ELSE WithInit(g[t \ {Max(t)}], s[Max(t)])]
           c == CHOOSE g : E(g)
<1>1. SUBSET (DOMAIN s) = {{}}
  OBVIOUS
<1>2. E(c)
  <2> DEFINE g == [t \in {{}} |-> map]
  <2>1. E(g)
    BY <1>1
  <2> HIDE DEF E, g
  <2> QED
    BY <2>1
<1>3. FoldLeft(WithInit, map, <<>>) = c[DOMAIN s]
  BY Zenon DEF FoldLeft, MapThenFoldSet
<1>4. c[{}] = map
  <2> HIDE DEF c
  <2> QED
    BY <1>1, <1>2
<1> QED
  BY <1>1, <1>3, <1>4

(* The map of the accounts a transaction moves knows them.                 *)
LEMMA BlockMapFaithful ==
  ASSUME NEW tx \in SwapBlocks
  PROVE  Faithful(FillTokenAccountMap(NoPrices.map, tx))
<1> DEFINE map == WithPost(WithPre(NoPrices.map, tx.pre), tx.post)
<1>1. tx.pre = Accounts /\ DOMAIN tx.post \subseteq DOMAIN Accounts /\ tx.inits = <<>>
  BY InputAssumption
<1>2. /\ DOMAIN map = DOMAIN Accounts
      /\ \A a \in DOMAIN map :
           /\ "mint" \in DOMAIN map[a] /\ "owner" \in DOMAIN map[a]
           /\ map[a].mint = Accounts[a].mint /\ map[a].owner = Accounts[a].owner
  <2>1. DOMAIN NoPrices.map = {}
    BY DEF NoPrices
  <2> QED
    BY <1>1, <2>1 DEF WithPre, WithPost
<1> HIDE DEF map
<1>3. FillTokenAccountMap(NoPrices.map, tx) = WithDecimals(map)
  BY Zenon, <1>1, NoInits DEF FillTokenAccountMap, map
<1>4. /\ DOMAIN WithDecimals(map) = DOMAIN map
      /\ \A a \in DOMAIN map : \/ WithDecimals(map)[a] = map[a]
                               \/ \E d : WithDecimals(map)[a] = [map[a] EXCEPT !.decimals = d]
  BY DEF WithDecimals
<1>5. ASSUME NEW a \in DOMAIN map
      PROVE  /\ WithDecimals(map)[a].mint = Accounts[a].mint
             /\ WithDecimals(map)[a].owner = Accounts[a].owner
  <2>1. CASE WithDecimals(map)[a] = map[a]
    BY <1>2, <2>1
  <2>2. CASE \E d : WithDecimals(map)[a] = [map[a] EXCEPT !.decimals = d]
    BY <1>2, <2>2
  <2> QED
    BY <1>4, <2>1, <2>2
<1> QED
  BY <1>2, <1>3, <1>4, <1>5 DEF Faithful

(* What a swap within one call gives, and nothing at all.                  *)
SwapPrices(ixs) == {SwapRatio(ixs, i) : i \in Swaps(ixs)}
CallPrices(tx) ==
  {0} \cup UNION {SwapPrices(tx.inner[g].ixs) : g \in DOMAIN tx.inner}

(* A price is that of a swap of the list it was looked for in, or none.     *)
LEMMA PriceOfCall ==
  ASSUME NEW map, Faithful(map), NEW ixs, IsList(ixs)
  PROVE  GetBlockSolPriceByTransfer(map, ixs) \in {0} \cup SwapPrices(ixs)
BY FirstSwapPriced DEF SwapPrices

(* Two elements of a list next to each other.                              *)
LEMMA TwoOfList ==
  ASSUME NEW S, NEW s, NEW m \in Int, \A i \in m..(m + 1) : s[i] \in S
  PROVE  /\ SubSeq(s, m, m + 1) \in Seq(S) /\ Len(SubSeq(s, m, m + 1)) = 2
         /\ SubSeq(s, m, m + 1)[1] = s[m] /\ SubSeq(s, m, m + 1)[2] = s[m + 1]
<1> DEFINE n == m + 1
<1>1. n \in Int /\ m <= n /\ n - m + 1 = 2 /\ \A i \in m..n : s[i] \in S
  OBVIOUS
<1>2. /\ SubSeq(s, m, n) \in Seq(S)
      /\ Len(SubSeq(s, m, n)) = IF m <= n THEN n - m + 1 ELSE 0
      /\ \A i \in 1..(n - m + 1) : SubSeq(s, m, n)[i] = s[m + i - 1]
  <2> HIDE DEF n
  <2> QED
    BY <1>1, SubSeqProperties
<1>3. m + 1 - 1 = m /\ m + 2 - 1 = m + 1 /\ 1 \in 1..2 /\ 2 \in 1..2
  OBVIOUS
<1> HIDE DEF n
<1>4. /\ SubSeq(s, m, n) \in Seq(S) /\ Len(SubSeq(s, m, n)) = 2
      /\ SubSeq(s, m, n)[1] = s[m] /\ SubSeq(s, m, n)[2] = s[m + 1]
  BY <1>1, <1>2, <1>3
<1> QED
  BY Zenon, <1>4 DEF n

(* The price after an inner swap is of the same call.                      *)
LEMMA PriceAfterSwap ==
  ASSUME NEW map, Faithful(map), NEW ixs, IsList(ixs), NEW i \in DOMAIN ixs
  PROVE  GetBlockSolPriceByTransfer(map, GetInnerInstructionByInner(ixs, i))
           \in {0} \cup SwapPrices(ixs)
<1> DEFINE part == GetInnerInstructionByInner(ixs, i)
           T == {ixs[j] : j \in DOMAIN ixs}
<1>1. ixs \in Seq(T) /\ Len(ixs) \in Nat /\ DOMAIN ixs = 1..Len(ixs) /\ i \in Nat
  BY ListType
<1>2. /\ part \in Seq(T) /\ Len(part) \in {0, 2}
      /\ Len(part) = 2 => /\ i + 2 <= Len(ixs)
                          /\ part[1] = ixs[i + 1] /\ part[2] = ixs[i + 1 + 1]
  <2>1. CASE i + 2 > Len(ixs)
    <3>1. part = <<>>
      BY <2>1 DEF GetInnerInstructionByInner
    <3> QED
      BY <3>1
  <2>2. CASE ~(i + 2 > Len(ixs))
    <3>1. part = SubSeq(ixs, i + 1, i + 2)
      BY <2>2 DEF GetInnerInstructionByInner
    <3>2. i + 1 \in Int /\ i + 2 \in Int /\ \A j \in (i + 1)..(i + 2) : ixs[j] \in T
      BY <1>1, <2>2
    <3> HIDE DEF T
    <3>3. /\ part \in Seq(T) /\ Len(part) = 2
          /\ part[1] = ixs[i + 1] /\ part[2] = ixs[i + 1 + 1]
      <4>1. i + 1 + 1 = i + 2 /\ \A j \in (i + 1)..(i + 1 + 1) : ixs[j] \in T
        BY <1>1, <3>2
      <4>2. /\ SubSeq(ixs, i + 1, i + 1 + 1) \in Seq(T)
            /\ Len(SubSeq(ixs, i + 1, i + 1 + 1)) = 2
            /\ SubSeq(ixs, i + 1, i + 1 + 1)[1] = ixs[i + 1]
            /\ SubSeq(ixs, i + 1, i + 1 + 1)[2] = ixs[i + 1 + 1]
        <5> DEFINE k == i + 1
        <5>1. k \in Int /\ \A j \in k..(k + 1) : ixs[j] \in T
          BY <3>2, <4>1
        <5> HIDE DEF k
        <5>2. /\ SubSeq(ixs, k, k + 1) \in Seq(T) /\ Len(SubSeq(ixs, k, k + 1)) = 2
              /\ SubSeq(ixs, k, k + 1)[1] = ixs[k] /\ SubSeq(ixs, k, k + 1)[2] = ixs[k + 1]
          BY <5>1, TwoOfList
        <5> QED
          BY Zenon, <5>2 DEF k
      <4> QED
        BY <3>1, <4>1, <4>2
    <3>4. i + 2 <= Len(ixs)
      BY <1>1, <2>2
    <3> QED
      BY <3>3, <3>4
  <2> QED
    BY <2>1, <2>2
<1>3. IsList(part)
  <2> HIDE DEF part, T
  <2> QED
    BY <1>2, ListOf
<1>4. GetBlockSolPriceByTransfer(map, part) \in {0} \cup SwapPrices(part)
  <2> HIDE DEF part
  <2> QED
    BY <1>3, PriceOfCall
<1>5. SwapPrices(part) \subseteq SwapPrices(ixs)
  <2> SUFFICES ASSUME NEW j \in Swaps(part)
               PROVE  SwapRatio(part, j) \in SwapPrices(ixs)
    BY DEF SwapPrices
  <2>1. j \in 1..(Len(part) - 1) /\ IsSwap(part, j)
    BY DEF Swaps
  <2> HIDE DEF part
  <2>2. /\ j = 1 /\ i + 1 \in 1..(Len(ixs) - 1)
        /\ part[1] = ixs[i + 1] /\ part[1 + 1] = ixs[i + 1 + 1]
    <3>1. Len(part) = 2
      BY <1>2, <2>1
    <3>2. j = 1 /\ 1 + 1 = 2
      BY <2>1, <3>1
    <3> QED
      BY <1>1, <1>2, <3>1, <3>2
  <2>3. IsSwap(ixs, i + 1)
    BY <2>1, <2>2 DEF IsSwap
  <2>4. SwapRatio(part, j) = SwapRatio(ixs, i + 1)
    BY <2>2 DEF SwapRatio
  <2>5. i + 1 \in Swaps(ixs)
    BY <2>2, <2>3 DEF Swaps
  <2> QED
    BY <2>4, <2>5 DEF SwapPrices
<1> QED
  BY <1>4, <1>5

(* The prices found in a transaction are those of swaps within a call.     *)
LEMMA TxPricesRight ==
  ASSUME NEW map, Faithful(map), NEW tx \in SwapBlocks
  PROVE  TxPrices(map, tx) \in Seq(CallPrices(tx) \cap (Nat \ {0}))
<1> DEFINE P == CallPrices(tx)
           outer == [i \in DOMAIN tx.outer |->
                       IF tx.outer[i].program # "swap" THEN 0
                       ELSE GetBlockSolPriceByTransfer(map, InnerOf(tx, tx.outer[i].programIndex))]
           Inner(ixs) ==
             [i \in DOMAIN ixs |->
                IF ixs[i].program # "swap" THEN 0
                ELSE GetBlockSolPriceByTransfer(map, GetInnerInstructionByInner(ixs, i))]
           lists == [g \in DOMAIN tx.inner |-> Inner(tx.inner[g].ixs)]
           found == outer \o FlattenSeq(lists)
<1>1. /\ DOMAIN tx.outer = 1..Len(tx.outer) /\ Len(tx.outer) \in Nat
      /\ DOMAIN tx.inner = 1..Len(tx.inner) /\ Len(tx.inner) \in Nat
      /\ \A g \in DOMAIN tx.inner : IsList(tx.inner[g].ixs)
  BY InputAssumption, ListType
<1>2. TxPrices(map, tx) = Kept(found, Nat \ {0})
  BY Zenon DEF TxPrices
<1>3. 0 \in P /\ \A g \in DOMAIN tx.inner : SwapPrices(tx.inner[g].ixs) \subseteq P
  BY DEF CallPrices
<1> HIDE DEF P
<1>4. ASSUME NEW index
      PROVE  GetBlockSolPriceByTransfer(map, InnerOf(tx, index)) \in P
  <2> DEFINE calls == {g \in DOMAIN tx.inner : tx.inner[g].index = index}
  <2>1. CASE calls = {}
    <3>1. InnerOf(tx, index) = <<>>
      BY <2>1 DEF InnerOf
    <3>2. IsList(<<>>) /\ SwapPrices(<<>>) = {}
      <4>1. <<>> \in Seq(Nat) /\ Len(<<>>) = 0 /\ 1..(0 - 1) = {}
        OBVIOUS
      <4>2. IsList(<<>>)
        BY Zenon, <4>1, ListOf
      <4>3. Swaps(<<>>) = {}
        BY <4>1 DEF Swaps
      <4> QED
        BY <4>2, <4>3 DEF SwapPrices
    <3> QED
      BY <1>3, <3>1, <3>2, PriceOfCall
  <2>2. CASE calls # {}
    <3>1. InnerOf(tx, index) = tx.inner[Max(calls)].ixs
      BY Zenon, <2>2 DEF InnerOf
    <3>2. Max(calls) \in calls
      <4>1. calls \in SUBSET (1..Len(tx.inner))
        BY <1>1
      <4> HIDE DEF calls
      <4> QED
        BY <1>1, <2>2, <4>1, MaxOfIndices
    <3>3. Max(calls) \in DOMAIN tx.inner
      BY <3>2
    <3> HIDE DEF calls
    <3> QED
      BY <1>1, <1>3, <3>1, <3>3, PriceOfCall
  <2> QED
    BY <2>1, <2>2
<1>5. outer \in Seq(P)
  <2>1. outer \in [1..Len(tx.outer) -> P]
    BY <1>1, <1>3, <1>4
  <2> HIDE DEF outer
  <2> QED
    BY <1>1, <2>1
<1>6. lists \in Seq(Seq(P))
  <2>1. ASSUME NEW g \in DOMAIN tx.inner
        PROVE  Inner(tx.inner[g].ixs) \in Seq(P)
    <3> DEFINE ixs == tx.inner[g].ixs
    <3>1. IsList(ixs) /\ DOMAIN ixs = 1..Len(ixs) /\ Len(ixs) \in Nat
      BY <1>1, ListType
    <3>2. \A i \in DOMAIN ixs :
            GetBlockSolPriceByTransfer(map, GetInnerInstructionByInner(ixs, i)) \in P
      <4> HIDE DEF ixs
      <4>1. SwapPrices(ixs) \subseteq P
        BY <1>3 DEF ixs
      <4> QED
        BY <1>3, <3>1, <4>1, PriceAfterSwap
    <3> HIDE DEF ixs
    <3>3. Inner(ixs) \in [1..Len(ixs) -> P]
      BY <1>3, <3>1, <3>2
    <3> HIDE DEF Inner
    <3>4. Inner(ixs) \in Seq(P)
      BY <3>1, <3>3
    <3> QED
      BY <3>4 DEF ixs
  <2> HIDE DEF Inner
  <2>2. lists \in [1..Len(tx.inner) -> Seq(P)]
    BY <1>1, <2>1
  <2> HIDE DEF lists
  <2> QED
    BY <1>1, <2>2
<1>7. found \in Seq(P)
  <2>1. FlattenSeq(lists) \in Seq(P)
    <3> HIDE DEF lists
    <3> QED
      BY <1>6, FlattenTyped
  <2> HIDE DEF outer, lists
  <2> QED
    BY <1>5, <2>1
<1> DEFINE r == Kept(found, Nat \ {0})
<1>8. KeptUpTo(P, found, Nat \ {0}, r, Len(found))
  <2> HIDE DEF found
  <2> QED
    BY <1>7, KeptRight
<1> HIDE DEF found, r
<1>9. r \in Seq(P) /\ \A i \in 1..Len(r) : r[i] \in Nat \ {0}
  BY <1>8 DEF KeptUpTo, Keeps
<1>10. r \in Seq(P \cap (Nat \ {0}))
  <2>1. Len(r) \in Nat /\ r \in [1..Len(r) -> P \cap (Nat \ {0})]
    BY <1>9
  <2> QED
    BY <2>1
<1> QED
  BY <1>2, <1>10 DEF P, r

(* Every price of a block is that of a swap within a call.                 *)
LEMMA BlockPricesRight ==
  ASSUME NEW tx \in SwapBlocks
  PROVE  LET prices == BlockPrices(<<tx>>).prices IN
         \A n \in DOMAIN prices :
           \E g \in DOMAIN tx.inner :
             \E i \in Swaps(tx.inner[g].ixs) : prices[n] = SwapRatio(tx.inner[g].ixs, i)
<1> DEFINE map == FillTokenAccountMap(NoPrices.map, tx)
           P == CallPrices(tx) \cap (Nat \ {0})
           new == IF HasTokenChange(NoPrices.map, tx) THEN TxPrices(map, tx) ELSE <<>>
           prices == BlockPrices(<<tx>>).prices
<1>1. prices = <<>> \o new
  <2>1. TxStep(NoPrices, tx) = [map |-> map, prices |-> NoPrices.prices \o new]
    BY Zenon DEF TxStep
  <2>2. NoPrices.prices = <<>>
    BY DEF NoPrices
  <2> HIDE DEF map, new
  <2> QED
    BY <2>1, <2>2, OneTx
<1>2. new \in Seq(P)
  <2>1. TxPrices(map, tx) \in Seq(P)
    <3> HIDE DEF map
    <3> QED
      BY BlockMapFaithful, TxPricesRight DEF map
  <2>2. <<>> \in Seq(P)
    OBVIOUS
  <2> HIDE DEF map, P
  <2> QED
    BY <2>1, <2>2
<1>3. prices \in Seq(P)
  <2> HIDE DEF new, P, prices
  <2> QED
    BY <1>1, <1>2
<1>4. \A n \in DOMAIN prices : prices[n] \in P
  <2> HIDE DEF prices, P
  <2> QED
    BY <1>3
<1> HIDE DEF prices
<1> QED
  BY <1>4 DEF CallPrices, SwapPrices, prices

-----------------------------------------------------------------------------
(* The account map over the transactions of a block.                       *)

(* What the map may hold of the account of a history.                      *)
Seen(h) == UNION {{h[i].before, h[i].after} : i \in DOMAIN h}
Mints(h) ==
  {x.mint : x \in Seen(h)} \cup UNION {{h[i].mints[j] : j \in DOMAIN h[i].mints} : i \in DOMAIN h}
Records(h) ==
  [mint : Mints(h), owner : {x.owner : x \in Seen(h)} \cup {"owner"},
   decimals : {x.decimals : x \in Seen(h)} \cup {0},
   before : {x.amount : x \in Seen(h)} \cup {0}]
Maps(h) == UNION {[D -> Records(h)] : D \in SUBSET {"account"}}

(* What it is to be a map for a history.                                    *)
LEMMA MapOf ==
  ASSUME NEW h, NEW map
  PROVE  map \in Maps(h) <=>
           /\ DOMAIN map \subseteq {"account"} /\ map = [a \in DOMAIN map |-> map[a]]
           /\ \A a \in DOMAIN map : map[a] \in Records(h)
<1> DEFINE R == Records(h)
<1>1. ASSUME map \in Maps(h)
      PROVE  /\ DOMAIN map \subseteq {"account"} /\ map = [a \in DOMAIN map |-> map[a]]
             /\ \A a \in DOMAIN map : map[a] \in R
  <2>1. PICK D \in SUBSET {"account"} : map \in [D -> R]
    BY Zenon, <1>1 DEF Maps
  <2> HIDE DEF R
  <2> QED
    BY <2>1
<1>2. ASSUME DOMAIN map \subseteq {"account"}, map = [a \in DOMAIN map |-> map[a]],
             \A a \in DOMAIN map : map[a] \in R
      PROVE  map \in Maps(h)
  <2>1. map \in [DOMAIN map -> R]
    <3> HIDE DEF R
    <3> QED
      BY <1>2
  <2> QED
    BY Zenon, <1>2, <2>1 DEF Maps
<1> QED
  BY <1>1, <1>2

(* The accounts of a transaction before or after it.                       *)
LEMMA BalanceOf ==
  ASSUME NEW state
  PROVE  /\ DOMAIN Balance(state) = IF state = Gone THEN {} ELSE {"account"}
         /\ \A a \in DOMAIN Balance(state) : Balance(state)[a] = state
BY DEF Balance

(* After the balances before a transaction the map has the mint of these.  *)
LEMMA PreRight ==
  ASSUME NEW h, NEW map \in Maps(h), NEW state \in Seen(h)
  PROVE  LET next == WithPre(map, Balance(state)) IN
         /\ next \in Maps(h)
         /\ state # Gone => "account" \in DOMAIN next /\ next["account"].mint = state.mint
<1> DEFINE pre == Balance(state)
           next == WithPre(map, pre)
           new == [mint |-> state.mint, owner |-> state.owner,
                   decimals |-> state.decimals, before |-> state.amount]
<1>1. DOMAIN pre = (IF state = Gone THEN {} ELSE {"account"})
      /\ \A a \in DOMAIN pre : pre[a] = state
  BY BalanceOf
<1>2. new \in Records(h)
  BY DEF Records, Mints
<1>3. /\ DOMAIN map \subseteq {"account"} /\ \A a \in DOMAIN map : map[a] \in Records(h)
  BY MapOf
<1> HIDE DEF pre
<1>4. /\ DOMAIN next = DOMAIN map \cup DOMAIN pre /\ next = [a \in DOMAIN next |-> next[a]]
      /\ \A a \in DOMAIN next : next[a] = IF a \in DOMAIN pre THEN new ELSE map[a]
  BY <1>1 DEF WithPre
<1> HIDE DEF new
<1>5. next \in Maps(h)
  <2> HIDE DEF next
  <2> QED
    BY <1>1, <1>2, <1>3, <1>4, MapOf
<1>6. new.mint = state.mint
  BY DEF new
<1> HIDE DEF next
<1> QED
  BY <1>1, <1>4, <1>5, <1>6 DEF next, pre

(* The balances after it add what the map does not know.                   *)
LEMMA PostRight ==
  ASSUME NEW h, NEW map \in Maps(h), NEW state \in Seen(h)
  PROVE  LET next == WithPost(map, Balance(state)) IN
         /\ next \in Maps(h)
         /\ "account" \in DOMAIN map =>
              "account" \in DOMAIN next /\ next["account"].mint = map["account"].mint
<1> DEFINE post == Balance(state)
           next == WithPost(map, post)
           new == [mint |-> state.mint, owner |-> state.owner,
                   decimals |-> state.decimals, before |-> 0]
<1>1. DOMAIN post = (IF state = Gone THEN {} ELSE {"account"})
      /\ \A a \in DOMAIN post : post[a] = state
  BY BalanceOf
<1>2. new \in Records(h)
  BY DEF Records, Mints
<1>3. /\ DOMAIN map \subseteq {"account"} /\ \A a \in DOMAIN map : map[a] \in Records(h)
  BY MapOf
<1> HIDE DEF post
<1>4. /\ DOMAIN next = DOMAIN map \cup DOMAIN post /\ next = [a \in DOMAIN next |-> next[a]]
      /\ \A a \in DOMAIN next : next[a] = IF a \in DOMAIN map THEN map[a] ELSE new
  BY <1>1 DEF WithPost
<1> HIDE DEF new
<1>5. next \in Maps(h)
  <2> HIDE DEF next
  <2> QED
    BY <1>1, <1>2, <1>3, <1>4, MapOf
<1> HIDE DEF next
<1> QED
  BY <1>4, <1>5 DEF next, post

(* Initialising the account gives it the mint it is initialised for.       *)
LEMMA InitRight ==
  ASSUME NEW h, NEW map \in Maps(h), NEW mint \in Mints(h)
  PROVE  LET next == WithInit(map, [account |-> "account", mint |-> mint, owner |-> "owner"]) IN
         next \in Maps(h) /\ "account" \in DOMAIN next /\ next["account"].mint = mint
<1> DEFINE init == [account |-> "account", mint |-> mint, owner |-> "owner"]
           next == WithInit(map, init)
           new == [mint |-> mint, owner |-> "owner", decimals |-> 0, before |-> 0]
<1>1. init.account = "account" /\ init.mint = mint /\ init.owner = "owner"
  OBVIOUS
<1>2. new \in Records(h) /\ new.mint = mint
  BY DEF Records
<1>3. DOMAIN map \subseteq {"account"} /\ \A a \in DOMAIN map : map[a] \in Records(h)
  BY MapOf
<1> HIDE DEF init
<1>4. CASE KnownAccount(map, init)
  <2>1. next = map
    BY <1>4 DEF WithInit
  <2> HIDE DEF next
  <2> QED
    BY <1>1, <1>4, <2>1 DEF KnownAccount, next, init
<1>5. CASE ~KnownAccount(map, init)
  <2>1. next = [a \in DOMAIN map \cup {"account"} |-> IF a = "account" THEN new ELSE map[a]]
    BY <1>1, <1>5 DEF WithInit
  <2> HIDE DEF new
  <2>2. DOMAIN next = {"account"} /\ next["account"] = new /\ next = [a \in DOMAIN next |-> next[a]]
    BY <1>3, <2>1
  <2> HIDE DEF next
  <2>3. next \in Maps(h)
    BY <1>2, <2>2, MapOf
  <2> QED
    BY <1>2, <2>2, <2>3 DEF next, init
<1> QED
  BY <1>4, <1>5

(* Filling in decimals leaves the mints alone.                             *)
LEMMA DecimalsRight ==
  ASSUME NEW h, NEW map \in Maps(h)
  PROVE  /\ WithDecimals(map) \in Maps(h) /\ DOMAIN WithDecimals(map) = DOMAIN map
         /\ \A a \in DOMAIN map : WithDecimals(map)[a].mint = map[a].mint
<1> DEFINE next == WithDecimals(map)
           OfMint(mint) == {map[b].decimals : b \in {c \in DOMAIN map : map[c].mint = mint}} \ {0}
<1>1. DOMAIN map \subseteq {"account"} /\ \A a \in DOMAIN map : map[a] \in Records(h)
  BY MapOf
<1>2. next = [a \in DOMAIN map |->
                IF map[a].decimals = 0 /\ OfMint(map[a].mint) # {}
                THEN [map[a] EXCEPT !.decimals = CHOOSE d \in OfMint(map[a].mint) : TRUE]
                ELSE map[a]]
  BY Zenon DEF WithDecimals
<1>3. \A a \in DOMAIN map : map[a].decimals = 0 => OfMint(map[a].mint) = {}
  BY <1>1
<1> HIDE DEF OfMint, next
<1>4. DOMAIN next = DOMAIN map /\ next = [a \in DOMAIN next |-> next[a]]
      /\ \A a \in DOMAIN map : next[a] = map[a]
  BY <1>2, <1>3
<1>5. next \in Maps(h)
  BY <1>1, <1>4, MapOf
<1> QED
  BY <1>4, <1>5 DEF next

Initialised(map, inits) == FoldLeft(WithInit, map, inits)

(* The loop over the accounts a transaction initialises, one at a time.    *)
LEMMA InitSteps ==
  ASSUME NEW h, NEW map \in Maps(h), NEW inits, IsList(inits),
         \A i \in DOMAIN inits : \E mint \in Mints(h) :
           inits[i] = [account |-> "account", mint |-> mint, owner |-> "owner"]
  PROVE  \E f : /\ f[0] = map
                /\ \A k \in 1..Len(inits) : f[k] = WithInit(f[k - 1], inits[k])
                /\ Initialised(map, inits) = f[Len(inits)]
<1> DEFINE n == Len(inits)
           A == Maps(h)
           step == [x \in A \X (1..n) |-> WithInit(x[1], inits[x[2]])]
           E(g) == g = [t \in SUBSET (DOMAIN inits) |->
                          IF t = {} THEN map ELSE WithInit(g[t \ {Max(t)}], inits[Max(t)])]
           c == CHOOSE g : E(g)
<1>1. DOMAIN inits = 1..n /\ n \in Nat
  BY ListType
<1>2. E(c)
  <2>1. step \in [A \X (1..n) -> A]
    <3>1. \A a \in A, i \in 1..n : WithInit(a, inits[i]) \in A
      BY <1>1, InitRight
    <3> HIDE DEF A, n
    <3> QED
      BY <3>1
  <2>2. PICK g : IsFold(g, n, A, map, step)
    <3> HIDE DEF step, n, A
    <3>1. map \in A
      BY DEF A
    <3> QED
      BY <1>1, <2>1, <3>1, FoldExists
  <2>3. ASSUME NEW t \in SUBSET (1..n), t # {}
        PROVE  step[<<g[t \ {Max(t)}], Max(t)>>] = WithInit(g[t \ {Max(t)}], inits[Max(t)])
    <3>1. Max(t) \in 1..n /\ g[t \ {Max(t)}] \in A
      <4> HIDE DEF step, n, A
      <4> QED
        BY <1>1, <2>2, <2>3, MaxOfIndices DEF IsFold
    <3> HIDE DEF A, n
    <3> QED
      BY <3>1
  <2>4. E(g)
    <3> HIDE DEF step, n, A
    <3> QED
      BY <1>1, <2>2, <2>3 DEF IsFold
  <2> HIDE DEF E
  <2> QED
    BY <2>4
<1>3. c[{}] = map
  <2> HIDE DEF c
  <2> QED
    BY <1>2
<1>4. ASSUME NEW k \in 1..n
      PROVE  c[1..k] = WithInit(c[1..(k - 1)], inits[k])
  <2>1. /\ 1..k \in SUBSET (DOMAIN inits) /\ 1..k # {}
        /\ Max(1..k) = k /\ (1..k) \ {k} = 1..(k - 1)
    BY <1>1, MaxOfPrefix
  <2> HIDE DEF c
  <2> QED
    BY <1>2, <2>1
<1>5. Initialised(map, inits) = c[DOMAIN inits]
  BY Zenon DEF Initialised, FoldLeft, MapThenFoldSet
<1> DEFINE f == [k \in 0..n |-> c[1..k]]
<1>6. f[0] = map /\ \A k \in 1..n : f[k] = WithInit(f[k - 1], inits[k])
  <2>1. 1..0 = {} /\ 0 \in 0..n
    BY <1>1
  <2> HIDE DEF c, n
  <2> QED
    BY <1>1, <1>3, <1>4, <2>1
<1>7. c[DOMAIN inits] = f[n]
  <2> HIDE DEF c, n
  <2> QED
    BY <1>1
<1> HIDE DEF f, c
<1> QED
  BY <1>5, <1>6, <1>7

(* After the initialisations of a transaction the account has the mint of  *)
(* the last.                                                               *)
LEMMA InitsRight ==
  ASSUME NEW h, NEW map \in Maps(h), NEW inits, IsList(inits),
         \A i \in DOMAIN inits : \E mint \in Mints(h) :
           inits[i] = [account |-> "account", mint |-> mint, owner |-> "owner"]
  PROVE  LET next == Initialised(map, inits) IN
         /\ next \in Maps(h)
         /\ Len(inits) > 0 =>
              "account" \in DOMAIN next /\ next["account"].mint = inits[Len(inits)].mint
         /\ Len(inits) = 0 => next = map
<1> DEFINE n == Len(inits)
<1>1. n \in Nat /\ DOMAIN inits = 1..n
  BY ListType
<1>2. PICK f : /\ f[0] = map
               /\ \A k \in 1..n : f[k] = WithInit(f[k - 1], inits[k])
               /\ Initialised(map, inits) = f[n]
  BY InitSteps
<1>3. ASSUME NEW k \in 1..n, f[k - 1] \in Maps(h)
      PROVE  /\ f[k] \in Maps(h) /\ "account" \in DOMAIN f[k]
             /\ f[k]["account"].mint = inits[k].mint
  <2>1. PICK mint \in Mints(h) :
          inits[k] = [account |-> "account", mint |-> mint, owner |-> "owner"]
    BY <1>1
  <2>2. inits[k].mint = mint
    BY <2>1
  <2>3. f[k] = WithInit(f[k - 1], [account |-> "account", mint |-> mint, owner |-> "owner"])
    BY <1>2, <2>1
  <2> QED
    BY <1>3, <2>2, <2>3, InitRight
<1> DEFINE Good == {k \in 0..n : f[k] \in Maps(h)}
<1>4. 0..n \subseteq Good
  <2>1. 0 \in Good
    BY <1>1, <1>2
  <2>2. ASSUME NEW k \in 1..n, k - 1 \in Good PROVE k \in Good
    <3>1. f[k - 1] \in Maps(h)
      BY <2>2
    <3> QED
      BY <1>1, <1>3, <3>1
  <2> HIDE DEF Good, n
  <2> QED
    BY <1>1, <2>1, <2>2, PrefixInduction
<1>5. f[n] \in Maps(h)
  BY <1>1, <1>4
<1>6. ASSUME n > 0 PROVE "account" \in DOMAIN f[n] /\ f[n]["account"].mint = inits[n].mint
  <2>1. n \in 1..n /\ n - 1 \in Good
    <3>1. n \in 1..n /\ n - 1 \in 0..n
      BY <1>1, <1>6
    <3> HIDE DEF Good, n
    <3> QED
      BY <1>4, <3>1
  <2> QED
    BY <1>3, <2>1
<1> QED
  BY <1>2, <1>5, <1>6

(* After a transaction that leaves the account with a balance the map has  *)
(* the mint of that balance.                                               *)
LEMMA FillRight ==
  ASSUME NEW h \in Histories, NEW map \in Maps(h), NEW i \in DOMAIN h
  PROVE  LET next == FillTokenAccountMap(map, HistoryTx(h[i])) IN
         /\ next \in Maps(h)
         /\ h[i].after # Gone => next["account"].mint = h[i].after.mint
<1> DEFINE tx == HistoryTx(h[i])
           mints == h[i].mints
           map1 == WithPre(map, Balance(h[i].before))
           map2 == WithPost(map1, Balance(h[i].after))
           map3 == Initialised(map2, tx.inits)
<1>1. /\ tx.pre = Balance(h[i].before) /\ tx.post = Balance(h[i].after)
      /\ tx.inits = [j \in DOMAIN mints |->
                       [account |-> "account", mint |-> mints[j], owner |-> "owner"]]
  BY DEF HistoryTx
<1>2. /\ IsList(mints)
      /\ h[i].after # Gone =>
           \/ /\ mints = <<>> /\ h[i].before # Gone
              /\ h[i].after.mint = h[i].before.mint
           \/ /\ mints # <<>>
              /\ h[i].after.mint = mints[Len(mints)]
  BY InputAssumption
<1>3. Len(mints) \in Nat /\ DOMAIN mints = 1..Len(mints) /\ (mints # <<>> => Len(mints) > 0)
  <2>1. mints \in Seq({mints[j] : j \in DOMAIN mints})
    BY <1>2, ListType
  <2> HIDE DEF mints
  <2> QED
    BY <2>1
<1>4. h[i].before \in Seen(h) /\ h[i].after \in Seen(h)
      /\ \A j \in DOMAIN mints : mints[j] \in Mints(h)
  BY DEF Seen, Mints
<1>5. /\ map1 \in Maps(h)
      /\ h[i].before # Gone =>
           "account" \in DOMAIN map1 /\ map1["account"].mint = h[i].before.mint
  BY <1>4, PreRight
<1> HIDE DEF map1
<1>6. /\ map2 \in Maps(h)
      /\ "account" \in DOMAIN map1 =>
           "account" \in DOMAIN map2 /\ map2["account"].mint = map1["account"].mint
  BY <1>4, <1>5, PostRight
<1> HIDE DEF map2
<1>7. /\ IsList(tx.inits) /\ Len(tx.inits) = Len(mints) /\ DOMAIN tx.inits = DOMAIN mints
      /\ \A j \in DOMAIN mints :
           tx.inits[j] = [account |-> "account", mint |-> mints[j], owner |-> "owner"]
  <2> DEFINE T == [account : {"account"}, mint : Mints(h), owner : {"owner"}]
             inits == [j \in 1..Len(mints) |->
                         [account |-> "account", mint |-> mints[j], owner |-> "owner"]]
  <2>1. tx.inits = inits
    BY <1>1, <1>3
  <2>2. inits \in [1..Len(mints) -> T]
    <3> HIDE DEF mints
    <3> QED
      BY <1>3, <1>4
  <2>3. inits \in Seq(T) /\ Len(inits) = Len(mints)
    <3> HIDE DEF T, inits, mints
    <3>1. DOMAIN inits = 1..Len(mints)
      BY DEF inits
    <3> QED
      BY <1>3, <2>2, <3>1
  <2>4. IsList(inits)
    <3> HIDE DEF T, inits
    <3> QED
      BY <2>3, ListOf
  <2> QED
    BY <1>3, <2>1, <2>3, <2>4
<1>8. /\ map3 \in Maps(h)
      /\ Len(mints) > 0 =>
           "account" \in DOMAIN map3 /\ map3["account"].mint = mints[Len(mints)]
      /\ Len(mints) = 0 => map3 = map2
  <2>1. \A j \in DOMAIN tx.inits : \E mint \in Mints(h) :
          tx.inits[j] = [account |-> "account", mint |-> mint, owner |-> "owner"]
    <3> HIDE DEF tx, mints
    <3> QED
      BY <1>4, <1>7
  <2>2. Len(mints) > 0 => tx.inits[Len(mints)].mint = mints[Len(mints)]
    <3>1. Len(mints) > 0 => Len(mints) \in DOMAIN mints
      BY <1>3
    <3>2. Len(mints) > 0 =>
            tx.inits[Len(mints)] = [account |-> "account", mint |-> mints[Len(mints)], owner |-> "owner"]
      <4> HIDE DEF tx, mints
      <4> QED
        BY <1>7, <3>1
    <3> HIDE DEF tx, mints
    <3> QED
      BY <3>2
  <2> DEFINE inits == tx.inits
  <2> HIDE DEF tx, mints
  <2>3. /\ IsList(inits) /\ Len(inits) = Len(mints)
        /\ Len(mints) > 0 => inits[Len(mints)].mint = mints[Len(mints)]
    BY <1>7, <2>2
  <2>4. \A j \in DOMAIN inits : \E mint \in Mints(h) :
          inits[j] = [account |-> "account", mint |-> mint, owner |-> "owner"]
    BY <2>1
  <2> HIDE DEF inits
  <2>5. LET next == Initialised(map2, inits) IN
        /\ next \in Maps(h)
        /\ Len(inits) > 0 =>
             "account" \in DOMAIN next /\ next["account"].mint = inits[Len(inits)].mint
        /\ Len(inits) = 0 => next = map2
    BY <1>6, <2>3, <2>4, InitsRight
  <2> QED
    BY <2>3, <2>5 DEF inits
<1>9. FillTokenAccountMap(map, tx) = WithDecimals(map3)
  BY Zenon, <1>1 DEF FillTokenAccountMap, Initialised, map1, map2
<1> HIDE DEF map3
<1>10. /\ WithDecimals(map3) \in Maps(h)
       /\ "account" \in DOMAIN map3 => WithDecimals(map3)["account"].mint = map3["account"].mint
  BY <1>8, DecimalsRight
<1>11. ASSUME h[i].after # Gone
       PROVE  "account" \in DOMAIN map3 /\ map3["account"].mint = h[i].after.mint
  <2>1. CASE mints = <<>>
    <3>1. Len(mints) = 0
      BY <2>1
    <3> QED
      BY <1>2, <1>5, <1>6, <1>8, <1>11, <2>1, <3>1
  <2>2. CASE mints # <<>>
    <3> HIDE DEF mints
    <3> QED
      BY <1>2, <1>3, <1>8, <1>11, <2>2
  <2> QED
    BY <2>1, <2>2
<1> HIDE DEF tx
<1> QED
  BY <1>9, <1>10, <1>11 DEF tx

(* A transaction without instructions has no price.                        *)
LEMMA NoInstructionsNoPrice ==
  ASSUME NEW map, NEW state
  PROVE  TxPrices(map, HistoryTx(state)) = <<>>
<1> DEFINE tx == HistoryTx(state)
           outer == [i \in DOMAIN tx.outer |->
                       IF tx.outer[i].program # "swap" THEN 0
                       ELSE GetBlockSolPriceByTransfer(map, InnerOf(tx, tx.outer[i].programIndex))]
           Inner(ixs) ==
             [i \in DOMAIN ixs |->
                IF ixs[i].program # "swap" THEN 0
                ELSE GetBlockSolPriceByTransfer(map, GetInnerInstructionByInner(ixs, i))]
           lists == [g \in DOMAIN tx.inner |-> Inner(tx.inner[g].ixs)]
<1>1. tx.outer = <<>> /\ tx.inner = <<>>
  BY DEF HistoryTx
<1>2. TxPrices(map, tx) = Kept(outer \o FlattenSeq(lists), Nat \ {0})
  BY Zenon DEF TxPrices
<1> HIDE DEF tx, Inner
<1>3. outer = <<>> /\ lists = <<>>
  BY <1>1
<1> HIDE DEF outer, lists
<1>4. FlattenSeq(lists) = <<>>
  <2>1. Len(lists) = 0
    BY <1>3
  <2> QED
    BY Zenon, <1>3, <2>1 DEF FlattenSeq
<1>5. outer \o FlattenSeq(lists) = <<>>
  BY <1>3, <1>4
<1>6. Kept(<<>>, Nat \ {0}) = <<>>
  <2> DEFINE none == <<>>
  <2>1. none \in Seq(Nat) /\ Len(none) = 0
    OBVIOUS
  <2> HIDE DEF none
  <2> DEFINE r == Kept(none, Nat \ {0})
  <2>2. KeptUpTo(Nat, none, Nat \ {0}, r, Len(none))
    BY <2>1, KeptRight
  <2> HIDE DEF r
  <2>3. r \in Seq(Nat) /\ \E f : f \in [1..Len(r) -> 1..0]
    BY <2>1, <2>2 DEF KeptUpTo, Keeps
  <2>4. Len(r) \notin Nat \ {0}
    <3> SUFFICES ASSUME Len(r) \in Nat \ {0}
                 PROVE  FALSE
      OBVIOUS
    <3>1. 1 \in 1..Len(r) /\ 1..0 = {}
      OBVIOUS
    <3> QED
      BY <2>3, <3>1
  <2>5. r = <<>>
    BY <2>3, <2>4
  <2> QED
    BY <2>5 DEF none, r
<1> QED
  BY <1>2, <1>5, <1>6 DEF tx

(* What the loop over a block may hold for a history.                      *)
Blocks(h) == [map : Maps(h), prices : {<<>>}]

(* One turn of the loop over a history, for a map left by any transaction   *)
(* before.                                                                  *)
LEMMA BlockTyped ==
  ASSUME NEW h \in Histories, NEW acc \in Blocks(h), NEW i \in DOMAIN h
  PROVE  /\ TxStep(acc, HistoryTx(h[i])) \in Blocks(h)
         /\ h[i].after # Gone =>
              TxStep(acc, HistoryTx(h[i])).map["account"].mint = h[i].after.mint
<1> DEFINE tx == HistoryTx(h[i])
           map == FillTokenAccountMap(acc.map, tx)
           new == IF HasTokenChange(acc.map, tx) THEN TxPrices(map, tx) ELSE <<>>
<1>1. acc.map \in Maps(h) /\ acc.prices = <<>>
  BY DEF Blocks
<1>2. map \in Maps(h) /\ (h[i].after # Gone => map["account"].mint = h[i].after.mint)
  BY <1>1, FillRight
<1>3. new = <<>>
  BY Zenon, NoInstructionsNoPrice
<1>4. TxStep(acc, tx) = [map |-> map, prices |-> acc.prices \o new]
  BY Zenon DEF TxStep
<1> HIDE DEF tx, map, new
<1>5. acc.prices \o new = <<>>
  BY <1>1, <1>3
<1>6. TxStep(acc, tx) \in Blocks(h) /\ TxStep(acc, tx).map = map
  BY <1>2, <1>4, <1>5 DEF Blocks
<1> QED
  BY <1>2, <1>6 DEF tx

(* The loop over the transactions of a history, one at a time.             *)
HistoryBlock(h) == [i \in DOMAIN h |-> HistoryTx(h[i])]
LEMMA BlockSteps ==
  ASSUME NEW h \in Histories
  PROVE  \E f : /\ f[0] = NoPrices
                /\ \A k \in 1..Len(h) : f[k] = TxStep(f[k - 1], HistoryTx(h[k]))
                /\ BlockPrices(HistoryBlock(h)) = f[Len(h)]
<1> DEFINE s == HistoryBlock(h)
           n == Len(h)
           A == Blocks(h)
           step == [x \in A \X (1..n) |-> TxStep(x[1], s[x[2]])]
           E(g) == g = [t \in SUBSET (DOMAIN s) |->
                          IF t = {} THEN NoPrices ELSE TxStep(g[t \ {Max(t)}], s[Max(t)])]
           c == CHOOSE g : E(g)
<1>1. /\ DOMAIN s = 1..n /\ n \in Nat /\ DOMAIN h = 1..n
      /\ \A i \in 1..n : s[i] = HistoryTx(h[i])
  <2>1. n \in Nat /\ DOMAIN h = 1..n
    BY InputAssumption, ListType
  <2> QED
    BY <2>1 DEF HistoryBlock
<1>2. E(c)
  <2>1. step \in [A \X (1..n) -> A]
    <3>1. \A a \in A, i \in 1..n : TxStep(a, s[i]) \in A
      BY <1>1, BlockTyped
    <3> HIDE DEF A, s, n
    <3> QED
      BY <3>1
  <2>2. NoPrices \in A
    <3>1. NoPrices.map \in Maps(h)
      BY MapOf DEF NoPrices
    <3> QED
      BY <3>1 DEF Blocks, NoPrices
  <2>3. PICK g : IsFold(g, n, A, NoPrices, step)
    <3> HIDE DEF step, n, A
    <3> QED
      BY <1>1, <2>1, <2>2, FoldExists
  <2>4. ASSUME NEW t \in SUBSET (1..n), t # {}
        PROVE  step[<<g[t \ {Max(t)}], Max(t)>>] = TxStep(g[t \ {Max(t)}], s[Max(t)])
    <3>1. Max(t) \in 1..n /\ g[t \ {Max(t)}] \in A
      <4> HIDE DEF step, n, A
      <4> QED
        BY <1>1, <2>3, <2>4, MaxOfIndices DEF IsFold
    <3> HIDE DEF A, s, n
    <3> QED
      BY <3>1
  <2>5. E(g)
    <3> HIDE DEF step, n, s, A
    <3> QED
      BY <1>1, <2>3, <2>4 DEF IsFold
  <2> HIDE DEF E
  <2> QED
    BY <2>5
<1>3. c[{}] = NoPrices
  <2> HIDE DEF c, s
  <2> QED
    BY <1>2
<1>4. ASSUME NEW k \in 1..n
      PROVE  c[1..k] = TxStep(c[1..(k - 1)], s[k])
  <2>1. /\ 1..k \in SUBSET (DOMAIN s) /\ 1..k # {}
        /\ Max(1..k) = k /\ (1..k) \ {k} = 1..(k - 1)
    BY <1>1, MaxOfPrefix
  <2> HIDE DEF c, s
  <2> QED
    BY <1>2, <2>1
<1>5. BlockPrices(s) = c[DOMAIN s]
  BY Zenon DEF BlockPrices, FoldLeft, MapThenFoldSet, TxStep, NoPrices
<1> DEFINE f == [k \in 0..n |-> c[1..k]]
<1>6. f[0] = NoPrices /\ \A k \in 1..n : f[k] = TxStep(f[k - 1], s[k])
  <2>1. 1..0 = {} /\ 0 \in 0..n
    BY <1>1
  <2> HIDE DEF c, n, s
  <2> QED
    BY <1>1, <1>3, <1>4, <2>1
<1>7. BlockPrices(s) = f[n]
  <2> HIDE DEF c, s, n
  <2> QED
    BY <1>1, <1>5
<1>8. \A k \in 1..n : f[k] = TxStep(f[k - 1], HistoryTx(h[k]))
  <2> HIDE DEF f, s, n
  <2> QED
    BY <1>1, <1>6
<1> HIDE DEF f, c
<1> QED
  BY <1>6, <1>7, <1>8

(* At the end of a block the map has the mint of the account.              *)
LEMMA HistoryRight ==
  ASSUME NEW h \in Histories, h[Len(h)].after # Gone
  PROVE  BlockPrices(HistoryBlock(h)).map["account"].mint = h[Len(h)].after.mint
<1> DEFINE n == Len(h)
<1>1. n \in Nat /\ n > 0 /\ DOMAIN h = 1..n
  <2>1. h \in Seq({h[i] : i \in DOMAIN h}) /\ n \in Nat /\ DOMAIN h = 1..n /\ h # <<>>
    BY InputAssumption, ListType
  <2> QED
    BY <2>1
<1>2. PICK f : /\ f[0] = NoPrices
               /\ \A k \in 1..n : f[k] = TxStep(f[k - 1], HistoryTx(h[k]))
               /\ BlockPrices(HistoryBlock(h)) = f[n]
  BY BlockSteps
<1> DEFINE Good == {k \in 0..n : f[k] \in Blocks(h)}
<1>3. 0..n \subseteq Good
  <2>1. 0 \in Good
    <3>1. NoPrices.map \in Maps(h)
      BY MapOf DEF NoPrices
    <3>2. NoPrices \in Blocks(h)
      BY <3>1 DEF Blocks, NoPrices
    <3> QED
      BY <1>1, <1>2, <3>2
  <2>2. ASSUME NEW k \in 1..n, k - 1 \in Good PROVE k \in Good
    <3>1. f[k - 1] \in Blocks(h) /\ k \in DOMAIN h
      BY <1>1, <2>2
    <3>2. f[k] \in Blocks(h)
      BY <1>2, <3>1, BlockTyped
    <3> QED
      BY <1>1, <3>2
  <2> HIDE DEF Good, n
  <2> QED
    BY <1>1, <2>1, <2>2, PrefixInduction
<1>4. f[n - 1] \in Blocks(h) /\ n \in 1..n /\ n \in DOMAIN h
  <2>1. n - 1 \in 0..n /\ n \in 1..n /\ n \in DOMAIN h
    BY <1>1
  <2>2. n - 1 \in Good
    <3> HIDE DEF Good, n
    <3> QED
      BY <1>3, <2>1
  <2> QED
    BY <2>1, <2>2
<1> QED
  BY <1>2, <1>4, BlockTyped

-----------------------------------------------------------------------------
(* The specification.                                                      *)

InputOf ==
  /\ input.call = "swap price" => input.with \in Calls
  /\ input.call = "block prices" => input.with \in SwapBlocks
  /\ input.call = "average" => input.with \in PriceLists
  /\ input.call = "account map" => input.with \in Histories
  /\ input.call = "trades" => input.with \in TradeTxs

(* What the code computes from an input, call by call.                     *)
Gives(call, with, is) ==
  /\ call = "swap price" =>
       is = GetBlockSolPriceByTransfer(WithPre(NoAccounts, Accounts), with)
  /\ call = "block prices" => is = BlockPrices(<<with>>).prices
  /\ call = "average" => is = RemoveMinAndMaxAndCalculateAverage(with)
  /\ call = "account map" => is = BlockPrices(HistoryBlock(with)).map
  /\ call = "trades" => is = TradeMap(DecodeTx(with))
Computed == output # <<>> => Gives(input.call, input.with, answer)

BlockDataInv == InputOf /\ Computed

(* At the start there is an input of its kind and no answer.                *)
LEMMA InitBlockData == Init => BlockDataInv
<1> SUFFICES ASSUME Init
             PROVE  BlockDataInv
  OBVIOUS
<1>1. InputOf
  <2>1. ASSUME NEW what \in {"pair", "transaction", "position"}, NEW with, Asked(what, with)
        PROVE  InputOf
    BY <2>1 DEF Asked, InputOf
  <2>2. ASSUME NEW ixs \in Calls, Asked("swap price", ixs) PROVE InputOf
    BY <2>2 DEF Asked, InputOf
  <2>3. ASSUME NEW tx \in SwapBlocks, Asked("block prices", tx) PROVE InputOf
    BY <2>3 DEF Asked, InputOf
  <2>4. ASSUME NEW nums \in PriceLists, Asked("average", nums) PROVE InputOf
    BY <2>4 DEF Asked, InputOf
  <2>5. ASSUME NEW h \in Histories, Asked("account map", h) PROVE InputOf
    BY <2>5 DEF Asked, InputOf
  <2>6. ASSUME NEW tx \in TradeTxs, Asked("trades", tx) PROVE InputOf
    BY <2>6 DEF Asked, InputOf
  <2>7. \/ \E ixs \in Calls : Asked("swap price", ixs)
        \/ \E tx \in SwapBlocks : Asked("block prices", tx)
        \/ \E nums \in PriceLists : Asked("average", nums)
        \/ \E h \in Histories : Asked("account map", h)
        \/ \E tx \in TradeTxs : Asked("trades", tx)
        \/ \E what \in {"pair", "transaction", "position"} : \E with : Asked(what, with)
    BY Zenon DEF Init
  <2> QED
    BY Zenon, <2>1, <2>2, <2>3, <2>4, <2>5, <2>6, <2>7
<1>2. output = <<>>
  BY DEF Init
<1> QED
  BY <1>1, <1>2 DEF BlockDataInv, Computed

(* An answer is given once, from the input, which stays.                    *)
LEMMA NextBlockData == BlockDataInv /\ [Next]_vars => BlockDataInv'
<1> SUFFICES ASSUME BlockDataInv, [Next]_vars
             PROVE  BlockDataInv'
  OBVIOUS
<1>1. CASE UNCHANGED vars
  BY <1>1 DEF vars, BlockDataInv, InputOf, Computed, answer
<1>2. ASSUME NEW what, NEW is, Answer(what, is), Gives(what, input.with, is)
      PROVE  BlockDataInv'
  <2>1. InputOf' /\ input' = input /\ input.call = what /\ output'[1] = is
    BY <1>2 DEF Answer, BlockDataInv, InputOf
  <2>2. Gives(input'.call, input'.with, output'[1])
    BY Zenon, <1>2, <2>1
  <2> QED
    BY <2>1, <2>2 DEF BlockDataInv, Computed, answer
<1>3. CASE LookUpPair \/ BuildOrder \/ AddLiquidity
  <2>1. \E what \in {"pair", "transaction", "position"} : \E is : Answer(what, is)
    <3>1. ASSUME LookUpPair PROVE \E is : Answer("pair", is)
      BY Zenon, <3>1 DEF LookUpPair
    <3>2. ASSUME BuildOrder PROVE \E is : Answer("transaction", is)
      BY Zenon, <3>2 DEF BuildOrder
    <3>3. ASSUME AddLiquidity PROVE \E is : Answer("position", is)
      BY Zenon, <3>3 DEF AddLiquidity
    <3> QED
      BY Zenon, <1>3, <3>1, <3>2, <3>3
  <2>2. PICK what \in {"pair", "transaction", "position"} : \E is : Answer(what, is)
    BY <2>1
  <2>3. PICK is : Answer(what, is)
    BY <2>2
  <2>4. what \notin {"swap price", "block prices", "average", "account map", "trades"}
    BY <2>2
  <2>5. Gives(what, input.with, is)
    BY Zenon, <2>4 DEF Gives
  <2> QED
    BY Zenon, <1>2, <2>3, <2>5
<1>4. CASE SwapPrice
  <2> DEFINE is == GetBlockSolPriceByTransfer(WithPre(NoAccounts, Accounts), input.with)
  <2>1. Answer("swap price", is)
    BY Zenon, <1>4 DEF SwapPrice
  <2>2. Gives("swap price", input.with, is)
    BY Zenon DEF Gives
  <2> QED
    BY Zenon, <1>2, <2>1, <2>2
<1>5. CASE Prices
  <2> DEFINE is == BlockPrices(<<input.with>>).prices
  <2>1. Answer("block prices", is)
    BY Zenon, <1>5 DEF Prices
  <2>2. Gives("block prices", input.with, is)
    BY Zenon DEF Gives
  <2> QED
    BY Zenon, <1>2, <2>1, <2>2
<1>6. CASE Average
  <2> DEFINE is == RemoveMinAndMaxAndCalculateAverage(input.with)
  <2>1. Answer("average", is)
    BY Zenon, <1>6 DEF Average
  <2>2. Gives("average", input.with, is)
    BY Zenon DEF Gives
  <2> QED
    BY Zenon, <1>2, <2>1, <2>2
<1>7. CASE AccountMap
  <2> DEFINE is == BlockPrices(HistoryBlock(input.with)).map
  <2>1. Answer("account map", is)
    BY Zenon, <1>7 DEF AccountMap, HistoryBlock
  <2>2. Gives("account map", input.with, is)
    BY Zenon DEF Gives
  <2> QED
    BY Zenon, <1>2, <2>1, <2>2
<1>8. CASE DecodeTrades
  <2> DEFINE is == TradeMap(DecodeTx(input.with))
  <2>1. Answer("trades", is)
    BY Zenon, <1>8 DEF DecodeTrades
  <2>2. Gives("trades", input.with, is)
    BY Zenon DEF Gives
  <2> QED
    BY Zenon, <1>2, <2>1, <2>2
<1> QED
  BY Zenon, <1>1, <1>3, <1>4, <1>5, <1>6, <1>7, <1>8 DEF Next

(* Every input is one given and every answer the one computed from it.     *)
THEOREM BlockDataRight == Spec => []BlockDataInv
  BY InitBlockData, NextBlockData, PTL DEF Spec

(* Of every list of inner instructions the price is that of its first      *)
(* swap, and there is none without a swap (GetBlockSolPriceByTransfer).    *)
THEOREM FirstSwapGivesPrice == Spec => []PriceOfFirstSwap
<1>1. BlockDataInv => PriceOfFirstSwap
  <2> SUFFICES ASSUME BlockDataInv, Answered("swap price")
               PROVE  \/ Swaps(input.with) = {} /\ answer = 0
                      \/ \E i \in Swaps(input.with) :
                           /\ \A j \in Swaps(input.with) : i <= j
                           /\ answer = SwapRatio(input.with, i)
    BY DEF PriceOfFirstSwap
  <2>1. /\ input.with \in Calls
        /\ answer = GetBlockSolPriceByTransfer(WithPre(NoAccounts, Accounts), input.with)
    BY Zenon DEF BlockDataInv, InputOf, Computed, Gives, Answered
  <2>2. IsList(input.with)
    BY <2>1, InputAssumption
  <2> QED
    BY <2>1, <2>2, FirstMapFaithful, FirstSwapPriced
<1> QED
  BY <1>1, BlockDataRight, PTL

(* However a transaction nests its calls, every price found in it is that  *)
(* of a swap within one call (GetBlockSolPrice).                           *)
THEOREM NoPriceAcrossCalls == Spec => []PriceWithinOneCall
<1>1. BlockDataInv => PriceWithinOneCall
  <2> SUFFICES ASSUME BlockDataInv, Answered("block prices")
               PROVE  \A n \in DOMAIN answer :
                        \E g \in DOMAIN input.with.inner :
                          \E i \in Swaps(input.with.inner[g].ixs) :
                            answer[n] = SwapRatio(input.with.inner[g].ixs, i)
    BY DEF PriceWithinOneCall
  <2>1. input.with \in SwapBlocks /\ answer = BlockPrices(<<input.with>>).prices
    BY Zenon DEF BlockDataInv, InputOf, Computed, Gives, Answered
  <2> QED
    BY <2>1, BlockPricesRight
<1> QED
  BY <1>1, BlockDataRight, PTL

(* Of any three or more prices no single one, not even +Inf, moves the     *)
(* average out of the range of the others                                  *)
(* (RemoveMinAndMaxAndCalculateAverage).                                   *)
THEOREM AverageResists == Spec => []OutlierHarmless
<1>1. BlockDataInv => OutlierHarmless
  <2> SUFFICES ASSUME BlockDataInv, Answered("average"), Len(input.with) >= 3,
                      NEW k \in DOMAIN input.with
               PROVE  LET others == DOMAIN input.with \ {k} IN
                      /\ \E i \in others : input.with[i] * answer.count <= answer.sum
                      /\ \E i \in others : answer.sum <= input.with[i] * answer.count
    BY DEF OutlierHarmless
  <2>1. input.with \in PriceLists /\ answer = RemoveMinAndMaxAndCalculateAverage(input.with)
    BY Zenon DEF BlockDataInv, InputOf, Computed, Gives, Answered
  <2>2. input.with \in Seq(0..Infinite)
    BY <2>1, InputAssumption
  <2> QED
    BY <2>1, <2>2, AverageWithin
<1> QED
  BY <1>1, BlockDataRight, PTL

(* However often an account is closed and opened for another mint within a *)
(* block, the map ends with the mint it has on the chain                   *)
(* (FillTokenAccountMap).                                                  *)
THEOREM MintFollowed == Spec => []MintKnown
<1>1. BlockDataInv => MintKnown
  <2> SUFFICES ASSUME BlockDataInv, Answered("account map"),
                      input.with[Len(input.with)].after # Gone
               PROVE  answer["account"].mint = input.with[Len(input.with)].after.mint
    BY DEF MintKnown
  <2>1. input.with \in Histories /\ answer = BlockPrices(HistoryBlock(input.with)).map
    BY Zenon DEF BlockDataInv, InputOf, Computed, Gives, Answered
  <2> QED
    BY <2>1, HistoryRight
<1> QED
  BY <1>1, BlockDataRight, PTL

(* In every transaction whose log is read, a trade before the first one    *)
(* the decoder passes over is decoded with its own event                   *)
(* (DecodePumpInstruction).                                                *)
THEOREM TradesInStep == Spec => []OwnEventInStep
<1>1. BlockDataInv => OwnEventInStep
  <2> SUFFICES ASSUME BlockDataInv, Answered("trades"),
                      ~input.with.failed, ~input.with.unlogged, ~input.with.garbled,
                      NEW i \in DOMAIN input.with.trades,
                      InStep(input.with, i), i <= input.with.logged
               PROVE  \E t \in Decoded : t.from = i /\ t.event.trade = i
    BY DEF OwnEventInStep
  <2> DEFINE tx == input.with
             trades == DecodeTx(tx)
  <2>1. tx \in TradeTxs /\ answer = TradeMap(trades)
    BY Zenon DEF BlockDataInv, InputOf, Computed, Gives, Answered
  <2>2. trades \in Seq(TradeType(tx)) /\ i <= Len(trades) /\ trades[i].from = i
        /\ \A m \in 1..Len(trades) : trades[m].event.trade = m
    BY <2>1, TradesRight
  <2>3. i \in 1..Len(trades)
    <3>1. i \in 1..Len(tx.trades)
      BY <2>1, InputAssumption, ListType
    <3> QED
      BY <2>2, <3>1
  <2>4. trades[i].event.trade = i
    BY <2>2, <2>3
  <2>5. \E p \in DOMAIN answer : \E j \in DOMAIN answer[p] : answer[p][j] = trades[i]
    <3> HIDE DEF trades
    <3> QED
      BY <2>1, <2>2, <2>3, PairTrades
  <2>6. trades[i] \in Decoded
    <3> HIDE DEF trades
    <3> QED
      BY <2>5 DEF Decoded
  <2> QED
    BY <2>2, <2>4, <2>6
<1> QED
  BY <1>1, BlockDataRight, PTL

(* No event of any transaction is counted for two trades, and the trades   *)
(* of a pair keep the order of the chain (DecodePumpInstruction,           *)
(* ProcessBlock).                                                          *)
THEOREM NoEventTwice == Spec => []EventUsedOnce
<1>1. BlockDataInv => EventUsedOnce
  <2> SUFFICES ASSUME BlockDataInv, Answered("trades")
               PROVE  /\ \A s, t \in Decoded : s.event.trade = t.event.trade => s.from = t.from
                      /\ \A p \in DOMAIN answer : \A i, j \in DOMAIN answer[p] :
                           i < j => answer[p][i].event.trade < answer[p][j].event.trade
    BY DEF EventUsedOnce
  <2> DEFINE tx == input.with
             trades == DecodeTx(tx)
  <2>1. tx \in TradeTxs /\ answer = TradeMap(trades)
    BY Zenon DEF BlockDataInv, InputOf, Computed, Gives, Answered
  <2>2. trades \in Seq(TradeType(tx)) /\ \A m \in 1..Len(trades) : trades[m].event.trade = m
    BY <2>1, TradesRight
  <2> HIDE DEF trades
  <2>3. ASSUME NEW p \in DOMAIN answer
        PROVE  \E f : /\ f \in [DOMAIN answer[p] -> 1..Len(trades)]
                      /\ \A i \in DOMAIN answer[p] : answer[p][i] = trades[f[i]]
                      /\ \A i, j \in DOMAIN answer[p] : i < j => f[i] < f[j]
    BY <2>1, <2>2, PairTrades
  <2>4. \A t \in Decoded : \E m \in 1..Len(trades) : t = trades[m]
    <3> SUFFICES ASSUME NEW p \in DOMAIN answer, NEW i \in DOMAIN answer[p]
                 PROVE  \E m \in 1..Len(trades) : answer[p][i] = trades[m]
      BY DEF Decoded
    <3> QED
      BY <2>3
  <2>5. ASSUME NEW s \in Decoded, NEW t \in Decoded, s.event.trade = t.event.trade
        PROVE  s.from = t.from
    BY <2>2, <2>4, <2>5
  <2>6. ASSUME NEW p \in DOMAIN answer, NEW i \in DOMAIN answer[p], NEW j \in DOMAIN answer[p],
               i < j
        PROVE  answer[p][i].event.trade < answer[p][j].event.trade
    <3>1. PICK f : /\ f \in [DOMAIN answer[p] -> 1..Len(trades)]
                   /\ \A m \in DOMAIN answer[p] : answer[p][m] = trades[f[m]]
                   /\ \A m, q \in DOMAIN answer[p] : m < q => f[m] < f[q]
      BY <2>3
    <3>2. f[i] \in 1..Len(trades) /\ f[j] \in 1..Len(trades) /\ f[i] < f[j]
      BY <2>6, <3>1
    <3> QED
      BY <2>2, <3>1, <3>2
  <2> QED
    BY <2>5, <2>6
<1> QED
  BY <1>1, BlockDataRight, PTL
=============================================================================

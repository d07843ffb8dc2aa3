-------------------------- MODULE CalculationsProofs --------------------------
(***************************************************************************)
(* Proofs about pairs, orders and positions: the pair answered for a token *)
(* is the deepest, whatever rows there are; an order never costs more than *)
(* its budget and the wallet, whatever the amounts and fees, and takes     *)
(* what the bonding curve gives less the slippage; the sides of a position *)
(* match, whatever order the mints were given in, and its ticks are those  *)
(* of the prices.                                                          *)
(***************************************************************************)
EXTENDS Calculations, TLAPS

(* Facts of arithmetic that the fees rest on.                              *)
LEMMA DivBelow ==
  ASSUME NEW a \in Nat, NEW b \in Nat, b > 0
  PROVE  a \div b \in Nat /\ (a \div b) * b <= a
BY SMT

LEMMA ModBelow ==
  ASSUME NEW a \in Nat, NEW b \in Nat, b > 0
  PROVE  a % b \in Nat /\ a % b <= a
BY SMT

LEMMA DivMonotone ==
  ASSUME NEW a \in Nat, NEW b \in Nat, NEW q \in Nat, b > 0, a < (q + 1) * b
  PROVE  a \div b <= q
BY SMT

-----------------------------------------------------------------------------
(* Fees.                                                                   *)

(* What the chain charges at the price computed for a budget fits it.      *)
LEMMA ChargedFits ==
  ASSUME NEW gasFee \in Nat, NEW cu \in Nat, cu > 0, gasFee >= GasPerSignature
  PROVE  /\ GasPrice(gasFee, cu) \in Nat
         /\ Charged(GasPrice(gasFee, cu), cu) \in Nat
         /\ Charged(GasPrice(gasFee, cu), cu) <= gasFee
<1> DEFINE g == gasFee - GasPerSignature
           budget == (g * Micro) % Width
           price == budget \div cu
           used == price * cu + Micro - 1
<1>1. g \in Nat /\ Micro \in Nat /\ Micro > 0 /\ Width \in Nat /\ Width > 0
      /\ GasPerSignature \in Nat
  BY SwapAssumption
<1>2. g * Micro \in Nat
  BY <1>1
<1>3. budget \in Nat /\ budget <= g * Micro
  BY <1>1, <1>2, ModBelow
<1>4. price \in Nat /\ price * cu <= budget
  BY <1>3, DivBelow
<1>5. used \in Nat /\ used < (g + 1) * Micro
  <2>1. price * cu \in Nat
    BY <1>4
  <2>2. (g + 1) * Micro = g * Micro + Micro
    BY <1>1
  <2> HIDE DEF price, budget, g
  <2> QED
    BY <2>1, <2>2, <1>1, <1>2, <1>3, <1>4
<1>6. used \div Micro \in Nat /\ used \div Micro <= g
  BY <1>1, <1>5, DivMonotone, DivBelow
<1>7. GasPrice(gasFee, cu) = price
  BY DEF GasPrice
<1>8. Charged(GasPrice(gasFee, cu), cu) = GasPerSignature + used \div Micro
  BY <1>7 DEF Charged
<1>9. GasPerSignature + used \div Micro <= gasFee
  <2> HIDE DEF used
  <2> QED  BY <1>1, <1>6
<1> QED
  BY <1>1, <1>4, <1>6, <1>7, <1>8, <1>9

(* Without a unit price only the signature is charged.                     *)
LEMMA UnpricedFits ==
  ASSUME NEW cu \in Nat
  PROVE  Charged(0, cu) = GasPerSignature
<1>1. Micro \in Nat /\ Micro > 0 /\ GasPerSignature \in Nat
  BY SwapAssumption
<1>2. Micro - 1 < 1 * Micro /\ Micro - 1 \in Nat
  BY <1>1
<1>3. (Micro - 1) \div Micro = 0
  BY <1>1, <1>2, DivBelow, DivMonotone
<1>4. 0 * cu + Micro - 1 = Micro - 1
  BY <1>1
<1> QED
  BY <1>1, <1>3, <1>4 DEF Charged

-----------------------------------------------------------------------------
(* Instructions.                                                           *)

Ops == {"unit price", "unit limit", "create input account", "create output account",
        "create token account", "transfer", "sync native", "close input account",
        "buy", "sell"}

(* What is used of an instruction of the order: its unit price is the one  *)
(* computed, and only a buy transfers.                                     *)
Fitting(in) ==
  {ix \in [op : Ops, amount : Nat] \cup [op : Ops, amount : Nat, min : {MinOut(in)}] :
     /\ ix.op = "unit price" => ix.amount = GasPrice(in.gasFee, in.cu)
     /\ ix.op = "transfer" => in.side = "buy"}

(* Short sequences, in a form the provers can use.                         *)
LEMMA ShortSeq ==
  ASSUME NEW S, NEW x \in S, NEW y \in S
  PROVE  <<>> \in Seq(S) /\ <<x>> \in Seq(S) /\ <<x, y>> \in Seq(S)
OBVIOUS

LEMMA OrderTypes ==
  ASSUME NEW in \in Orders
  PROVE  /\ in.amount \in Nat /\ in.balance \in Nat /\ in.gasFee \in Nat
         /\ in.cu \in Nat /\ in.cu > 0 /\ in.rent \in Nat
         /\ in.gasFee >= GasPerSignature
         /\ in.pool \in Pools /\ in.side \in {"buy", "sell"}
BY InputAssumption

LEMMA IxFitting ==
  ASSUME NEW in, NEW op \in Ops, NEW n \in Nat,
         op = "unit price" => n = GasPrice(in.gasFee, in.cu),
         op = "transfer" => in.side = "buy"
  PROVE  Ix(op, n) \in Fitting(in)
<1>1. Ix(op, n) \in [op : Ops, amount : Nat]
  BY DEF Ix
<1>2. Ix(op, n).op = op /\ Ix(op, n).amount = n
  BY DEF Ix
<1> QED
  BY <1>1, <1>2 DEF Fitting

LEMMA GasFitting ==
  ASSUME NEW in \in Orders
  PROVE  CreateGasAndJitoByGasFee(in.gasFee, in.cu) \in Seq(Fitting(in))
<1>1. GasPrice(in.gasFee, in.cu) \in Nat /\ in.cu \in Nat
  BY OrderTypes, ChargedFits
<1>2. Ix("unit price", GasPrice(in.gasFee, in.cu)) \in Fitting(in)
  BY <1>1, IxFitting DEF Ops
<1>3. Ix("unit limit", in.cu) \in Fitting(in)
  BY <1>1, IxFitting DEF Ops
<1> QED
  BY <1>2, <1>3, ShortSeq DEF CreateGasAndJitoByGasFee

LEMMA DexFitting ==
  ASSUME NEW in \in Orders
  PROVE  DexInstructions(in) \in Seq(Fitting(in))
<1>1. Ix("create input account", 0) \in Fitting(in)
      /\ Ix("create output account", 0) \in Fitting(in)
      /\ Ix("sync native", 0) \in Fitting(in)
      /\ Ix("close input account", 0) \in Fitting(in)
  BY IxFitting DEF Ops
<1>2. in.side = "buy" => Ix("transfer", in.amount) \in Fitting(in)
  BY OrderTypes, IxFitting DEF Ops
<1> DEFINE gas == CreateGasAndJitoByGasFee(in.gasFee, in.cu)
           paid == IF in.side = "buy"
                   THEN <<Ix("transfer", in.amount), Ix("sync native", 0)>> ELSE <<>>
           closed == IF in.side = "buy" THEN <<Ix("close input account", 0)>> ELSE <<>>
           input1 == <<Ix("create input account", 0)>>
           output1 == <<Ix("create output account", 0), Ix("create output account", 0)>>
<1>3. paid \in Seq(Fitting(in)) /\ closed \in Seq(Fitting(in))
  BY <1>1, <1>2, ShortSeq
<1>4. input1 \in Seq(Fitting(in)) /\ output1 \in Seq(Fitting(in))
  BY <1>1, ShortSeq
<1>5. gas \in Seq(Fitting(in))
  BY GasFitting
<1>6. DexInstructions(in) = gas \o input1 \o paid \o output1 \o closed
  BY DEF DexInstructions
<1> HIDE DEF gas, paid, closed, input1, output1
<1> QED
  BY <1>3, <1>4, <1>5, <1>6

LEMMA PumpFitting ==
  ASSUME NEW in \in Orders, CreateMarketOrder4Pumpfun(in).err = "nil"
  PROVE  CreateMarketOrder4Pumpfun(in).ixs \in Seq(Fitting(in))
<1> DEFINE gas == CreateGasAndJitoByGasFee(in.gasFee, in.cu)
           create == <<Ix("create token account", 0)>>
           trade == <<[op |-> in.side, amount |-> in.amount, min |-> MinOut(in)]>>
<1>1. gas \in Seq(Fitting(in))
  BY GasFitting
<1>2. create \in Seq(Fitting(in))
  <2>1. Ix("create token account", 0) \in Fitting(in)
    BY IxFitting DEF Ops
  <2> QED
    BY <2>1, ShortSeq
<1>3. trade \in Seq(Fitting(in))
  <2> DEFINE ix == [op |-> in.side, amount |-> in.amount, min |-> MinOut(in)]
  <2>1. in.side \in Ops /\ in.side # "unit price" /\ in.side # "transfer"
        /\ in.amount \in Nat
    BY OrderTypes DEF Ops
  <2>2. ix \in [op : Ops, amount : Nat, min : {MinOut(in)}]
    BY <2>1
  <2>3. ix.op = in.side
    OBVIOUS
  <2>4. ix \in Fitting(in)
    <3> HIDE DEF ix
    <3> QED
      BY <2>1, <2>2, <2>3 DEF Fitting
  <2> QED
    BY <2>4, ShortSeq
<1>4. CreateMarketOrder4Pumpfun(in).ixs = gas \o create \o trade
  BY DEF CreateMarketOrder4Pumpfun, Built, Refused
<1> HIDE DEF gas, create, trade
<1> QED
  BY <1>1, <1>2, <1>3, <1>4

(* Fitting instructions are charged within the budget.                     *)
LEMMA FittingFits ==
  ASSUME NEW in \in Orders, NEW ixs \in Seq(Fitting(in))
  PROVE  /\ Charged(UnitPrice(ixs), in.cu) \in Nat
         /\ Charged(UnitPrice(ixs), in.cu) <= in.gasFee
<1>1. UnitPrice(ixs) \in {0, GasPrice(in.gasFee, in.cu)}
  <2>1. CASE \E i \in DOMAIN ixs : ixs[i].op = "unit price"
    <3> DEFINE all == {ixs[i] : i \in DOMAIN ixs}
               ix == CHOOSE x \in all : x.op = "unit price"
    <3>1. \E x \in all : x.op = "unit price"
      BY <2>1
    <3>2. ix \in all /\ ix.op = "unit price"
      BY <3>1
    <3>3. all \subseteq Fitting(in)
      OBVIOUS
    <3>4. ix.amount = GasPrice(in.gasFee, in.cu)
      BY <3>2, <3>3 DEF Fitting
    <3>5. UnitPrice(ixs) = ix.amount
      BY <2>1 DEF UnitPrice
    <3> QED
      BY <3>4, <3>5
  <2>2. CASE ~(\E i \in DOMAIN ixs : ixs[i].op = "unit price")
    BY <2>2 DEF UnitPrice
  <2> QED
    BY <2>1, <2>2
<1>2. Charged(0, in.cu) \in Nat /\ Charged(0, in.cu) <= in.gasFee
  BY OrderTypes, UnpricedFits, SwapAssumption
<1> QED
  BY <1>1, <1>2, OrderTypes, ChargedFits

(* Only the two builders make a transaction.                               *)
LEMMA BuiltFitting ==
  ASSUME NEW in \in Orders, BuildUnsignedTransaction(in).err = "nil"
  PROVE  /\ BuildUnsignedTransaction(in).ixs \in Seq(Fitting(in))
         /\ in.pool # "PumpFun" =>
              /\ BuildUnsignedTransaction(in).ixs = DexInstructions(in)
              /\ LamportCost(in) <= in.balance
<1>1. CASE in.pool = "PumpFun"
  <2>1. BuildUnsignedTransaction(in) = CreateMarketOrder4Pumpfun(in)
    BY <1>1 DEF BuildUnsignedTransaction
  <2> QED
    BY <1>1, <2>1, PumpFitting
<1>2. CASE in.pool \in {"RaydiumV4", "RaydiumConcentratedLiquidity", "RaydiumCPMM"}
  <2>1. BuildUnsignedTransaction(in) = CreateMarketOrderDex(in)
    BY <1>2 DEF BuildUnsignedTransaction
  <2>2. /\ CreateMarketOrderDex(in) = Built(DexInstructions(in))
        /\ LamportCost(in) <= in.balance
    <3>1. CreateMarketOrderDex(in).err = "nil"
      BY <2>1
    <3>2. /\ Refused("SolBalanceNotEnough").err # "nil"
          /\ Refused("SolGasNotEnough").err # "nil"
          /\ Refused("not support").err # "nil"
      BY DEF Refused
    <3>3. LamportCost(in) \in Int /\ in.balance \in Int
      BY OrderTypes, DivBelow DEF LamportCost, ServiceFee
    <3>4. ~(in.side = "buy" /\ in.balance < in.amount) /\ ~(LamportCost(in) > in.balance)
      BY <3>1, <3>2 DEF CreateMarketOrderDex
    <3>5. CreateMarketOrderDex(in) = Built(DexInstructions(in))
      BY <3>1, <3>2, <3>4 DEF CreateMarketOrderDex
    <3> QED
      BY <3>3, <3>4, <3>5
  <2>3. BuildUnsignedTransaction(in).ixs = DexInstructions(in)
    BY <2>1, <2>2 DEF Built
  <2> QED
    BY <2>2, <2>3, DexFitting
<1>3. CASE in.pool \notin {"PumpFun", "RaydiumV4", "RaydiumConcentratedLiquidity", "RaydiumCPMM"}
  <2>1. BuildUnsignedTransaction(in) = Refused("no instructions")
    BY <1>3 DEF BuildUnsignedTransaction
  <2>2. Refused("no instructions").err # "nil"
    BY DEF Refused
  <2> QED
    BY <2>1, <2>2
<1> QED
  BY <1>1, <1>2, <1>3

(* The check of the wallet covers what the instructions take.              *)
LEMMA SpendingCovered ==
  ASSUME NEW in \in Orders, BuildUnsignedTransaction(in).err = "nil", in.pool # "PumpFun"
  PROVE  Spending(in, BuildUnsignedTransaction(in).ixs) <= in.balance
<1> DEFINE ixs == BuildUnsignedTransaction(in).ixs
           charged == Charged(UnitPrice(ixs), in.cu)
           fee == ServiceFee(in.amount)
<1>1. ixs \in Seq(Fitting(in)) /\ LamportCost(in) <= in.balance
  BY BuiltFitting
<1>2. charged \in Nat /\ charged <= in.gasFee
  BY <1>1, FittingFits
<1>3. Has(ixs, "transfer") => in.side = "buy"
  <2>1. \A i \in DOMAIN ixs : ixs[i] \in Fitting(in)
    <3> HIDE DEF ixs
    <3> QED  BY <1>1
  <2> HIDE DEF ixs
  <2> QED
    BY <2>1 DEF Has, Fitting
<1>4. fee \in Nat
  BY OrderTypes, DivBelow DEF ServiceFee
<1>5. LamportCost(in) = 2 * in.rent + in.gasFee
                          + (IF in.side = "buy" THEN fee + in.amount ELSE 0)
  BY DEF LamportCost
<1>6. Spending(in, ixs) = charged
                            + (IF Has(ixs, "create input account") THEN in.rent ELSE 0)
                            + (IF Has(ixs, "create output account") THEN in.rent ELSE 0)
                            + (IF Has(ixs, "transfer") THEN in.amount ELSE 0)
  BY DEF Spending
<1>7. /\ in.rent \in Nat /\ in.amount \in Nat /\ in.gasFee \in Nat /\ in.balance \in Nat
  BY OrderTypes
<1>8. Spending(in, ixs) <= in.balance
  <2> DEFINE first == IF Has(ixs, "create input account") THEN in.rent ELSE 0
             second == IF Has(ixs, "create output account") THEN in.rent ELSE 0
             moved == IF Has(ixs, "transfer") THEN in.amount ELSE 0
             bought == IF in.side = "buy" THEN fee + in.amount ELSE 0
  <2>1. first \in Nat /\ first <= in.rent /\ second \in Nat /\ second <= in.rent
    <3>1. first \in {0, in.rent} /\ second \in {0, in.rent}
      <4> HIDE DEF ixs
      <4> QED
        OBVIOUS
    <3> HIDE DEF first, second
    <3> QED
      BY <3>1, <1>7
  <2>2. moved \in Nat /\ bought \in Nat /\ moved <= bought
    <3> HIDE DEF fee, ixs
    <3> QED
      BY <1>3, <1>4, <1>7
  <2> HIDE DEF charged, fee, ixs, first, second, moved, bought
  <2>3. Spending(in, ixs) = charged + first + second + moved
    BY <1>6 DEF first, second, moved
  <2>4. 2 * in.rent + in.gasFee + bought <= in.balance
    BY <1>1, <1>5 DEF bought
  <2> QED
    BY <1>2, <1>7, <2>1, <2>2, <2>3, <2>4
<1> QED
  BY <1>8

-----------------------------------------------------------------------------
(* The pair of a token.                                                    *)

(* No pair was found, as a predicate of its own: the provers need not look *)
(* into the record.                                                        *)
Missing(p) == p = Empty

LEMMA EmptyFields == Empty.liquidity = 0 /\ Empty.name = "" /\ NotFound.name = ""
BY DEF Empty, NotFound

LEMMA NoPair ==
  ASSUME NEW p
  PROVE  Missing(p) => p.liquidity = 0 /\ p.name = ""
BY EmptyFields, Zenon DEF Missing

LEMMA LookupDeepest ==
  ASSUME NEW rows, rows \subseteq PairRows, NEW pair \in FindOneByChainIdTokenAddress(rows)
  PROVE  \/ Missing(pair) /\ \A r \in Eligible(rows) : r.liquidity = 0
         \/ pair \in Eligible(rows) /\ \A r \in Eligible(rows) : r.liquidity <= pair.liquidity
<1> DEFINE cats == Categories(rows)
<1>1. \A r \in rows : r.liquidity \in Nat
  BY DEF PairRows
<1>2. PICK f \in [cats -> rows \cup {Empty}] :
        /\ \A c \in cats : f[c] \in Deepest(InCategory(rows, c))
        /\ pair \in (IF \E c \in cats : cats = {c} THEN {f[c] : c \in cats}
                     ELSE Deepest({r \in {f[c] : c \in cats} : Competes(r)}))
  BY DEF FindOneByChainIdTokenAddress
<1> DEFINE found == {r \in {f[c] : c \in cats} : Competes(r)}
<1>3. \A c \in cats :
        \/ /\ f[c] \in rows /\ f[c].name = c /\ f[c].liquidity > 0
           /\ \A r \in rows : r.name = c => r.liquidity <= f[c].liquidity
        \/ Missing(f[c]) /\ \A r \in rows : r.name = c => r.liquidity = 0
  BY <1>2 DEF Deepest, InCategory, Missing
<1>c. \A c \in cats : Missing(f[c]) => f[c].liquidity = 0
  BY NoPair
<1>4. \A r \in Eligible(rows) : r \in rows /\ r.name # "" /\ r.name \in cats
  BY DEF Eligible, Categories
<1>5. "" \notin cats
  BY DEF Categories
<1>a. \A s : s \in found <=> Competes(s) /\ \E c \in cats : s = f[c]
  BY DEF found
<1>b. cats = Categories(rows)
  OBVIOUS
<1> HIDE DEF cats, found
<1>6. CASE \E c \in cats : cats = {c}
  <2>1. PICK c \in cats : cats = {c}
    BY <1>6
  <2>2. pair = f[c]
    BY <1>2, <2>1
  <2>3. \A r \in Eligible(rows) : r \in rows /\ r.name = c
    BY <1>4, <2>1
  <2>4. CASE Missing(f[c]) /\ \A r \in rows : r.name = c => r.liquidity = 0
    BY <2>2, <2>3, <2>4
  <2>5. CASE /\ f[c] \in rows /\ f[c].name = c
             /\ \A r \in rows : r.name = c => r.liquidity <= f[c].liquidity
    <3>1. f[c] \in Eligible(rows)
      BY <2>1, <2>5, <1>5, <1>b DEF Eligible
    <3> QED
      BY <2>2, <2>3, <2>5, <3>1
  <2> QED
    BY <1>3, <2>4, <2>5
<1>7. CASE ~(\E c \in cats : cats = {c})
  <2>1. pair \in Deepest(found)
    BY <1>2, <1>7 DEF found
  <2>2. \A r \in Eligible(rows) : r \in rows /\ r.name \in cats
    BY <1>4
  <2>3. \A r \in Eligible(rows) : Competes(r)
    BY <1>4, <1>7, <1>b DEF Eligible, Competes
  <2>4. \A r \in Eligible(rows), s \in rows : s.name = r.name => Competes(s)
    BY <2>3 DEF Competes
  <2>5. CASE Missing(pair) /\ \A s \in found : s.liquidity = 0
    <3>1. SUFFICES ASSUME NEW r \in Eligible(rows)
                   PROVE  r.liquidity = 0
      BY <2>5
    <3>2. CASE Missing(f[r.name])
      BY <1>3, <2>2, <3>2, <1>c
    <3>3. CASE ~Missing(f[r.name])
      <4>1. /\ f[r.name] \in rows /\ f[r.name].name = r.name /\ f[r.name].liquidity > 0
            /\ f[r.name].liquidity \in Nat
        BY <1>1, <1>3, <2>2, <3>3
      <4>2. f[r.name] \in found
        BY <1>a, <2>2, <2>4, <4>1
      <4> QED
        BY <2>5, <4>1, <4>2
    <3> QED
      BY <3>2, <3>3
  <2>6. CASE pair \in found /\ pair.liquidity > 0 /\ \A s \in found : s.liquidity <= pair.liquidity
    <3>1. PICK c \in cats : pair = f[c] /\ Competes(f[c])
      BY <1>a, <2>6
    <3>2. pair \in rows /\ pair.name = c
      BY <1>3, <2>6, <3>1, <1>c
    <3>3. pair \in Eligible(rows)
      BY <1>5, <3>1, <3>2 DEF Eligible, Competes
    <3>4. ASSUME NEW r \in Eligible(rows)
          PROVE  r.liquidity <= pair.liquidity
      <4>1. CASE Missing(f[r.name])
        <5>1. r.liquidity = 0
          BY <1>3, <2>2, <4>1, <1>c
        <5>2. pair.liquidity \in Nat
          BY <1>1, <3>2
        <5> QED
          BY <5>1, <5>2
      <4>2. CASE ~Missing(f[r.name])
        <5>1. /\ f[r.name] \in rows /\ f[r.name].name = r.name
              /\ r.liquidity <= f[r.name].liquidity
          BY <1>3, <2>2, <4>2
        <5>2. f[r.name] \in found
          BY <1>a, <2>2, <2>4, <5>1
        <5>3. f[r.name].liquidity <= pair.liquidity
          BY <2>6, <5>2
        <5> QED
          BY <1>1, <2>2, <3>2, <5>1, <5>3
      <4> QED
        BY <4>1, <4>2
    <3> QED
      BY <3>3, <3>4
  <2>7. \A s \in found : s.liquidity \in Nat
    <3>1. \A c \in cats : f[c].liquidity \in Nat
      BY <1>1, <1>3, <1>c
    <3> QED
      BY <1>a, <3>1
  <2> QED
    BY <2>1, <2>5, <2>6, <2>7 DEF Deepest, Missing
<1> QED
  BY <1>6, <1>7

-----------------------------------------------------------------------------
(* The specification.                                                      *)

InputInv ==
  /\ input.call = "pair" => input.with \in RowSets
  /\ input.call = "transaction" => input.with \in Orders

AnswerInv == InputInv /\ LookupIsDeepest /\ GasWithinBudget /\ DexAffordable

LEMMA InitAnswer == Init => AnswerInv
<1> SUFFICES ASSUME Init
             PROVE  AnswerInv
  OBVIOUS
<1>1. InputInv
  <2>1. ASSUME \E rows \in RowSets : Asked("pair", rows) PROVE InputInv
    BY <2>1 DEF Asked, InputInv
  <2>2. ASSUME \E o \in Orders : Asked("transaction", o) PROVE InputInv
    BY <2>2 DEF Asked, InputInv
  <2>3. ASSUME NEW what \in {"swap price", "block prices", "average", "account map", "trades",
                            "position"},
               NEW with, Asked(what, with)
        PROVE  InputInv
    <3>1. input.call = what
      BY <2>3 DEF Asked
    <3>2. input.call # "pair" /\ input.call # "transaction"
      BY <3>1
    <3> QED
      BY <3>2 DEF InputInv
  <2>4. \/ \E rows \in RowSets : Asked("pair", rows)
        \/ \E o \in Orders : Asked("transaction", o)
        \/ \E what \in {"swap price", "block prices", "average", "account map", "trades",
                       "position"} :
             \E with : Asked(what, with)
    BY Zenon DEF Init
  <2> QED
    BY <2>1, <2>2, <2>3, <2>4, Zenon
<1>2. ~Answered("pair") /\ ~Answered("transaction")
  BY DEF Init, Answered
<1> QED
  BY <1>1, <1>2 DEF AnswerInv, LookupIsDeepest, GasWithinBudget, DexAffordable

LEMMA NextAnswer == AnswerInv /\ [Next]_vars => AnswerInv'
<1> SUFFICES ASSUME AnswerInv, [Next]_vars
             PROVE  AnswerInv'
  OBVIOUS
<1>1. CASE UNCHANGED vars
  BY <1>1 DEF vars, AnswerInv, InputInv, LookupIsDeepest, GasWithinBudget, DexAffordable,
              Answered, answer
<1>2. CASE SwapPrice \/ Prices \/ Average \/ AccountMap \/ DecodeTrades \/ AddLiquidity
  <2>1. input.call # "pair" /\ input.call # "transaction" /\ UNCHANGED input
    BY <1>2 DEF SwapPrice, Prices, Average, AccountMap, DecodeTrades, AddLiquidity, Answer
  <2>2. ~Answered("pair")' /\ ~Answered("transaction")'
    BY <2>1 DEF Answered
  <2>3. InputInv'
    BY <2>1 DEF AnswerInv, InputInv
  <2> QED
    BY <2>2, <2>3 DEF AnswerInv, LookupIsDeepest, GasWithinBudget, DexAffordable
<1>3. CASE LookUpPair
  <2>1. input.call = "pair" /\ UNCHANGED input /\ input.with \in RowSets
    BY <1>3 DEF LookUpPair, Answer, AnswerInv, InputInv
  <2>2. PICK chain \in {"sol", "other"} :
          \E p \in GetPairInfoByToken(chain, input.with) :
            Answer("pair", [chain |-> chain, pair |-> p])
    BY <1>3 DEF LookUpPair
  <2>3. PICK p \in GetPairInfoByToken(chain, input.with) :
          Answer("pair", [chain |-> chain, pair |-> p])
    BY <2>2
  <2>4. answer'.chain = chain /\ answer'.pair = p
    BY <2>3 DEF Answer, answer
  <2>5. LookupIsDeepest'
    <3>1. SUFFICES ASSUME chain = "sol"
                   PROVE  LET rows == Eligible(input.with) IN
                          IF p = NotFound THEN \A r \in rows : r.liquidity = 0
                          ELSE p \in rows /\ \A r \in rows : r.liquidity <= p.liquidity
      BY <2>1, <2>4 DEF LookupIsDeepest
    <3>2. CASE input.with = {}
      BY <3>1, <3>2 DEF GetPairInfoByToken, Eligible
    <3>3. CASE input.with # {}
      <4>1. PICK q \in FindOneByChainIdTokenAddress(input.with) :
              p = IF q = Empty THEN NotFound ELSE q
        BY <3>1, <3>3 DEF GetPairInfoByToken
      <4>2. \/ Missing(q) /\ \A r \in Eligible(input.with) : r.liquidity = 0
            \/ /\ q \in Eligible(input.with)
               /\ \A r \in Eligible(input.with) : r.liquidity <= q.liquidity
        BY <2>1, InputAssumption, LookupDeepest
      <4>3. \A r \in Eligible(input.with) : r # NotFound /\ ~Missing(r)
        BY EmptyFields, NoPair, Zenon DEF Eligible
      <4>4. p = IF Missing(q) THEN NotFound ELSE q
        BY <4>1, Zenon DEF Missing
      <4> QED
        BY <4>2, <4>3, <4>4
    <3> QED
      BY <3>2, <3>3
  <2>6. InputInv' /\ ~Answered("transaction")'
    BY <2>1 DEF AnswerInv, InputInv, Answered
  <2> QED
    BY <2>5, <2>6 DEF AnswerInv, GasWithinBudget, DexAffordable
<1>4. CASE BuildOrder
  <2>1. /\ input.call = "transaction" /\ UNCHANGED input /\ input.with \in Orders
        /\ answer' = BuildUnsignedTransaction(input.with)
    BY <1>4 DEF BuildOrder, Answer, AnswerInv, InputInv, answer
  <2>2. GasWithinBudget'
    <3>1. SUFFICES ASSUME BuildUnsignedTransaction(input.with).err = "nil"
                   PROVE  Charged(UnitPrice(BuildUnsignedTransaction(input.with).ixs),
                                  input.with.cu) <= input.with.gasFee
      BY <2>1 DEF GasWithinBudget
    <3> QED
      BY <2>1, <3>1, BuiltFitting, FittingFits
  <2>3. DexAffordable'
    <3>1. SUFFICES ASSUME BuildUnsignedTransaction(input.with).err = "nil",
                          input.with.pool # "PumpFun"
                   PROVE  Spending(input.with, BuildUnsignedTransaction(input.with).ixs)
                            <= input.with.balance
      BY <2>1 DEF DexAffordable
    <3> QED
      BY <2>1, <3>1, SpendingCovered
  <2>4. InputInv' /\ ~Answered("pair")'
    BY <2>1 DEF AnswerInv, InputInv, Answered
  <2> QED
    BY <2>2, <2>3, <2>4 DEF AnswerInv, LookupIsDeepest
<1> QED
  BY <1>1, <1>2, <1>3, <1>4 DEF Next

(* Every answer of the three calls is as their properties say.             *)
THEOREM AnswersRight == Spec => []AnswerInv
  BY InitAnswer, NextAnswer, PTL DEF Spec

(* For every set of rows the market service answers the pair with the most *)
(* liquidity that may answer (FindOneByChainIdTokenAddress).               *)
THEOREM DeepestAnswered == Spec => []LookupIsDeepest
<1>1. AnswerInv => LookupIsDeepest
  BY DEF AnswerInv
<1> QED
  BY <1>1, AnswersRight, PTL

(* For every gas budget, limit of compute units and width of a word the    *)
(* fees of the chain stay within the budget (CreateGasAndJitoByGasFee).    *)
THEOREM BudgetKept == Spec => []GasWithinBudget
<1>1. AnswerInv => GasWithinBudget
  BY DEF AnswerInv
<1> QED
  BY <1>1, AnswersRight, PTL

(* For every amount, balance, rent and budget the transaction built for an *)
(* exchange is one the wallet can pay (CreateMarketOrderDex).              *)
THEOREM WalletSuffices == Spec => []DexAffordable
<1>1. AnswerInv => DexAffordable
  BY DEF AnswerInv
<1> QED
  BY <1>1, AnswersRight, PTL

-----------------------------------------------------------------------------
(* The bonding curve.                                                      *)

(* Products of naturals, in the forms the quotients need.                  *)
LEMMA ProductNat ==
  ASSUME NEW a \in Nat, NEW b \in Nat
  PROVE  a * b \in Nat
BY SMT

LEMMA ProductMonotone ==
  ASSUME NEW a \in Nat, NEW b \in Nat, NEW c \in Nat, a <= b
  PROVE  a * c <= b * c
BY SMT

LEMMA DivAbove ==
  ASSUME NEW a \in Nat, NEW b \in Nat, b > 0
  PROVE  a < (a \div b + 1) * b
BY SMT

-----------------------------------------------------------------------------
(* The curve: the new reserve r of the side taken from is the quotient of  *)
(* the product, so y - r is the least output that keeps the product.       *)

LEMMA QuoteRoundedUp ==
  ASSUME NEW x \in Nat, NEW y \in Nat, NEW added \in Nat, x > 0
  PROVE  LET q == CurveQuote(x, y, added)
             Gives(n) == n * (x + added) >= y * added
         IN q \in 0..y /\ Gives(q) /\ (q = 0 \/ ~Gives(q - 1))
<1> DEFINE d == x + added
           r == (x * y) \div d
           q == y - r
<1>1. d \in Nat /\ d > 0 /\ x * y \in Nat /\ y * added \in Nat /\ y * d \in Nat
  BY ProductNat
<1>2. r \in Nat /\ r * d <= x * y /\ x * y < (r + 1) * d
  BY <1>1, DivBelow, DivAbove
<1>3. y * d = x * y + y * added
  OBVIOUS
<1>4. CurveQuote(x, y, added) = q
  BY DEF CurveQuote, NewReserve
<1>5. r <= y
  <2> SUFFICES ASSUME r > y
               PROVE  FALSE
    BY <1>2
  <2>1. (y + 1) * d <= r * d
    BY <1>1, <1>2, ProductMonotone
  <2>2. (y + 1) * d = y * d + d
    BY <1>1
  <2> HIDE DEF d, r
  <2> QED
    BY <1>1, <1>2, <1>3, <2>1, <2>2
<1>6. q \in 0..y
  <2> HIDE DEF d, r
  <2> QED
    BY <1>2, <1>5
<1>7. q * d >= y * added
  <2>1. q * d = y * d - r * d
    <3> HIDE DEF d, r
    <3> QED
      BY <1>1, <1>2
  <2>2. r * d \in Nat
    BY <1>1, <1>2, ProductNat
  <2> HIDE DEF d, r, q
  <2> QED
    BY <1>1, <1>2, <1>3, <2>1, <2>2
<1>8. ~((q - 1) * d >= y * added)
  <2>1. (q - 1) * d = y * d - (r + 1) * d
    <3> HIDE DEF d, r
    <3> QED
      BY <1>1, <1>2
  <2>2. (r + 1) * d \in Nat
    BY <1>1, <1>2, ProductNat
  <2> HIDE DEF d, r, q
  <2> QED
    BY <1>1, <1>2, <1>3, <2>1, <2>2
<1> QED
  BY <1>4, <1>6, <1>7, <1>8

(* The slippage takes its share and the rounding less than two units.      *)
LEMMA SlippageTaken ==
  ASSUME NEW q \in Nat, NEW s \in 0..AllBp, NEW error \in {0, 1}
  PROVE  LET min == Slipped(q, s, error)
         IN /\ min * AllBp <= q * (AllBp - s)
            /\ (min + 2) * AllBp > q * (AllBp - s)
<1> DEFINE kept == q * (AllBp - s)
           exact == kept \div AllBp
           min == Slipped(q, s, error)
<1>1. AllBp \in Nat /\ AllBp > 0 /\ AllBp - s \in Nat
  BY SwapAssumption
<1>2. kept \in Nat
  BY <1>1, ProductNat
<1>3. exact \in Nat /\ exact * AllBp <= kept /\ kept < (exact + 1) * AllBp
  BY <1>1, <1>2, DivBelow, DivAbove
<1>4. min \in Nat /\ min <= exact /\ exact + 1 <= min + 2
  <2>1. min = IF error > exact THEN 0 ELSE exact - error
    BY DEF Slipped
  <2> HIDE DEF min, exact
  <2> QED
    BY <1>3, <2>1
<1>5. min * AllBp <= exact * AllBp
  BY <1>1, <1>3, <1>4, ProductMonotone
<1>6. (exact + 1) * AllBp <= (min + 2) * AllBp
  BY <1>1, <1>3, <1>4, ProductMonotone
<1> HIDE DEF exact, kept, min
<1>7. min * AllBp \in Nat /\ exact * AllBp \in Nat /\ (exact + 1) * AllBp \in Nat
      /\ (min + 2) * AllBp \in Nat
  BY <1>1, <1>3, <1>4, ProductNat
<1>8. min * AllBp <= kept /\ (min + 2) * AllBp > kept
  BY <1>2, <1>3, <1>5, <1>6, <1>7
<1> QED
  BY <1>8 DEF kept, min

-----------------------------------------------------------------------------
(* The transaction.                                                        *)

(* The last instruction of an order on PumpFun is the trade.               *)
LEMMA TradeIsLast ==
  ASSUME NEW in \in Orders, in.pool = "PumpFun", BuildUnsignedTransaction(in).err = "nil"
  PROVE  LET ixs == BuildUnsignedTransaction(in).ixs
         IN ixs[Len(ixs)].min = MinOut(in)
<1> DEFINE start == CreateGasAndJitoByGasFee(in.gasFee, in.cu)
                      \o <<Ix("create token account", 0)>>
           trade == [op |-> in.side, amount |-> in.amount, min |-> MinOut(in)]
           ixs == BuildUnsignedTransaction(in).ixs
<1>1. BuildUnsignedTransaction(in) = CreateMarketOrder4Pumpfun(in)
  BY DEF BuildUnsignedTransaction
<1>2. ixs = start \o <<trade>>
  <2>1. CreateMarketOrder4Pumpfun(in) \in
          {Refused("SolBalanceNotEnough"), Refused("SolGasNotEnough"),
           Refused("nothing to buy"), Built(start \o <<trade>>)}
    BY Zenon DEF CreateMarketOrder4Pumpfun
  <2>2. /\ Refused("SolBalanceNotEnough").err # "nil"
        /\ Refused("SolGasNotEnough").err # "nil"
        /\ Refused("nothing to buy").err # "nil"
    BY DEF Refused
  <2>3. Built(start \o <<trade>>).ixs = start \o <<trade>>
    BY Zenon DEF Built
  <2> HIDE DEF start, trade
  <2> QED
    BY <1>1, <2>1, <2>2, <2>3, Zenon DEF ixs
<1>3. start \in Seq(Fitting(in))
  <2>1. Ix("create token account", 0) \in Fitting(in)
    BY IxFitting DEF Ops
  <2>2. <<Ix("create token account", 0)>> \in Seq(Fitting(in))
    BY <2>1, ShortSeq
  <2>3. CreateGasAndJitoByGasFee(in.gasFee, in.cu) \in Seq(Fitting(in))
    BY GasFitting
  <2> DEFINE gas == CreateGasAndJitoByGasFee(in.gasFee, in.cu)
             create == <<Ix("create token account", 0)>>
  <2>4. gas \in Seq(Fitting(in)) /\ create \in Seq(Fitting(in))
    BY <2>2, <2>3
  <2> HIDE DEF gas, create
  <2>5. gas \o create \in Seq(Fitting(in))
    BY <2>4
  <2> QED
    BY <2>5, Zenon DEF gas, create
<1>4. Len(start \o <<trade>>) = Len(start) + 1
      /\ (start \o <<trade>>)[Len(start) + 1] = trade
  <2> HIDE DEF start, trade
  <2> QED
    BY <1>3
<1>5. trade.min = MinOut(in)
  OBVIOUS
<1> HIDE DEF start, trade, ixs
<1>6. ixs[Len(ixs)].min = MinOut(in)
  BY <1>2, <1>4, <1>5
<1> QED
  BY <1>6 DEF ixs

LEMMA MinimumOfCurve ==
  ASSUME NEW in \in Orders, in.price.num = 0
  PROVE  LET x == IF in.side = "buy" THEN in.curve.sol ELSE in.curve.token
             y == IF in.side = "buy" THEN in.curve.token ELSE in.curve.sol
             Gives(q) == q * (x + in.amount) >= y * in.amount
         IN \E q \in 0..y :
              /\ Gives(q) /\ (q = 0 \/ ~Gives(q - 1))
              /\ MinOut(in) * AllBp <= q * (AllBp - in.slippage)
              /\ (MinOut(in) + 2) * AllBp > q * (AllBp - in.slippage)
<1> DEFINE x == IF in.side = "buy" THEN in.curve.sol ELSE in.curve.token
           y == IF in.side = "buy" THEN in.curve.token ELSE in.curve.sol
           q == CurveQuote(x, y, in.amount)
           Gives(n) == n * (x + in.amount) >= y * in.amount
<1>1. x \in Nat /\ x > 0 /\ y \in Nat /\ in.amount \in Nat
      /\ in.slippage \in 0..AllBp /\ in.error \in {0, 1}
  BY InputAssumption
<1>2. q \in 0..y /\ Gives(q) /\ (q = 0 \/ ~Gives(q - 1))
  <2> HIDE DEF x, y
  <2> QED
    BY <1>1, QuoteRoundedUp
<1>3. MinOut(in) = Slipped(q, in.slippage, in.error)
  BY DEF MinOut
<1>4. q \in Nat
  <2> HIDE DEF x, y, q
  <2> QED
    BY <1>1, <1>2
<1>5. /\ MinOut(in) * AllBp <= q * (AllBp - in.slippage)
      /\ (MinOut(in) + 2) * AllBp > q * (AllBp - in.slippage)
  <2> HIDE DEF q
  <2> QED
    BY <1>1, <1>3, <1>4, SlippageTaken
<1> HIDE DEF q
<1> QED
  BY <1>2, <1>5

LEMMA InitCurve == Init => CurveMinimum
<1>1. Init => ~Answered("transaction")
  BY DEF Init, Answered
<1> QED
  BY <1>1 DEF CurveMinimum

LEMMA NextCurve == AnswerInv /\ CurveMinimum /\ [Next]_vars => CurveMinimum'
<1> SUFFICES ASSUME AnswerInv, CurveMinimum, [Next]_vars
             PROVE  CurveMinimum'
  OBVIOUS
<1>1. CASE UNCHANGED vars
  BY <1>1 DEF vars, CurveMinimum, Answered, answer
<1>2. CASE SwapPrice \/ Prices \/ Average \/ AccountMap \/ DecodeTrades \/ LookUpPair
           \/ AddLiquidity
  <2>1. input.call # "transaction" /\ UNCHANGED input
    BY <1>2 DEF SwapPrice, Prices, Average, AccountMap, DecodeTrades, LookUpPair,
                AddLiquidity, Answer
  <2>2. ~Answered("transaction")'
    BY <2>1 DEF Answered
  <2> QED
    BY <2>2 DEF CurveMinimum
<1>3. CASE BuildOrder
  <2>1. /\ UNCHANGED input /\ input.with \in Orders
        /\ answer' = BuildUnsignedTransaction(input.with)
    BY <1>3 DEF BuildOrder, Answer, AnswerInv, InputInv, answer
  <2> DEFINE in == input.with
             ixs == BuildUnsignedTransaction(in).ixs
  <2>2. SUFFICES ASSUME BuildUnsignedTransaction(in).err = "nil",
                        in.pool = "PumpFun", in.price.num = 0
                 PROVE  CurveMinimum'
    BY <2>1 DEF CurveMinimum
  <2>3. ixs[Len(ixs)].min = MinOut(in)
    BY <2>1, <2>2, TradeIsLast
  <2>4. answer'.ixs = ixs /\ input'.with = in
    BY <2>1
  <2>5. answer'.ixs[Len(answer'.ixs)].min = MinOut(in)
    BY <2>3, <2>4
  <2> HIDE DEF ixs
  <2> QED
    BY <2>1, <2>2, <2>5, MinimumOfCurve DEF CurveMinimum
<1> QED
  BY <1>1, <1>2, <1>3 DEF Next

(* For every reserve, amount, slippage and direction of rounding, the      *)
(* least output of an order priced by the curve is the curve's own, less   *)
(* the slippage (CreateMarketOrder4Pumpfun).                               *)
THEOREM CurveRespected == Spec => []CurveMinimum
  BY InitCurve, NextCurve, AnswersRight, PTL DEF Spec

-----------------------------------------------------------------------------
(* Ticks.                                                                  *)

(* Go's quotient is the whole part: it moves towards zero by less than 1.  *)
LEMMA QuotientBounds ==
  ASSUME NEW a \in Int, NEW b \in Nat, b > 0
  PROVE  /\ Quotient(a, b) \in Int
         /\ a >= 0 => Quotient(a, b) * b <= a /\ a < (Quotient(a, b) + 1) * b
         /\ a < 0 => a <= Quotient(a, b) * b /\ (Quotient(a, b) - 1) * b < a
BY SMT DEF Quotient

LEMMA Multiple ==
  ASSUME NEW k \in Int, NEW b \in Nat, b > 0
  PROVE  (k * b) % b = 0
BY SMT

LEMMA Product ==
  ASSUME NEW a \in Int, NEW b \in Int, NEW c \in Nat, a <= b
  PROVE  a * c <= b * c
BY SMT

(* Rounding to a multiple goes down, for negative ticks as well.           *)
LEMMA SpacedBelow ==
  ASSUME NEW tick \in Int, NEW spacing \in Nat, spacing > 0
  PROVE  LET t == TickWithSpacing(tick, spacing) IN
         t \in Int /\ t % spacing = 0 /\ t <= tick /\ tick < t + spacing
<1> DEFINE q == Quotient(tick, spacing)
           k == q - (IF tick < 0 /\ q * spacing # tick THEN 1 ELSE 0)
<1>1. q \in Int /\ k \in Int
  BY QuotientBounds
<1>2. (q + 1) * spacing = q * spacing + spacing /\ (q - 1) * spacing = q * spacing - spacing
  BY <1>1
<1>3. k * spacing \in Int /\ k * spacing <= tick /\ tick < k * spacing + spacing
  <2>1. CASE tick >= 0
    BY <1>1, <1>2, <2>1, QuotientBounds
  <2>2. CASE tick < 0 /\ q * spacing = tick
    BY <1>1, <1>2, <2>2
  <2>3. CASE tick < 0 /\ q * spacing # tick
    <3>1. k = q - 1
      BY <1>1, <2>3
    <3>2. tick <= q * spacing /\ (q - 1) * spacing < tick
      BY <2>3, QuotientBounds
    <3>3. q * spacing \in Int
      BY <1>1
    <3>4. k * spacing = q * spacing - spacing
      BY <3>1, <1>2
    <3> HIDE DEF q, k
    <3> QED
      BY <1>2, <2>3, <3>2, <3>3, <3>4
  <2> QED
    BY <2>1, <2>2, <2>3
<1>4. (k * spacing) % spacing = 0
  BY <1>1, Multiple
<1>5. TickWithSpacing(tick, spacing) = k * spacing
  BY DEF TickWithSpacing
<1> QED
  BY <1>3, <1>4, <1>5

LEMMA StartBelow ==
  ASSUME NEW tick \in Int, NEW spacing \in Nat, spacing > 0
  PROVE  LET start == GetTickArrayStartIndexByTick(tick, spacing)
             size == spacing * ArraySize
         IN start % size = 0 /\ start <= tick /\ tick < start + size
<1>1. spacing * ArraySize \in Nat /\ spacing * ArraySize > 0
  BY PoolAssumption
<1>2. GetTickArrayStartIndexByTick(tick, spacing)
        = TickWithSpacing(tick, spacing * ArraySize)
  BY DEF GetTickArrayStartIndexByTick, TickWithSpacing
<1> QED
  BY <1>1, <1>2, SpacedBelow

LEMMA PriceBounds ==
  ASSUME NEW price \in DOMAIN Log
  PROVE  LET tick == PriceToTick(price) IN
         /\ tick \in Int
         /\ (tick - 1) * Fraction < Log[price]
         /\ Log[price] < (tick + 1) * Fraction
<1> DEFINE tick == PriceToTick(price)
<1>1. Log[price] \in Int /\ Fraction \in Nat /\ Fraction > 0
  BY PoolAssumption
<1>2. tick = Quotient(Log[price], Fraction)
  BY DEF PriceToTick
<1>3. tick \in Int
  BY <1>1, <1>2, QuotientBounds
<1>4. (tick + 1) * Fraction = tick * Fraction + Fraction
      /\ (tick - 1) * Fraction = tick * Fraction - Fraction
      /\ tick * Fraction \in Int
  BY <1>1, <1>3
<1>5. CASE Log[price] >= 0
  BY <1>1, <1>2, <1>3, <1>4, <1>5, QuotientBounds
<1>6. CASE Log[price] < 0
  BY <1>1, <1>2, <1>3, <1>4, <1>6, QuotientBounds
<1> QED
  BY <1>1, <1>3, <1>5, <1>6

(* The tick of a price, aligned, is within a tick and a spacing of it.     *)
LEMMA AlignedBounds ==
  ASSUME NEW price \in DOMAIN Log, NEW spacing \in Nat, spacing > 0
  PROVE  LET t == TickWithSpacing(PriceToTick(price), spacing) IN
         /\ t \in Int /\ t % spacing = 0
         /\ (t - 1) * Fraction < Log[price]
         /\ Log[price] < (t + spacing) * Fraction
<1> DEFINE tick == PriceToTick(price)
           t == TickWithSpacing(tick, spacing)
<1>1. /\ tick \in Int
      /\ (tick - 1) * Fraction < Log[price]
      /\ Log[price] < (tick + 1) * Fraction
  BY PriceBounds
<1>2. t \in Int /\ t % spacing = 0 /\ t <= tick /\ tick < t + spacing
  BY <1>1, SpacedBelow
<1>3. Fraction \in Nat /\ Log[price] \in Int
  BY PoolAssumption
<1> HIDE DEF tick, t
<1>4. t - 1 \in Int /\ tick - 1 \in Int /\ tick + 1 \in Int /\ t + spacing \in Int
      /\ t - 1 <= tick - 1 /\ tick + 1 <= t + spacing
  BY <1>1, <1>2
<1>5. (t - 1) * Fraction <= (tick - 1) * Fraction
      /\ (tick + 1) * Fraction <= (t + spacing) * Fraction
  BY <1>3, <1>4, Product
<1>6. (t - 1) * Fraction \in Int /\ (tick - 1) * Fraction \in Int
      /\ (tick + 1) * Fraction \in Int /\ (t + spacing) * Fraction \in Int
  BY <1>3, <1>4
<1>7. (t - 1) * Fraction < Log[price] /\ Log[price] < (t + spacing) * Fraction
  <2> DEFINE a == (t - 1) * Fraction
             b == (tick - 1) * Fraction
             c == (tick + 1) * Fraction
             d == (t + spacing) * Fraction
             l == Log[price]
  <2>1. a \in Int /\ b \in Int /\ c \in Int /\ d \in Int /\ l \in Int
        /\ a <= b /\ b < l /\ l < c /\ c <= d
    BY <1>1, <1>3, <1>5, <1>6
  <2> HIDE DEF a, b, c, d, l
  <2>2. a < l /\ l < d
    BY <2>1
  <2> QED
    BY <2>2 DEF a, d, l
<1> QED
  BY <1>2, <1>7 DEF t, tick

-----------------------------------------------------------------------------
(* Sides.                                                                  *)

LEMMA PositionTypes ==
  ASSUME NEW in \in Positions
  PROVE  /\ \A i \in 1..2 : in.create[i] \in Nat /\ in.ask[i] \in Nat
         /\ in.create[1] # in.create[2] /\ in.ask[1] # in.ask[2]
         /\ in.create = <<in.create[1], in.create[2]>> /\ in.ask = <<in.ask[1], in.ask[2]>>
         /\ \A i \in 1..2 : in.prices[i] \in DOMAIN Log
         /\ in.spacing \in Nat /\ in.spacing > 0 /\ in.balance \in Nat
BY InputAssumption

LEMMA UnitsNat ==
  ASSUME NEW in \in Positions
  PROVE  Units(in.base) \in Nat /\ Units(in.other) \in Nat
<1>1. /\ in.base.num \in Nat /\ in.base.den \in Nat /\ in.base.den > 0
      /\ in.other.num \in Nat /\ in.other.den \in Nat /\ in.other.den > 0
      /\ TenTo9 \in Nat
  BY InputAssumption, PoolAssumption
<1>2. in.base.num * TenTo9 \in Nat /\ in.other.num * TenTo9 \in Nat
  BY <1>1
<1> QED
  BY <1>1, <1>2 DEF Units

(* The pool of a request, its sides in order, and the amounts for them.    *)
Mints(in) == Sorted(in.create[1], in.create[2])
Vaults(in) == FindRaydiumPoolPDAs(Mints(in), AmmConfig(in.tier)).vaults
Wrapped(in) == WrapAmount(Mints(in), MaxAmounts(in, Mints(in)))
Opened(in) ==
  BuildOpenPositionInstruction(Mints(in), UserTokens(in.ask), Vaults(in),
    FindTickArrays(in.prices, in.spacing), MaxAmounts(in, Mints(in)))
Named(in) == Sorted(in.ask[1], in.ask[2]) = Mints(in)

LEMMA MintsOrdered ==
  ASSUME NEW in \in Positions
  PROVE  /\ Mints(in)[1] \in Nat /\ Mints(in)[2] \in Nat /\ Mints(in)[1] < Mints(in)[2]
         /\ Mints(in) = <<Mints(in)[1], Mints(in)[2]>>
BY PositionTypes DEF Mints, Sorted

(* A transaction that is built wraps SOL, if at all, and opens the         *)
(* position; the wallet holds what is wrapped.                             *)
LEMMA BuiltPosition ==
  ASSUME NEW in \in Positions, BuildUnsignedAddLiquidityTransaction(in).err = "nil"
  PROVE  /\ BuildUnsignedAddLiquidityTransaction(in).wrapping
              = WsolInstructions(in, Wrapped(in))
         /\ BuildUnsignedAddLiquidityTransaction(in).position = Opened(in)
         /\ ~(in.balance < Wrapped(in))
<1> DEFINE pool == GetPoolVaultsByPoolStateAddr(in)
           built == [err |-> "nil", wrapping |-> WsolInstructions(in, Wrapped(in)),
                     position |-> Opened(in)]
<1>1. pool.mints = Mints(in) /\ pool.vaults = Vaults(in) /\ pool.spacing = in.spacing
  BY DEF GetPoolVaultsByPoolStateAddr, CreatePool, Mints, Vaults
<1>2. Ordered(pool.mints) = <<1, 2>>
  BY <1>1, MintsOrdered DEF Ordered
<1>3. [i \in 1..2 |-> pool.mints[Ordered(pool.mints)[i]]] = Mints(in)
  BY <1>1, <1>2, MintsOrdered
<1>4. [i \in 1..2 |-> pool.vaults[Ordered(pool.mints)[i]]] = Vaults(in)
  BY <1>1, <1>2 DEF Vaults, FindRaydiumPoolPDAs
<1>5. CreateAddLiquidityInstructions(in)
        = IF in.fails = "pool" THEN Refused("pool")
          ELSE IF in.fails = "balance" THEN Refused("balance")
          ELSE IF in.balance < Wrapped(in) THEN Refused("insufficient SOL balance")
          ELSE built
  BY <1>1, <1>3, <1>4, Zenon DEF CreateAddLiquidityInstructions, Wrapped, Opened
<1>6. \A why \in {"pool", "balance", "insufficient SOL balance", "blockhash", "lookup table"} :
        Refused(why).err = why
  BY DEF Refused
<1>7. /\ built.wrapping = WsolInstructions(in, Wrapped(in))
      /\ built.position = Opened(in)
  OBVIOUS
<1> HIDE DEF built
<1> QED
  BY <1>5, <1>6, <1>7 DEF BuildUnsignedAddLiquidityTransaction

LEMMA SidesMatch ==
  ASSUME NEW in \in Positions, Named(in), NEW i \in 1..2
  PROVE  /\ UserTokens(in.ask)[i] = Mints(in)[i]
         /\ Vaults(in)[i].mint = Mints(in)[i]
         /\ MaxAmounts(in, Mints(in))[i] = AmountOf(in, Mints(in)[i])
<1>1. UserTokens(in.ask) = Mints(in)
  BY PositionTypes DEF UserTokens, Named, Sorted
<1>2. Vaults(in)[i].mint = Mints(in)[i]
  BY DEF Vaults, FindRaydiumPoolPDAs
<1>3. Mints(in)[1] < Mints(in)[2] /\ UserTokens(in.ask)[1] = Mints(in)[1]
  BY <1>1, MintsOrdered
<1>4. MaxAmounts(in, Mints(in))
        = IF in.ask[1] < in.ask[2] THEN <<Units(in.base), Units(in.other)>>
          ELSE <<Units(in.other), Units(in.base)>>
  BY <1>3 DEF MaxAmounts
<1>5. MaxAmounts(in, Mints(in))[i] = AmountOf(in, Mints(in)[i])
  <2>1. CASE in.ask[1] < in.ask[2]
    <3>1. Mints(in)[1] = in.ask[1] /\ Mints(in)[2] = in.ask[2] /\ in.ask[1] # in.ask[2]
      BY <1>1, <2>1, PositionTypes DEF UserTokens
    <3> QED
      BY <1>4, <2>1, <3>1 DEF AmountOf
  <2>2. CASE ~(in.ask[1] < in.ask[2])
    <3>1. Mints(in)[1] = in.ask[2] /\ Mints(in)[2] = in.ask[1] /\ in.ask[1] # in.ask[2]
      BY <1>1, <2>2, PositionTypes DEF UserTokens
    <3> QED
      BY <1>4, <2>2, <3>1 DEF AmountOf
  <2> QED
    BY <2>1, <2>2
<1> QED
  BY <1>1, <1>2, <1>5

(* What is wrapped is the SOL side of the request.                         *)
LEMMA WrappedSide ==
  ASSUME NEW in \in Positions, Named(in)
  PROVE  /\ Wrapped(in) \in Nat
         /\ Wrapped(in) = IF WrappedSol \in {in.ask[1], in.ask[2]}
                          THEN AmountOf(in, WrappedSol) ELSE 0
<1>1. {Mints(in)[1], Mints(in)[2]} = {in.ask[1], in.ask[2]}
  BY PositionTypes DEF Named, Sorted
<1>2. /\ MaxAmounts(in, Mints(in))[1] = AmountOf(in, Mints(in)[1])
      /\ MaxAmounts(in, Mints(in))[2] = AmountOf(in, Mints(in)[2])
  BY SidesMatch
<1>3. \A mint : AmountOf(in, mint) \in Nat
  BY UnitsNat DEF AmountOf
<1> QED
  BY <1>1, <1>2, <1>3 DEF Wrapped, WrapAmount

(* What wraps SOL, before the account is known to be there.                *)
Wrapping(in, amount, ixs) ==
  LET transfers == {i \in DOMAIN ixs : ixs[i].op = "transfer"} IN
  IF amount = 0 THEN ixs = <<>>
  ELSE \E i \in transfers :
         /\ transfers = {i} /\ ixs[i].amount = amount
         /\ in.account = "missing" => \E j \in 1..(i - 1) : ixs[j].op = "create account"

LEMMA IxFields ==
  \A op, n : Ix(op, n).op = op
BY DEF Ix

LEMMA IxAmount ==
  ASSUME NEW op, NEW n \in Nat
  PROVE  Ix(op, n).amount = n
BY DEF Ix

LEMMA WrappingRight ==
  ASSUME NEW in, NEW amount \in Nat
  PROVE  Wrapping(in, amount, WsolInstructions(in, amount))
<1> DEFINE ixs == WsolInstructions(in, amount)
           transfers == {i \in DOMAIN ixs : ixs[i].op = "transfer"}
<1>1. CASE amount = 0
  BY <1>1 DEF Wrapping, WsolInstructions
<1>2. CASE amount # 0 /\ in.account = "there"
  <2>1. /\ DOMAIN ixs = {1, 2}
        /\ ixs[1] = Ix("transfer", amount) /\ ixs[2] = Ix("sync native", 0)
    BY <1>2 DEF WsolInstructions
  <2> HIDE DEF ixs
  <2>2. ixs[1].op = "transfer" /\ ixs[1].amount = amount
    <3>1. ixs[1].op = "transfer"
      BY <2>1, IxFields
    <3>2. Ix("transfer", amount).amount = amount
      BY IxAmount
    <3>3. ixs[1].amount = amount
      BY <2>1, <3>2, Zenon
    <3> QED
      BY <3>1, <3>3
  <2>3. ixs[2].op = "sync native"
    BY <2>1, IxFields
  <2>4. transfers = {1}
    BY <2>1, <2>2, <2>3
  <2> QED
    BY <1>2, <2>2, <2>4 DEF Wrapping, ixs
<1>3. CASE amount # 0 /\ in.account # "there"
  <2>1. /\ DOMAIN ixs = {1, 2, 3}
        /\ ixs[1] = Ix("create account", 0) /\ ixs[2] = Ix("transfer", amount)
        /\ ixs[3] = Ix("sync native", 0)
    BY <1>3 DEF WsolInstructions
  <2> HIDE DEF ixs
  <2>2. ixs[2].op = "transfer" /\ ixs[2].amount = amount
    <3>1. ixs[2].op = "transfer"
      BY <2>1, IxFields
    <3>2. Ix("transfer", amount).amount = amount
      BY IxAmount
    <3>3. ixs[2].amount = amount
      BY <2>1, <3>2, Zenon
    <3> QED
      BY <3>1, <3>3
  <2>3. ixs[1].op = "create account" /\ ixs[3].op = "sync native"
    BY <2>1, IxFields
  <2>4. transfers = {2}
    BY <2>1, <2>2, <2>3
  <2>5. 1 \in 1..(2 - 1)
    OBVIOUS
  <2> QED
    BY <1>3, <2>2, <2>3, <2>4, <2>5 DEF Wrapping, ixs
<1> QED
  BY <1>1, <1>2, <1>3

-----------------------------------------------------------------------------
(* The specification.                                                      *)

PositionInv ==
  /\ input.call = "position" => input.with \in Positions
  /\ PositionSides /\ SolWrapped /\ TicksInArrays

LEMMA InitPosition == Init => PositionInv
<1> SUFFICES ASSUME Init
             PROVE  PositionInv
  OBVIOUS
<1>1. ~Answered("position")
  BY DEF Init, Answered
<1>2. input.call = "position" => input.with \in Positions
  <2>1. ASSUME \E o \in Positions : Asked("position", o)
        PROVE  input.call = "position" => input.with \in Positions
    BY <2>1 DEF Asked
  <2>2. ASSUME NEW what \in {"swap price", "block prices", "average", "account map", "trades",
                            "pair", "transaction"},
               NEW with, Asked(what, with)
        PROVE  input.call # "position"
    <3>1. input.call = what
      BY <2>2 DEF Asked
    <3> QED
      BY <3>1
  <2>3. \/ \E o \in Positions : Asked("position", o)
        \/ \E what \in {"swap price", "block prices", "average", "account map", "trades",
                       "pair", "transaction"} :
             \E with : Asked(what, with)
    BY Zenon DEF Init
  <2> QED
    BY <2>1, <2>2, <2>3, Zenon
<1> QED
  BY <1>1, <1>2 DEF PositionInv, PositionSides, SolWrapped, TicksInArrays, Positioned

LEMMA NextPosition == PositionInv /\ [Next]_vars => PositionInv'
<1> SUFFICES ASSUME PositionInv, [Next]_vars
             PROVE  PositionInv'
  OBVIOUS
<1>1. CASE UNCHANGED vars
  BY <1>1 DEF vars, PositionInv, PositionSides, SolWrapped, TicksInArrays, Positioned,
              Answered, answer
<1>2. CASE \/ SwapPrice \/ Prices \/ Average \/ AccountMap \/ DecodeTrades
           \/ LookUpPair \/ BuildOrder
  <2>1. input.call # "position" /\ UNCHANGED input
    BY <1>2 DEF SwapPrice, Prices, Average, AccountMap, DecodeTrades, LookUpPair, BuildOrder,
                Answer
  <2>2. ~Answered("position")'
    BY <2>1 DEF Answered
  <2> QED
    BY <2>1, <2>2 DEF PositionInv, PositionSides, SolWrapped, TicksInArrays, Positioned
<1>3. CASE AddLiquidity
  <2> DEFINE in == input.with
             built == BuildUnsignedAddLiquidityTransaction(in)
  <2>1. /\ input.call = "position" /\ UNCHANGED input /\ in \in Positions
        /\ answer' = built
    BY <1>3 DEF AddLiquidity, Answer, PositionInv, answer
  <2>2. CASE built.err # "nil"
    BY <2>1, <2>2 DEF PositionInv, PositionSides, SolWrapped, TicksInArrays, Positioned
  <2>3. CASE built.err = "nil"
    <3>1. /\ answer'.wrapping = WsolInstructions(in, Wrapped(in))
          /\ answer'.position = Opened(in)
          /\ ~(in.balance < Wrapped(in)) /\ in.balance \in Nat
      BY <2>1, <2>3, BuiltPosition, PositionTypes
    <3>2. ASSUME Positioned' PROVE Named(in)
      BY <2>1, <3>2 DEF Positioned, Named, Mints
    <3>3. PositionSides'
      <4>1. /\ Opened(in).pool = Mints(in) /\ Opened(in).users = UserTokens(in.ask)
            /\ Opened(in).vaults = Vaults(in) /\ Opened(in).max = MaxAmounts(in, Mints(in))
        BY DEF Opened, BuildOpenPositionInstruction
      <4> QED
        BY <2>1, <3>1, <3>2, <4>1, SidesMatch DEF PositionSides
    <3>4. SolWrapped'
      <4>1. SUFFICES ASSUME Named(in)
                     PROVE  /\ Wrapping(in, Wrapped(in), WsolInstructions(in, Wrapped(in)))
                            /\ Wrapped(in) <= in.balance
                            /\ Wrapped(in) = IF WrappedSol \in {in.ask[1], in.ask[2]}
                                             THEN AmountOf(in, WrappedSol) ELSE 0
        BY <2>1, <3>1, <3>2 DEF SolWrapped, Wrapping
      <4> QED
        BY <2>1, <3>1, <4>1, WrappedSide, WrappingRight
    <3>5. TicksInArrays'
      <4>1. /\ Opened(in).arrays.ticks
                 = [i \in 1..2 |-> TickWithSpacing(PriceToTick(in.prices[i]), in.spacing)]
            /\ Opened(in).arrays.starts
                 = [i \in 1..2 |-> GetTickArrayStartIndexByTick(
                                     Opened(in).arrays.ticks[i], in.spacing)]
        BY DEF Opened, BuildOpenPositionInstruction, FindTickArrays
      <4>2. ASSUME NEW i \in 1..2
            PROVE  LET tick == Opened(in).arrays.ticks[i]
                       start == Opened(in).arrays.starts[i]
                       size == in.spacing * ArraySize
                   IN /\ tick % in.spacing = 0
                      /\ (tick - 1) * Fraction < Log[in.prices[i]]
                      /\ Log[in.prices[i]] < (tick + in.spacing) * Fraction
                      /\ start % size = 0 /\ start <= tick /\ tick < start + size
        <5> DEFINE tick == TickWithSpacing(PriceToTick(in.prices[i]), in.spacing)
        <5>1. Opened(in).arrays.ticks[i] = tick
              /\ Opened(in).arrays.starts[i] = GetTickArrayStartIndexByTick(tick, in.spacing)
          BY <4>1
        <5>2. in.prices[i] \in DOMAIN Log /\ in.spacing \in Nat /\ in.spacing > 0
          BY <2>1, PositionTypes
        <5>3. /\ tick \in Int /\ tick % in.spacing = 0
              /\ (tick - 1) * Fraction < Log[in.prices[i]]
              /\ Log[in.prices[i]] < (tick + in.spacing) * Fraction
          BY <5>2, AlignedBounds
        <5> HIDE DEF tick
        <5> QED
          BY <5>1, <5>2, <5>3, StartBelow
      <4> QED
        BY <2>1, <3>1, <4>2 DEF TicksInArrays
    <3>6. (input.call = "position" => input.with \in Positions)'
      BY <2>1
    <3> QED
      BY <3>3, <3>4, <3>5, <3>6 DEF PositionInv
  <2> QED
    BY <2>2, <2>3
<1> QED
  BY <1>1, <1>2, <1>3 DEF Next

(* Every position is built as its properties say.                          *)
THEOREM PositionsRight == Spec => []PositionInv
  BY InitPosition, NextPosition, PTL DEF Spec

(* For every pair of mints, given in either order to the pool and to the   *)
(* position, account, vault and amount of a side are of one token          *)
(* (CreatePoolInstructions, CreateAddLiquidityInstructions).               *)
THEOREM SidesKept == Spec => []PositionSides
<1>1. PositionInv => PositionSides
  BY DEF PositionInv
<1> QED
  BY <1>1, PositionsRight, PTL

(* For every amount and balance just the SOL side is wrapped, and the      *)
(* wallet holds it (CreateAddLiquidityInstructions).                       *)
THEOREM WrapCovered == Spec => []SolWrapped
<1>1. PositionInv => SolWrapped
  BY DEF PositionInv
<1> QED
  BY <1>1, PositionsRight, PTL

(* For every spacing and every price, below 1 as well, the ticks are next  *)
(* to the prices and in their arrays (findTickArrays).                     *)
THEOREM TicksFit == Spec => []TicksInArrays
<1>1. PositionInv => TicksInArrays
  BY DEF PositionInv
<1> QED
  BY <1>1, PositionsRight, PTL
=============================================================================

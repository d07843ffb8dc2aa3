---------------------------- MODULE Calculations ----------------------------
(***************************************************************************)
(* The calculations the services make between their reads and their        *)
(* writes, each step one call: the price of a block, the trades of a       *)
(* transaction, the pair of a token, the transactions of an order and of a *)
(* position.  An input is one the chain, the database or a trader can      *)
(* produce.                                                                *)
(***************************************************************************)
EXTENDS Integers, Sequences, Lists, SolPrice, PumpTrades, MarketLookup, SwapTx, PoolTx

CONSTANTS
  Accounts,    \* token accounts of a block, with mint, owner, decimals, amount
  Calls,       \* inner instructions, call by call
  SwapBlocks,  \* transactions with swaps
  PriceLists,  \* prices found in a block
  Histories,   \* what happens to a token account in the transactions of a block
  TradeTxs,    \* transactions with PumpFun trades
  RowSets,     \* pair rows of a token
  Orders,      \* market orders, with wallet and pool
  Positions    \* requests for a position, with wallet and pool

(* A token account without a balance.                                      *)
Gone == [mint |-> "none"]

(* Liquidity is a sum of dollars; a gas type pays at least the signature.  *)
(* An order keeps at most all of its output as slippage, and a curve holds *)
(* some of both sides. A price of a position is positive and fits 32 bits. *)
(* No price of a block is above +Inf. The chain changes the mint of an     *)
(* account by initialising it again; what it swaps is between Accounts.    *)
ASSUME InputAssumption ==
  /\ \A ixs \in Calls : IsList(ixs)
  /\ \A tx \in SwapBlocks :
       /\ tx.pre = Accounts /\ DOMAIN tx.post \subseteq DOMAIN Accounts /\ tx.inits = <<>>
       /\ IsList(tx.outer) /\ IsList(tx.inner)
       /\ \A g \in DOMAIN tx.inner : IsList(tx.inner[g].ixs)
  /\ PriceLists \subseteq Seq(0..Infinite)
  /\ \A h \in Histories :
       /\ IsList(h) /\ h # <<>>
       /\ \A i \in DOMAIN h :
            /\ IsList(h[i].mints)
            /\ h[i].after # Gone =>
                 \/ /\ h[i].mints = <<>> /\ h[i].before # Gone
                    /\ h[i].after.mint = h[i].before.mint
                 \/ /\ h[i].mints # <<>>
                    /\ h[i].after.mint = h[i].mints[Len(h[i].mints)]
  /\ \A tx \in TradeTxs : IsList(tx.trades) /\ tx.logged \in Nat
  /\ \A rows \in RowSets : rows \subseteq PairRows
  /\ \A o \in Orders :
       /\ {o.amount, o.balance, o.gasFee, o.cu, o.rent} \subseteq Nat
       /\ o.cu > 0 /\ o.gasFee >= GasPerSignature
       /\ o.pool \in Pools /\ o.side \in {"buy", "sell"}
       /\ o.slippage \in 0..AllBp /\ o.error \in {0, 1}
       /\ {o.curve.sol, o.curve.token} \subseteq Nat \ {0}
  /\ \A o \in Positions :
       /\ \A pair \in {o.create, o.ask} :
            /\ pair \in Nat \X Nat
            /\ pair[1] # pair[2]
       /\ \A amount \in {o.base, o.other} : amount.num \in Nat /\ amount.den \in Nat \ {0}
       /\ {o.prices[1], o.prices[2]} \subseteq DOMAIN Log
       /\ o.spacing \in Nat \ {0} /\ o.balance \in Nat

VARIABLES
  input,    \* the call being answered
  output    \* its answer, once there is one

vars == <<input, output>>

Asked(what, with) == input = [call |-> what, with |-> with]
Init ==
  /\ output = <<>>
  /\ \/ \E ixs \in Calls : Asked("swap price", ixs)
     \/ \E tx \in SwapBlocks : Asked("block prices", tx)
     \/ \E nums \in PriceLists : Asked("average", nums)
     \/ \E h \in Histories : Asked("account map", h)
     \/ \E tx \in TradeTxs : Asked("trades", tx)
     \/ \E rows \in RowSets : Asked("pair", rows)
     \/ \E o \in Orders : Asked("transaction", o)
     \/ \E o \in Positions : Asked("position", o)

Answer(what, is) ==
  /\ input.call = what
  /\ output = <<>>
  /\ output' = <<is>>
  /\ UNCHANGED input

(* What a transaction does to one token account: it had a balance or none, *)
(* may be closed and initialised again, and has a balance or none.         *)
Balance(state) == [a \in {x \in {"account"} : state # Gone} |-> state]
HistoryTx(step) ==
  [pre |-> Balance(step.before), post |-> Balance(step.after),
   inits |-> [i \in DOMAIN step.mints |->
                [account |-> "account", mint |-> step.mints[i], owner |-> "owner"]],
   outer |-> <<>>, inner |-> <<>>]

NoAccounts == [a \in {} |-> Gone]
SwapPrice ==
  Answer("swap price",
         GetBlockSolPriceByTransfer(WithPre(NoAccounts, Accounts), input.with))
Prices == Answer("block prices", BlockPrices(<<input.with>>).prices)
Average == Answer("average", RemoveMinAndMaxAndCalculateAverage(input.with))
AccountMap ==
  Answer("account map",
         BlockPrices([i \in DOMAIN input.with |-> HistoryTx(input.with[i])]).map)
DecodeTrades == Answer("trades", TradeMap(DecodeTx(input.with)))
LookUpPair ==
  /\ input.call = "pair"
  /\ \E chain \in {"sol", "other"} :
       \E pair \in GetPairInfoByToken(chain, input.with) :
         Answer("pair", [chain |-> chain, pair |-> pair])
BuildOrder == Answer("transaction", BuildUnsignedTransaction(input.with))
AddLiquidity == Answer("position", BuildUnsignedAddLiquidityTransaction(input.with))

Next ==
  \/ SwapPrice
  \/ Prices
  \/ Average
  \/ AccountMap
  \/ DecodeTrades
  \/ LookUpPair
  \/ BuildOrder
  \/ AddLiquidity

Spec == Init /\ [][Next]_vars

Answered(what) == input.call = what /\ output # <<>>
answer == output[1]
-----------------------------------------------------------------------------
(* A swap is two transfers next to each other, one of SOL, one of a        *)
(* stablecoin, between accounts that trade with each other.                *)
IsSwap(ixs, i) ==
  LET map == WithPre(NoAccounts, Accounts)
      a == DecodeTokenTransfer(ixs[i])
      b == DecodeTokenTransfer(ixs[i + 1])
      mints == {map[a.from].mint, map[b.from].mint}
  IN /\ IsTransfer(ixs[i]) /\ IsTransfer(ixs[i + 1])
     /\ Known(map, a) /\ Known(map, b)
     /\ Sol \in mints /\ mints \cap Stables # {}
     /\ IsSwapTransfer(map, a, b)

SwapRatio(ixs, i) ==
  LET a == DecodeTokenTransfer(ixs[i])
      b == DecodeTokenTransfer(ixs[i + 1])
  IN IF Accounts[a.from].mint = Sol THEN Ratio(a.amount, b.amount)
     ELSE Ratio(b.amount, a.amount)

Swaps(ixs) == {i \in 1..(Len(ixs) - 1) : IsSwap(ixs, i)}

(* The price read off a list of inner instructions is that of its first    *)
(* swap, and there is none without a swap (GetBlockSolPriceByTransfer).    *)
PriceOfFirstSwap ==
  Answered("swap price") =>
    \/ Swaps(input.with) = {} /\ answer = 0
    \/ \E i \in Swaps(input.with) :
         /\ \A j \in Swaps(input.with) : i <= j
         /\ answer = SwapRatio(input.with, i)

(* Transfers of different calls never make a price: every price of a block *)
(* is that of a swap within one call (GetBlockSolPrice).                   *)
PriceWithinOneCall ==
  Answered("block prices") =>
    \A n \in DOMAIN answer :
      \E g \in DOMAIN input.with.inner :
        LET ixs == input.with.inner[g].ixs
        IN \E i \in Swaps(ixs) : answer[n] = SwapRatio(ixs, i)

(* From three prices on, no single one moves the average out of the range  *)
(* of the others, even +Inf (RemoveMinAndMaxAndCalculateAverage).          *)
OutlierHarmless ==
  Answered("average") /\ Len(input.with) >= 3 =>
    \A k \in DOMAIN input.with :
      LET others == DOMAIN input.with \ {k} IN
      /\ \E i \in others : input.with[i] * answer.count <= answer.sum
      /\ \E i \in others : answer.sum <= input.with[i] * answer.count

(* Trades and prices of a block see a token account with the mint it has   *)
(* on the chain, although one address may be closed and opened again for   *)
(* another mint within the block (FillTokenAccountMap).                    *)
MintKnown ==
  Answered("account map") =>
    LET end == input.with[Len(input.with)].after IN
    end # Gone => answer["account"].mint = end.mint

Decoded == UNION {{answer[p][i] : i \in DOMAIN answer[p]} : p \in DOMAIN answer}

(* Walking the instructions loses the count of the events at a trade       *)
(* called by another program or one without a token account.               *)
InStep(tx, i) ==
  \A j \in 1..i : tx.trades[j].level = "outer" /\ tx.trades[j].account = "known"

(* Until then every logged trade is decoded, and with its own event        *)
(* (DecodePumpInstruction).                                                *)
OwnEventInStep ==
  Answered("trades") /\ ~input.with.failed /\ ~input.with.unlogged /\ ~input.with.garbled =>
    \A i \in DOMAIN input.with.trades :
      InStep(input.with, i) /\ i <= input.with.logged =>
        \E t \in Decoded : t.from = i /\ t.event.trade = i

(* No event is counted for two trades, and the trades of a pair keep the   *)
(* order of the chain (DecodePumpInstruction, ProcessBlock).               *)
EventUsedOnce ==
  Answered("trades") =>
    /\ \A s, t \in Decoded : s.event.trade = t.event.trade => s.from = t.from
    /\ \A p \in DOMAIN answer : \A i, j \in DOMAIN answer[p] :
         i < j => answer[p][i].event.trade < answer[p][j].event.trade

(* Rows that may answer: PumpFun only for a token traded nowhere else.     *)
Eligible(rows) ==
  {r \in rows : /\ r.name # ""
                /\ r.name # "PumpFun" \/ Categories(rows) = {r.name}}

(* The pair answered for a token is as deep as any row that may answer,    *)
(* and there is an answer if one of these has liquidity                    *)
(* (FindOneByChainIdTokenAddress).                                         *)
LookupIsDeepest ==
  Answered("pair") /\ answer.chain = "sol" =>
    LET rows == Eligible(input.with) IN
    IF answer.pair = NotFound THEN \A r \in rows : r.liquidity = 0
    ELSE answer.pair \in rows /\ \A r \in rows : r.liquidity <= answer.pair.liquidity

UnitPrice(ixs) ==
  IF \E i \in DOMAIN ixs : ixs[i].op = "unit price"
  THEN (CHOOSE ix \in {ixs[i] : i \in DOMAIN ixs} : ix.op = "unit price").amount ELSE 0

(* The fees of the chain stay within the budget of the gas type            *)
(* (CreateGasAndJitoByGasFee).                                             *)
GasWithinBudget ==
  Answered("transaction") /\ answer.err = "nil" =>
    Charged(UnitPrice(answer.ixs), input.with.cu) <= input.with.gasFee

Has(ixs, op) == \E i \in DOMAIN ixs : ixs[i].op = op

(* What a transaction takes from the wallet if neither account exists.     *)
Spending(in, ixs) ==
  Charged(UnitPrice(ixs), in.cu)
    + (IF Has(ixs, "create input account") THEN in.rent ELSE 0)
    + (IF Has(ixs, "create output account") THEN in.rent ELSE 0)
    + (IF Has(ixs, "transfer") THEN in.amount ELSE 0)

(* A transaction built for an exchange never takes more than the wallet    *)
(* holds (CreateMarketOrderDex); for PumpFun this does not hold, its check *)
(* leaves the amount out.                                                  *)
DexAffordable ==
  Answered("transaction") /\ answer.err = "nil" /\ input.with.pool # "PumpFun" =>
    Spending(input.with, answer.ixs) <= input.with.balance

(* pump.go:96 counts the amount of a buy, the gas and the service fee in   *)
(* what the wallet must hold (CreateMarketOrder4Pumpfun).                  *)
PumpAffordable ==
  LET in == input.with IN
  Answered("transaction") /\ answer.err = "nil" /\ in.pool = "PumpFun" /\ in.side = "buy" =>
    in.amount + in.gasFee + ServiceFee(in.amount) <= in.balance

(* Without a price, the least output of an order on PumpFun is what the    *)
(* curve gives, rounded up, less the slippage, or one less                 *)
(* (BuildBuyInstruction, BuildSellInstruction).                            *)
CurveMinimum ==
  Answered("transaction") /\ answer.err = "nil"
    /\ input.with.pool = "PumpFun" /\ input.with.price.num = 0 =>
    LET in == input.with
        x == IF in.side = "buy" THEN in.curve.sol ELSE in.curve.token
        y == IF in.side = "buy" THEN in.curve.token ELSE in.curve.sol
        min == answer.ixs[Len(answer.ixs)].min
        Gives(q) == q * (x + in.amount) >= y * in.amount
    IN \E q \in 0..y :
         /\ Gives(q) /\ (q = 0 \/ ~Gives(q - 1))
         /\ min * AllBp <= q * (AllBp - in.slippage)
         /\ (min + 2) * AllBp > q * (AllBp - in.slippage)

(* A position was built, and the request names the tokens of the pool.     *)
Positioned ==
  /\ Answered("position") /\ answer.err = "nil"
  /\ Sorted(input.with.ask[1], input.with.ask[2])
       = Sorted(input.with.create[1], input.with.create[2])
AmountOf(in, mint) == Units(IF mint = in.ask[1] THEN in.base ELSE in.other)

(* Whatever order the pool and the position were asked for in, the         *)
(* account, the vault and the greatest amount of a side are of one token   *)
(* (CreatePoolInstructions, CreateAddLiquidityInstructions).               *)
PositionSides ==
  Positioned =>
    LET position == answer.position IN
    \A i \in 1..2 :
      /\ position.users[i] = position.pool[i]
      /\ position.vaults[i].mint = position.pool[i]
      /\ position.max[i] = AmountOf(input.with, position.pool[i])

(* If a side of the position is SOL, just that side is wrapped, into an    *)
(* account that exists, and the wallet holds it; else nothing is           *)
(* (CreateAddLiquidityInstructions).                                       *)
SolWrapped ==
  Positioned =>
    LET in == input.with
        ixs == answer.wrapping
        sol == IF WrappedSol \in {in.ask[1], in.ask[2]} THEN AmountOf(in, WrappedSol) ELSE 0
        transfers == {i \in DOMAIN ixs : ixs[i].op = "transfer"}
    IN IF sol = 0 THEN ixs = <<>>
       ELSE /\ sol <= in.balance
            /\ \E i \in transfers :
                 /\ transfers = {i} /\ ixs[i].amount = sol
                 /\ in.account = "missing" => \E j \in 1..(i - 1) : ixs[j].op = "create account"

(* The ticks of a position are a multiple of the spacing, less than one    *)
(* tick above and less than a spacing below the prices asked for, in the   *)
(* arrays named for them (findTickArrays).                                 *)
TicksInArrays ==
  Answered("position") /\ answer.err = "nil" =>
    LET in == input.with
        tick == answer.position.arrays.ticks
        start == answer.position.arrays.starts
        size == in.spacing * ArraySize
    IN \A i \in 1..2 :
         /\ tick[i] % in.spacing = 0
         /\ (tick[i] - 1) * Fraction < Log[in.prices[i]]
         /\ Log[in.prices[i]] < (tick[i] + in.spacing) * Fraction
         /\ start[i] % size = 0 /\ start[i] <= tick[i] /\ tick[i] < start[i] + size
=============================================================================

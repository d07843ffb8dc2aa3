# TLA+ models of greet

greet is a set of Go services around Solana's pump.fun: a *consumer* that
indexes the chain into MySQL, a *market* service that answers queries about
pairs and prices, a *trade* service that builds, signs and sends swap and
liquidity transactions, and a *gateway*. This directory holds TLA+ modules of
the parts of these services whose behaviour depends on interleavings, failures
or boundary cases, the TLC configurations that check them on small instances,
and proofs, checked by TLAPS, of the properties that matter most.

## 1. Inventory

| component | state | operations | hard behaviour |
|---|---|---|---|
| slot feed (`consumer/internal/logic/sol/slot/ws.go`) | websocket connection, the slot being sent | read a notification, send it to `realtimeCh`, reconnect | a full channel blocks the reader; slots announced while disconnected are never read |
| retry service (`slot/not_complete.go`) | start slot, batch of failed slots | find the first failed block, query a window, send to `errorCh` | runs against the workers it feeds; returns for good on an empty answer |
| block workers (`block/block.go`) | one copy of a `block` row each | find, fetch, price, decode, insert | read, long RPC call, write, without a lock; a panic or a missing price leaves no row |
| `block` table (`model/solmodel/blockmodel*.go`) | rows, unique slot | find by slot, near slot, first failed, failed window, save | a save by id overwrites the whole row |
| SOL price (`block/price.go`) | token accounts of a block | match transfers of SOL and of a stablecoin, trimmed mean, fallback to an earlier block | stale reads of a table that other workers write; accounts reused within a block; zero amounts |
| pair and token store (`block/db.go`, `block/token.go`) | `pair` and `token` rows | save token, save pair, pool point | many goroutines check and then insert the same row |
| pump.fun decoding (`block/pump.go`) | - | pair instructions with events | index arithmetic over a list of events |
| market lookups (`market/internal/logic`, `model/solmodel/pairmodel.go`) | - | pair of a token, native token price | choice among pairs with equal or no liquidity |
| market orders (`trade/internal/logic/createmarketorderlogic.go`) | order rows and log rows | create, send with retries, record the result | the chain acts between two writes; crashes and failed writes in between |
| transaction building (`trade/internal/chain/solana`) | fee caches | swaps, pools, positions, liquidity, signing | integer widths, ticks, fee arithmetic |
| instruction clients (`pkg/sol/token2022_new`, `pkg/pumpfun/pump/idl/generated/pump`) | a builder's parameters, accounts and signers | set, validate, build, encode, decode | some forty tables that must agree with each other; an instruction shares its accounts with the builder it came from |
| helpers (`pkg/trade`, `pkg/pumpfun/pump`, `pkg/backoff`) | - | quotes, slippage, backoff | rounding and saturation |
| gateway, protobuf and `*_gen.go`, the IDL client `pkg/sol/token2022`, `template/`, metadata over HTTP | - | - | no logic of their own, or nothing calls them |

How they interact: the feed and the retry service send slot numbers over two Go
channels to the block workers; the workers read and write the `block` table that
the retry service polls, and start goroutines that fill the `pair` and `token`
tables without waiting for them; market reads these tables; trade asks market for a
pair and a price over RPC, writes its own `trade_order` and `trade_order_log`
tables in one database transaction per change, and talks to a Solana node.

What makes each part correct:

* a slot that was recorded as processed or skipped stays so; the price stored with a
  block was known by then; no slot taken from the socket vanishes without a
  reason; a failed slot is retried; two workers do not handle one slot;
* a pair or a token has one row, whoever comes first;
* an order's row and its log agree; what the caller, the row and the chain say of an
  order is the same or explained by a fault;
* an instruction says on the wire what its caller named, and stays in order once validated;
* the pure parts return what a plain definition of their purpose returns.

## 2. Plan

1. `BlockIngest` (feed, channels, workers, retry service, table), against the
   abstract ledger `BlockLedger`, with `BlockIngestProofs`. **Done.**
2. `OrderLifecycle` (an order from the RPC to the chain and the tables, with
   crashes), against the abstract `OrderBook`, with `OrderProofs`. **Done.**
3. `PairStore` (concurrent savers of token and pair rows), against the abstract
   `PairLedger`, with `PairStoreProofs`. **Done.**
4. Pure modules `SolPrice`, `PumpTrades`, `MarketLookup`, `SwapTx`, driven by
   `Calculations`, with `CalculationsProofs`. **Done** for market orders.
   `PoolTx`, creating a pool and opening a position. **Done.**
5. `InstructionBuilder` over the tables `TokenInstructions` and `PumpInstructions`,
   with `InstructionProofs`. **Done.**
6. Proofs of what becomes of a slot and of a block's trades (`BlockDeliveryProofs`), of the
   program of a token, and of the bonding curve. **Done.**
7. Composition of 1 and 3: what a block marked processed implies for the pair rows
   after a crash. *Left:* `BlockIngest`
   keeps the trades of a block as one thing to save (`saving`, `saved`), which says the first
   half; the two modules have not been put together.
8. The initial price of a pool (`txManager.go` 2088-2165) with the word it is cut to, and the
   amounts, prices and filter of the decoded trades. *Left:* no handler reaches the first; the
   second is decimal arithmetic on which no property here depends.
9. `FeeCaches`: the goroutines that refresh the rent and the Jito tip floor, the Jito
   retry and `pkg/backoff`. *Left:* no handler reaches the Jito client.
10. Proofs about loops over lists (`FoldProofs`) and about what is read off a block
   (`BlockDataProofs`). **Done.**
11. When the documents that a run refutes are right after all: `SafeToRepeat`, `ErrorsMarked`,
   `LatestInOneBlock`, `WholeWhileAnswered`. **Done.**

## 3. Modules

### BlockIngest, BlockLedger, BlockIngestProofs, BlockDeliveryProofs

`BlockLedger` says what the `block` table promises, slot by slot: a slot is
recorded as skipped, failed or processed, failed may be recorded again, the
other two are final, and the price of a processed block is one the chain had
shown by then.

`BlockIngest` is the consumer. A step of it is what the code does between two
calls another goroutine can observe.

| code | model |
|---|---|
| socket, `SlotWs`, `ReadSlotMessage`, `MustConnect` | `head`, `seen`, `conn`, `pending`; `Announce`, `ConnectionLost`, `ReadSlot`, `SendRealtime`, `ReadError`, `MustConnect` |
| `realtimeChan`, `errChan` of `consumer.go` | `realtimeCh`, `errorCh`, capacities `RealCap`, `ErrorCap` |
| `BlockService`, one per goroutine | `worker[w]`: a program counter inside `ProcessBlock`, the slot and the copy of its row |
| `GetBlockFromHttp`, `ProcessBlock` | `Receive`, `FindBlock`, `FetchBlock`, `PriceBlock`, `InsertBlock` |
| the `block` table | `block`, `nextId`; a row is an id, a verdict and a price |
| `BlockModel.Insert`, which is gorm's `Save` | `Save`: insert without id, overwrite with one |
| `SaveTrades` goroutines | `saving`, `saved`, `SaveTrades` |
| `SlotNotCompleted` | `retry`; `RetryBoot`, `RetryQuery`, `RetrySend` |
| process stop and start | `Restart`: channels, goroutines and socket are gone, the tables stay |

Abstractions: a block is its price (0 when its transactions show none), its
parent and whether decoding it panics; the fetch's own retries are one answer;
the decoding of trades happens inside `PriceBlock`. `Faults` chooses which
failures happen: `rpc` (a fetch fails), `db` (a query or write fails), `save`
(storing pairs and tokens fails).

### OrderLifecycle, OrderBook, OrderProofs

`OrderBook` says what the trade service promises of an order: it is opened before
anything of it reaches the chain, at most one transaction is ever accepted for it,
and it is settled once, as on chain with the hash of that transaction or as failed.

`OrderLifecycle` is the service, its two tables and the node. A step is what a
request does between two calls that leave the process.

| code | model |
|---|---|
| one `CreateMarketOrder` request | `pc[o]`, `tries[o]`, `err[o]`, `reply[o]` |
| the `TradeOrder` struct in memory, and the transaction built for it | `mem[o]`, `tx[o]` |
| `trade_order`, `trade_order_log` | `row`, `log`, always written together by `Write` |
| checks and lookups before the order exists | `Check` |
| `InsertWithLog` | `InsertWithLog` |
| `BuildUnsignedTransaction` | `BuildTx`; a transaction is its payload and blockhash; `Panicked` when the assembly panics |
| `SignAndSendTransaction` | `SendTx`: accepted, accepted with the answer lost, or refused |
| the slippage loop of `createMarketTxWithPairInfo` | `Attempted`, `TryAgain` |
| `updateDbByTxResult` | `RecordResult`, `UpdateDb` |
| the deferred function of `CreateMarketTx` | `Deferred` |
| the chain | `blockhash`, `sent`, `landed`; `NewBlockhash`, `Land` |
| the process dies | `Crash` |

Abstractions: what is swapped is one model value, `Payload`; two requests with one
payload and one blockhash build the same transaction, as on Solana. `Faults`: `db`
(a database transaction fails), `rpc` (market or the node answers with an error),
`lost` (the answer to an accepted transaction), `slippage` (that refusal), `long` (a
refusal whose text does not fit `fail_reason`), `panic` (the instruction of a sale on PumpFun,
`sell.go:93-99`, panics when its accounts are asked for: the deferred function then finds no error
and leaves the order in process). Orders are created with
`isAutoSlippage` 0, so the loop stops after one attempt; it is kept because the
promise of one transaction per order depends on its condition.

### PairStore, PairLedger, PairStoreProofs

A saver is one goroutine of `SaveTrades`, for one pair of one block.

| code | model |
|---|---|
| `SaveTrades`, its filter of worthless trades | `Start`, `Worthless` |
| `FindOneByChainIdAddress` of the token | `FindToken`: the row is copied into the saver |
| the calls to the chain of `SaveToken` | `Fetch`; `Answers`, `NewToken`, `Filled` |
| the update and insert branches of `SaveToken` | `UpdateToken`, `InsertToken`, `ReadToken` after "Duplicate entry" |
| `SavePair` | `FindPair` (with the refresh of a row found), `InsertPair`, `ReadPair` |

Abstractions: of a token it matters which owner program is recorded and which of
its columns (supply, symbol) are filled; of a pair, from which block and token copy it
was written, and its latest trade time. A call to the database fails only for the savers of
`Unlucky`, so that a property can say of the others that nobody else's failure is theirs;
`Faults` may hold `rpc`, a chain that does not answer.

`PairLedger` says what is left when goroutines, copies and failures are taken away: a token is
recorded once, with one program for good; a pair once, after its token; the latest trade is never
replaced by an older one. `Refresh` is what `SavePair` means to do (`db.go:213`) and never does.

### SolPrice, PumpTrades, MarketLookup, SwapTx, PoolTx, Lists, Calculations and their proofs

The first five hold operators, each named after the function it translates; the loops are folds, and
`Lists` holds the one that keeps some elements of a list. The proofs are in `CalculationsProofs`, `FoldProofs`
and `BlockDataProofs`.

* `SolPrice` (`price.go`): the token account map a block's transactions share,
  recognising token transfers, the search for two transfers of one swap, the lookup of the
  inner instructions of a call, the average without its extremes. +Inf is a number
  above all others. The average is a sum and a count, so no rounding is invented.
* `PumpTrades` (`pump.go`, `block.go`): which trade of a transaction gets which event.
  The chain's side (which trades are executed, how far the node's log goes) is
  external; `DecodeInstruction` reaches the outer instructions only, and
  `DecodePumpInstruction` counts the events along them.
* `MarketLookup` (`pairmodel.go`, `getpairinfobytokenlogic.go`): the pair answered
  for a token. Rows come in any order and Go iterates a map in any order, so an
  operator returns the set of answers.
* `SwapTx` (`txManager.go`, `pump.go`, `gas.go`, `swap.go`, `buy.go`, `sell.go`):
  fees with their unsigned word, the checks of the balance, the list of instructions,
  the least output. Floating point is exact rational arithmetic, with an input
  that lets a product come out one unit low.
* `PoolTx` (`txManager.go` 847-2301): the order of the tokens of a pool and of a request, the
  greatest amount of each side, wrapping SOL, ticks and the arrays they lie in. A mint is
  a number, in the order of the addresses; an address derived from seeds is the record of the
  seeds. The logarithm of a price is a table, `Log`, of which only monotonicity is assumed.
  What the chain stores of a pool is what `CreatePool` asked for. The initial
  price, the NFT of the position and the encoding are left out.

`Calculations` makes one call with one input and shows its answer; the properties
compare the answer with a plain definition of what it is for.

### WireRows, TokenInstructions, PumpInstructions, InstructionBuilder, InstructionProofs

The two clients are one machine with two tables. `InstructionBuilder` is the machine;
`TokenInstructions` (21 instructions, `Mint`, `Account`) and `PumpInstructions` (6
instructions, `Global`, `BondingCurve`) are the tables, one row per instruction or record,
translated file by file; `WireRows` names what a row may hold.

| code | model |
|---|---|
| `New...InstructionBuilder`, `New...Instruction` | `NewBuilder`, `NewInstruction` |
| `Set<Parameter>`, `Set...Account`, `SetOwnerAccount`, `AddSigners` | `SetParam`, `SetAccount`, `SetOwner`, `AddSigners` |
| `AccountMetaSlice`, a slice whose array a copy of the struct shares | `cells`, one for the builder and its instruction |
| the copied parameters and the header of `Signers` | `built` |
| `Validate`, `ValidateAndBuild`, `Build` | `Valid`, `ValidateAndBuild`, `Build` |
| `GetAccounts`, `MarshalWithEncoder` | `GetAccounts`, `Data` |
| `UnmarshalWithDecoder`, `SetAccounts`, the tables `InstructionImplDef` | `DecodeInstruction`, `TokenImplDef`, `PumpImplDef` |

Abstractions: a value is the setter it was given to and a version, so that a value in the
wrong place shows; a field on the wire is its width, whether it is there, and its value; a
discriminator is its first byte. `named` and `calls` are history: what the caller named
last, and how often it called. The trees for printing, the JSON forms and the queries of `rpc.go`
are left out.

## 4. Runs

| run | instance | shows |
|---|---|---|
| `ingest_finality` | 3 slots, one skipped, one that cannot be decoded, one worker per channel, RPC and database faults, one restart; 134,983 states | types, one handler per slot, slot ownership, final rows stay, refinement of the ledger |
| `ingest_live` | 3 slots, two realtime workers and a retry worker, fair, RPC faults that end, one block without price, no crash or database fault; 88,060 states | where every delivered slot is; trades of a processed block are saved or being saved; a fallback price comes from the past in every order of processing; every delivered slot gets a row; failed slots of the window heal |
| `ingest_retry_stops` | fair scheduling | *violated*: a failed block is retried (`block.go:134`) |
| `ingest_two_retriers` | `Concurrency` 2 | *violated*: a processed block is not written again |
| `order_faults` | two equal requests, every fault, one crash, three blockhashes; 66,913 states | row, log, reply and chain agree as far as a fault allows; refinement of the order book |
| `order_live` | three requests, fair, node faults; 100,349 states | every opened order is answered and settled |
| `order_left_open` | a failing update | *violated*: a request that ends with an error leaves its order failed (`createmarketorderlogic.go:185`) |
| `pair_faults` | three savers of one pair, one of them worthless and one without luck, and a saver of another pair of the same token; fair, a chain that may not answer; 125,508 states | no pair without token, no success without rows, lost columns are explained, the program of a token never changes, a lost race is no error, all traded pairs get stored; refinement of the ledger of tokens and pairs |
| `pair_latest` | two savers, nothing fails | *violated*: `latest_trade_time` is that of the latest trade (`sol.sql:49`) |
| `calculations` | 63,752 states: all lists of up to 3 of 9 instructions, two-call transactions, up to 5 prices, two-transaction histories of an account, up to 3 trades, up to 3 pair rows, 14,400 orders, 6,627 positions | thirteen properties of the answers, one to three per calculation |
| `pump_cost` | the same inputs | *violated*: the wallet of a PumpFun buy holds the amount and the fees (`pump.go:96`) |
| `instructions` | all 27 instructions and 4 records, up to three calls before and after `Build`, two values per setter, lists of up to two signers; 278,458 states | a valid instruction is decoded as named; a validated one stays valid |

Bounds. *Ingest*: three slots are enough for one slot in the socket reader, one in a
channel and one with a worker, and for the block without a price, the second, to have an earlier and a later
neighbour in each order of processing. Capacity 1 or 2 makes the channels fill.
`Window` 1 leaves slots outside the retry window, `Limit` 1 or 2 makes the
retry query leave rows out. One restart may fall between any two steps.
*Orders*: requests interact only through the chain, where two with one payload
meet in one transaction; three blockhashes with a life of one let a transaction
expire before it is sent, and before it lands. *Pairs*: three savers with trades, two of one pair and all of one token, let two lose the
race for a row while the third holds a stale copy. *Instructions*: two values per setter show a
value that is lost, repeated or in another's place; three calls are a constructor and two more, or
two setters and one after `Build`; two signers are as many as `MAX_SIGNERS` allows here (11 in the
code), so two more pass it. *Calculations*: two transfers and
something between or after them; the
scale of the constants is small (a signature costs 2, a lamport has 10 micro-lamports)
so that roundings occur in every product; three mints let SOL be the lower or the higher token of
a pool, or none, and a request name a token the pool lacks; the logarithms lie on, just below and just
above a tick, on both sides of 0. `Width` is larger than any product in the run, as
2^64 is; the theorem holds for every width.

Runs that end with every request or saver done, or with a call answered, do not look for deadlocks;
the consumer never ends, and its runs do.

Fairness. In `BlockIngest`, weak fairness for the goroutines: the Go
scheduler runs what can run. Strong fairness for an answer of the node other
than an error (`FetchAnswer`): the retries are worth something only when the
node answers in the end; it is never assumed that a particular retry
succeeds. Nothing is assumed of announcements, lost connections or restarts. In
`OrderLifecycle` and `PairStore`, weak fairness for each request and each
saver: every call has a timeout or returns, if only with an error. Which answer it returns is
left open, and the chain owes nothing.

## 5. Proofs

All theorems hold for every value of the constants under the named assumptions of their
module: sizes are naturals, faults come from the listed set, a model value that means
"nothing" is not a real value.

`BlockIngestProofs`, for every chain, every number of realtime workers, every
capacity, every set of faults and any number of restarts:

* `TypeCorrect`: `Spec => []TypeOK`.
* `VerdictsCorrect`: `Spec => []VerdictInv`. The rows agree with the chain;
  inductive because it also says what a worker's *copy* may say, which
  is what will be written later. `PricesFromPast` follows.
* `Ownership`: `Spec => []OwnershipInv`, for one worker on `errorCh`
  (`SingleRetrier`, what `Concurrency: 1` starts). To the verdicts it adds that the slots in
  the socket reader, `realtimeCh` and the realtime workers are increasing,
  distinct and without a row, and that those in the retry batch, `errorCh` and
  the retry worker have one. The order is needed because `Exists` alone does
  not keep a slot from being in two places.
* `OneHandlerOnly`, `FinalRowsStay`, `Refinement` follow: no two workers hold one row,
  a final row stays, and the specification implements `BlockLedger`.

  `SlotsOwned` states the part about slots by itself.

Without `SingleRetrier` `FinalRowsStay` is false: `ingest_two_retriers` shows it.

`BlockDeliveryProofs`, for any number of workers on either channel, on the same invariant:

* `NothingDropped`, when no process dies and no query fails (`Steady`): a slot taken from the
  socket is in one of the places it may be. Inductive because `DeliveryInv` adds that a worker
  without a task holds nothing.
* `TradesKept`, when no process dies and trades can be stored (`TradesStorable`): by `TradesInv` a
  worker about to write "processed" has started the trades before. Without
  the assumption it is false: the row outlives the goroutines.

`OrderProofs`, for any number of orders, blockhashes and crashes and every set of faults:

* `Lifecycle`: `Spec => []LifecycleInv`. The invariant goes order by order and says, for each place of
  the request, what the row, the log, the struct in memory and the accepted
  transactions are. Its core is that a request that has not reached the end of its
  attempt has had nothing accepted, and that one without an error has its own transaction accepted.
* `OrderTypes`, `LogFollows`, `WriteAhead`, `OnChainSent`, `RepliesMatch` follow, and
* `BookImplemented`: every step is a step of `OrderBook` or a stutter.
* `SafeToRepeat`, unless answers are lost: an order with an error was never sent. A second invariant says
  so of the error in memory, before the row or the caller has it.
* `ErrorsMarked`, if the database takes every update, every reason fits its column and nothing panics:
  `createmarketorderlogic.go:185` holds. `order_left_open` shows that it does not without the first.

`PairStoreProofs`, for any number of savers, pairs and tokens:

* `Stored`: `Spec => []StoreInv`, what a saver relies on at each point: a row that it saw
  or lost a race to is still there, a draft it will write exists and contains its copy.
* `StoreTypes`, `TokenFirst`, `SuccessIsStored` follow, and the action properties
  `LossesExplained` and `NeverBack`. `RacesHarmless` holds for each saver whose own calls work.
* `ProgramForGood`: by `ProgramInv`, a saver that writes a row back writes the program it read, and the
  row still has that program. So a first wrong answer stays.
* `LedgerImplemented`: every step is a step of `PairLedger` or a stutter. Writing a token back is a stutter
  because of `ProgramInv`, refreshing a pair because no trade has a slot. `LatestNeverBack` is proved with it.
* `LatestInOneBlock`: the row of a pair has the time of one of its savers, so `sol.sql:49`, which
  `pair_latest` refutes, holds of pairs that are traded in one block.
* `WholeWhileAnswered`, if the chain answers every question: rows, copies and drafts have the right
  program and every column. So all that is wrong or missing in the tables goes back to a call to the chain, and
  neither to a race nor to the database.

`CalculationsProofs`, for every set of rows and orders, every fee, rent, rate and word width:

* `AnswersRight`: an answer, once given, has the three properties below.
* `DeepestAnswered`: the pair answered is the deepest of those that may answer.
* `BudgetKept`: dividing the budget by the unit limit and the rounding up of the chain
  cancel out, and a wrapping word only makes the price smaller.
* `WalletSuffices`: the instructions built for an exchange take no more than was checked.

Of the bonding curve, for every reserve, amount and slippage up to the whole:

* `CurveRespected`: the least output of an order without a price. `QuoteRoundedUp` says that the reserve less its
  rounded quotient is the output rounded up, `SlippageTaken` that truncation and floating point take less
  than two units off it.

Of positions, for every request whose prices fit 32 bits, every spacing, array size and
table of logarithms:

* `PositionsRight`: a position, once built, has the three properties below.
* `SidesKept`: sorting the pool's mints and the request's mints separately gives one order,
  so account, vault and amount of a side belong together.
* `WrapCovered`: the SOL side, and nothing else, is wrapped, from a balance that holds it.
* `TicksFit`: truncating the logarithm loses less than a tick and rounding down less than a
  spacing; the same lemma, `SpacedBelow`, places a tick in its array.

`FoldProofs` and `BlockDataProofs` are about loops. The induction theorems of the library are beyond the
provers, which cannot instantiate an operator; `FoldProofs` therefore states induction for a *set*
(`SetInduction`, `PrefixInduction`), from the least element of a set of naturals, and proves with it that the
recursive function by which the library defines a fold exists (`FoldExists`). A loop over a list is then a
function of the number of elements read, with a value at 0 and a step (`TotalSteps`, `DecodeSteps`,
`LookSteps`, `InitSteps`, `BlockSteps`, `KeptSteps`), and its invariant goes through by `PrefixInduction`.
`BlockDataProofs` has, for every block, list, log and history that satisfies `InputAssumption`, of any length:

* `BlockDataRight`: inputs stay what they were, and an answer is what its operator returns for the input.
* `FirstSwapGivesPrice`: by `Search`, the loop holds the first swap among the instructions read, or
  the last of these if a swap may begin with it, and nothing else.
* `NoPriceAcrossCalls`: a list priced is that of one call, or two instructions of one; what is kept of a list
  has only its elements (`KeptRight`).
* `AverageResists`: the sum of a list lies between as many times its extremes (`TotalBetween`); which two
  prices are left out depends on where the outlier is.
* `MintFollowed`: balances before and after a transaction and the accounts it initialises each leave the mint
  of the account right, one transaction after the other; filling in decimals leaves it alone.
* `TradesInStep`, `NoEventTwice`: by `Pass`, the decoder has as many trades as events counted, each with the
  event at its place, and while no trade is passed over these places are those of the chain.

`InstructionProofs`, for every table that satisfies `LayoutAssumption`, every number of setters and values:

* `Typed`, and `ValidatedStays`: no setter empties an account, and only naming an owner with signers
  takes the owner's own signature away.
* `ReadBack`: from an invariant that the builder, its copy and the history name the same, and that the
  decoder splits accounts from signers where the encoder joined them.

Only model-checked: the four properties under fairness (`DeliveredIsRecorded`, `RetryHeals`, `Settled`,
`TradedIsStored`), which are beyond the provers. Of the five claims that runs refute, two are proved under the
condition that makes them true (`LatestInOneBlock`, `ErrorsMarked`); `FinalStatus` holds for a single retry
worker (`FinalRowsStay`); `FailedIsRetried` is about fairness again, and `PumpAffordable` is a check the code
lacks. Every other property of a run is a theorem.

## 6. What the code does against its own documents

Five runs above are violated by what the code does, and `PROJECT.json` quotes
the lines. Other differences met while modelling, for which no run was written:

* `createmarketorderlogic.go:178` answers with an empty struct, while
  `tests/createmarketorderlogic_test.go:116` looks for the hash.
* `SEND_TRANSACTION_ONCHAIN` is not looked at: every order is sent
  (`createmarketorderlogic.go:413-416`).
* `block_num` of a pair is the block of whoever saved it first (`db.go:160`), not the
  creation block (`sol.sql:43`).
* The fallback for a pair without base price asks for the native price without a
  search time (`createmarketorderlogic.go:109`), which
  `getnativetokenpricelogic.go:33` cannot parse: it never helps.
* The service fee is in the cost that is checked and no instruction collects it.
* Orders on Raydium wrap and unwrap SOL but contain no swap (`txManager.go:477`).
* `AddLiquidityTx.BaseToken` is "0 for token A, 1 for token B" (`pkg/trade/types.go:40`); the code only
  logs it and always gives the base amount to token A.
* The initial price of a pool is "sqrt(price) * 2^64" (`txManager.go:2096`), but `Shift(64)` multiplies by
  10^64, of which the last 16 bytes are sent; and it is not inverted when the tokens are reordered (2078-2086).
* Amounts of a position are multiplied by 10^9 whatever the decimals (`txManager.go:1204`), the liquidity
  is a placeholder (1871-1876), and a price of 2147.48 or more is cut to a negative one by the
  conversion to 32 bits (1400); the models leave such prices out.
* The rent of the account created to wrap SOL is not in the balance that is checked (`txManager.go:1247`).
* `pairmodel.go:81,96` speaks of the largest market cap; the code compares liquidity.
* `sell.go:93-99` wraps the instruction of a sale in a generic one whose accounts cannot be asked for, so a
  sale on PumpFun panics after its order was recorded; `OrderLifecycle` takes it as the fault `panic`.
  `DexAffordable` leaves PumpFun out because of `pump_cost`.
* An order is in process for good also when the error text is longer than `fail_reason`
  (`order_faults` has it as `long`): the update fails, and nothing tries again.
* Both sides of an order are taken to have 9 decimals (`createmarketorderlogic.go:337`): a sale of a token
  with 6 asks for 1000 times the amount.
* `GetTokenProgram` failing (`token.go:226`) records a Token-2022 token as a classic one; the repair of
  `token.go:125-136` waits for an empty program, which no insert leaves (`ProgramKept`).
* `Mint.Decode` of `token2022_new/rpc.go` assigns to its own receiver, so `FetchMints` returns empty mints;
  nothing calls it.
* Naming the owner of an instruction again appends to its signers instead of replacing them
  (`token2022_new/TransferChecked.go`), which `DecodedIsNamed` excludes.
* A skipped slot is recorded with a zero block time (`block.go:128`), which a strict SQL mode refuses.

## 7. Not modelled

* Of adding liquidity and creating pools: the initial price, the encoding and the keys (see 3).
  No RPC handler calls this code.
* `TxManager.CreateMarketOrder` with `SignByTeeAndSend` and the Jito client: no handler
  calls them either; the transaction of an order is sent by `SignAndSendTransaction`.
* The refresh of the rent and of the tip floor: the rent is an input of `SwapTx`.
* The native token price and token information of market: a query of a table nothing here fills, and a stub.
* Of the instruction clients: printing, JSON, the queries of `rpc.go`; the IDL client `pkg/sol/token2022`
  and `associatedtoken2022account`, which nothing calls or the transaction models take as one step.
* The gateway (a ping), protobuf, goctl templates, HTTP metadata,
  the wire formats of the websocket and of transactions.

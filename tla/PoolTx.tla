------------------------------- MODULE PoolTx -------------------------------
(***************************************************************************)
(* Building the transactions that create a concentrated liquidity pool of  *)
(* Raydium and open a position in it (txManager.go).  A mint is a number,  *)
(* in the order of the addresses, and stands for the trader's account of   *)
(* it; an address derived from seeds is the record of its seeds.  A price  *)
(* is in millionths, an amount a quotient [num, den].                      *)
(***************************************************************************)
EXTENDS SwapTx
LOCAL INSTANCE Integers
LOCAL INSTANCE Sequences

CONSTANTS
  WrappedSol,   \* the mint of wrapped SOL
  TenTo9,       \* units of a token, whatever its decimals: 10^9
  ArraySize,    \* ticks in an array, in spacings: 60
  Fraction,     \* a tick has that many fractions
  Log           \* price -> its logarithm to base 1.0001, in fractions

ASSUME PoolAssumption ==
  /\ {TenTo9, ArraySize, Fraction} \subseteq Nat \ {0}
  /\ DOMAIN Log \subseteq Nat \ {0}
  /\ \A p \in DOMAIN Log : Log[p] \in Int
  /\ \A p, q \in DOMAIN Log : p <= q => Log[p] <= Log[q]

-----------------------------------------------------------------------------
(* Creating a pool.                                                        *)

(* Mutant: the tokens stay in the order of the request.                    *)
Unsorted(x, y) == <<x, y>>

Sorted(x, y) == IF x > y THEN <<y, x>> ELSE <<x, y>>

(* The configuration, named by its fee in basis points.                    *)
AmmConfig(tier) == IF tier \in {1, 30, 100} THEN tier ELSE 5

FindRaydiumPoolPDAs(tokens, config) ==
  LET state == [config |-> config, tokens |-> tokens] IN
  [state |-> state, vaults |-> [i \in 1..2 |-> [pool |-> state, mint |-> tokens[i]]]]

(* The price, the opening time and the compute budget are left out.        *)
CreatePool(in) ==
  LET tokens == Sorted(in.create[1], in.create[2]) IN
  [mints |-> tokens, pda |-> FindRaydiumPoolPDAs(tokens, AmmConfig(in.tier))]

(* What the chain stores of a pool created so, as it is read back.         *)
GetPoolVaultsByPoolStateAddr(in) ==
  [mints |-> CreatePool(in).mints, vaults |-> CreatePool(in).pda.vaults,
   spacing |-> in.spacing]

-----------------------------------------------------------------------------
(* Ticks.                                                                  *)

(* Go's division, which truncates.                                         *)
Quotient(a, b) == IF a >= 0 THEN a \div b ELSE -((-a) \div b)

PriceToTick(price) == Quotient(Log[price], Fraction)

(* Mutant: a negative tick is rounded towards zero.                        *)
TowardsZero(tick, spacing) == Quotient(tick, spacing) * spacing

TickWithSpacing(tick, spacing) ==
  (Quotient(tick, spacing)
     - (IF tick < 0 /\ Quotient(tick, spacing) * spacing # tick THEN 1 ELSE 0)) * spacing

GetTickArrayStartIndexByTick(tick, spacing) ==
  LET ticks == spacing * ArraySize
      start == Quotient(tick, ticks)
  IN (start - (IF tick < 0 /\ start * ticks # tick THEN 1 ELSE 0)) * ticks

FindTickArrays(prices, spacing) ==
  LET ticks == [i \in 1..2 |-> TickWithSpacing(PriceToTick(prices[i]), spacing)] IN
  [ticks |-> ticks,
   starts |-> [i \in 1..2 |-> GetTickArrayStartIndexByTick(ticks[i], spacing)]]

-----------------------------------------------------------------------------
(* Opening a position.                                                     *)

(* The two sides of the pool with the lower mint first, and the trader's   *)
(* accounts, of the mints of the request, the lower one first as well.     *)
Ordered(mints) == IF mints[1] < mints[2] THEN <<1, 2>> ELSE <<2, 1>>
UserTokens(ask) == IF ask[1] < ask[2] THEN ask ELSE <<ask[2], ask[1]>>

Units(amount) == (amount.num * TenTo9) \div amount.den

(* The amounts in the order of the request's mints, and turned round       *)
(* unless its lower mint is the first of the pool.                         *)
MaxAmounts(in, mints) ==
  LET base == Units(in.base)
      other == Units(in.other)
      max == IF in.ask[1] < in.ask[2] THEN <<base, other>> ELSE <<other, base>>
      first == UserTokens(in.ask)[1]
      straight == IF mints[1] < mints[2] THEN first = mints[1] ELSE first # mints[2]
  IN IF straight THEN max ELSE <<max[2], max[1]>>

(* Mutant: the amount of token A is wrapped, whichever side is SOL.        *)
WrapFirst(tokens, max) == IF WrappedSol \in {tokens[1], tokens[2]} THEN max[1] ELSE 0

(* The lamports to wrap, if a side is SOL.                                 *)
WrapAmount(tokens, max) ==
  IF tokens[1] = WrappedSol THEN max[1] ELSE IF tokens[2] = WrappedSol THEN max[2] ELSE 0

(* An account that cannot be read counts as missing.                       *)
WsolInstructions(in, amount) ==
  IF amount = 0 THEN <<>>
  ELSE IF in.account = "there" THEN <<Ix("transfer", amount), Ix("sync native", 0)>>
  ELSE <<Ix("create account", 0), Ix("transfer", amount), Ix("sync native", 0)>>

(* The liquidity is a placeholder, the first amount.                       *)
BuildOpenPositionInstruction(pool, users, vaults, arrays, max) ==
  [pool |-> pool, users |-> users, vaults |-> vaults,
   arrays |-> arrays, max |-> max, liquidity |-> max[1]]

(* SOL is wrapped before the position is opened.                           *)
CreateAddLiquidityInstructions(in) ==
  LET pool == GetPoolVaultsByPoolStateAddr(in)
      order == Ordered(pool.mints)
      tokens == [i \in 1..2 |-> pool.mints[order[i]]]
      vaults == [i \in 1..2 |-> pool.vaults[order[i]]]
      max == MaxAmounts(in, pool.mints)
      wrap == WrapAmount(tokens, max)
  IN IF in.fails = "pool" THEN Refused("pool")
     ELSE IF in.fails = "balance" THEN Refused("balance")
     ELSE IF in.balance < wrap THEN Refused("insufficient SOL balance")
     ELSE [err |-> "nil", wrapping |-> WsolInstructions(in, wrap),
           position |-> BuildOpenPositionInstruction(tokens, UserTokens(in.ask), vaults,
                          FindTickArrays(in.prices, pool.spacing), max)]

BuildUnsignedAddLiquidityTransaction(in) ==
  LET built == CreateAddLiquidityInstructions(in) IN
  IF built.err # "nil" THEN built
  ELSE IF in.fails \in {"blockhash", "lookup table"} THEN Refused(in.fails)
  ELSE built
=============================================================================

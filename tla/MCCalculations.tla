--------------------------- MODULE MCCalculations ---------------------------
(* Small inputs of every calculation for the model checker.                *)
EXTENDS Calculations, SequencesExt

(* A trader and a pool with an account for SOL and USDC each, another      *)
(* pool with one for USDC, and one for a token that has no price.          *)
Acc(mint, owner) == [mint |-> mint, owner |-> owner, decimals |-> 6, amount |-> 1]
SmallAccounts ==
  [a \in {"traderSol", "traderUsd", "poolSol", "poolUsd", "otherUsd", "traderCoin", "poolCoin"} |->
     CASE a = "traderSol" -> Acc("sol", "trader") [] a = "traderUsd" -> Acc("usd", "trader")
       [] a = "poolSol" -> Acc("sol", "pool") [] a = "poolUsd" -> Acc("usd", "pool")
       [] a = "otherUsd" -> Acc("usd", "other")
       [] a = "traderCoin" -> Acc("coin", "trader") [] a = "poolCoin" -> Acc("coin", "pool")]

Transfer(from, to, amount) ==
  [program |-> "token", op |-> "transfer", size |-> 9,
   accounts |-> <<from, to, "auth">>, amount |-> amount]
Checked(from, to, amount, program, size) ==
  [program |-> program, op |-> "transferChecked", size |-> size,
   accounts |-> <<from, "mint", to, "auth">>, amount |-> amount]
SwapIx == [program |-> "swap", op |-> "swap", size |-> 8, accounts |-> <<>>, amount |-> 0]

SolIn == Transfer("traderSol", "poolSol", 10)
UsdOut == Checked("poolUsd", "traderUsd", 1, "token", 10)
Ixs ==
  {SolIn, UsdOut,
   Transfer("poolSol", "traderSol", 0),
   Checked("traderUsd", "poolUsd", 2, "token2022", 11),
   Checked("otherUsd", "poolUsd", 3, "token", 10),
   Checked("poolUsd", "traderUsd", 1, "token", 11),
   Transfer("traderCoin", "poolCoin", 5),
   Transfer("traderSol", "unknown", 7),
   SwapIx}
SmallCalls == SeqOf(Ixs, 3)

SwapTxs ==
  LET Groups == {<<>>, <<SolIn>>, <<UsdOut>>, <<SolIn, UsdOut>>, <<SwapIx, SolIn, UsdOut>>,
                 <<SolIn, SwapIx, UsdOut>>, <<UsdOut, Transfer("traderSol", "poolSol", 20)>>}
  IN {[pre |-> SmallAccounts,
       post |-> [SmallAccounts EXCEPT !["traderSol"].amount = amount],
       inits |-> <<>>,
       outer |-> <<[program |-> p, programIndex |-> i], [program |-> "swap", programIndex |-> j]>>,
       inner |-> <<[index |-> 0, ixs |-> g], [index |-> 1, ixs |-> h]>>] :
        g \in Groups, h \in Groups, p \in {"swap", "other"}, i \in 0..2, j \in 0..2, amount \in 0..1}

SmallPriceLists == SeqOf({1, 2, 5, 100}, 5)

States == {Gone} \cup {[mint |-> m, owner |-> "owner", decimals |-> 6, amount |-> n] :
                         m \in {"m1", "m2"}, n \in 0..1}
Steps ==
  {step \in [before : States, mints : SeqOf({"m1", "m2"}, 2), after : States] :
     IF step.mints = <<>> THEN step.after = Gone \/ step.after.mint = step.before.mint
     ELSE step.after = Gone \/ step.after.mint = step.mints[Len(step.mints)]}
SmallHistories ==
  {h \in {<<s>> : s \in Steps} \cup (Steps \X Steps) :
     \A i \in 1..(Len(h) - 1) : h[i].after = h[i + 1].before}

SmallTradeTxs ==
  LET Lists == SeqOf(Trades({"p1", "p2"}), 3) IN
  {[trades |-> l, logged |-> n, failed |-> FALSE, unlogged |-> FALSE, garbled |-> FALSE] :
     l \in Lists, n \in {2, 3}}
  \cup {[trades |-> l, logged |-> 0, failed |-> f, unlogged |-> u, garbled |-> ~f /\ ~u] :
     l \in SeqOf(Trades({"p1"}), 2), f \in BOOLEAN, u \in BOOLEAN}

SmallRowSets ==
  LET Rows(a) == [address : {a}, name : {"", "PumpFun", "RaydiumV4", "RaydiumConcentratedLiquidity"},
                  liquidity : 0..2]
      OneOf(a) == {{}} \cup {{r} : r \in Rows(a)}
  IN {x \cup y \cup z : x \in OneOf("a"), y \in OneOf("b"), z \in OneOf("c")}

SmallOrders ==
  [pool : Pools, side : {"buy", "sell"}, amount : {0, 7, 100}, balance : {5, 16, 105, 113, 300},
   gasFee : {2, 9}, cu : {3, 4}, rent : {2}, slippage : {0, 3}, error : {0, 1},
   price : {[num |-> 0, den |-> 1], [num |-> 1, den |-> 2], [num |-> 3, den |-> 1]},
   curve : {[sol |-> 3, token |-> 10], [sol |-> 20, token |-> 7]}]

(* Prices below, at and above 1, with a logarithm just off a tick; mint 2  *)
(* is SOL.                                                                 *)
SmallLog == [p \in 1..7 |-> <<-13, -8, -1, 0, 1, 7, 25>>[p]]
SmallPositions ==
  LET Pairs == {p \in (1..3) \X (1..3) : p[1] # p[2]}
      Half(n) == [num |-> n, den |-> 2]
      Asks == [create : Pairs, tier : {1, 7}, ask : Pairs, base : {Half(0), Half(3)},
               other : {Half(5)}, prices : {<<1, 7>>}, spacing : {1}, balance : {0, 3, 100},
               account : {"there", "missing", "unread"},
               fails : {"none", "pool", "balance", "blockhash", "lookup table"}]
      Ranges == [create : {<<1, 3>>}, tier : {30}, ask : {<<3, 1>>}, base : {Half(3)},
                 other : {Half(5)}, prices : (1..7) \X (1..7), spacing : 1..3, balance : {0},
                 account : {"there"}, fails : {"none"}]
  IN Asks \cup Ranges
=============================================================================

------------------------------ MODULE SolPrice ------------------------------
(***************************************************************************)
(* The SOL price of a block: swaps of SOL against a stablecoin are found   *)
(* in the token transfers of its transactions, a token account map built   *)
(* transaction by transaction tells what they move, and the prices are     *)
(* averaged without their extremes (price.go).                             *)
(***************************************************************************)
EXTENDS Integers, SequencesExt, Lists

CONSTANTS
  Sol,        \* the mint of wrapped SOL
  Stables,    \* the mints of USDC and USDT
  Infinite    \* +Inf, above every price of a swap

ASSUME PriceAssumption == Infinite \in Nat /\ Sol \notin Stables

-----------------------------------------------------------------------------
(* The token account map: mint, owner and decimals of the accounts the     *)
(* transactions of the block mention.                                      *)

(* Balances before the transaction: a new record for every account.        *)
WithPre(map, pre) ==
  [a \in DOMAIN map \cup DOMAIN pre |->
     IF a \in DOMAIN pre
     THEN [mint |-> pre[a].mint, owner |-> pre[a].owner,
           decimals |-> pre[a].decimals, before |-> pre[a].amount]
     ELSE map[a]]

(* Balances after it: an account that is known keeps its record.           *)
WithPost(map, post) ==
  [a \in DOMAIN map \cup DOMAIN post |->
     IF a \in DOMAIN map THEN map[a]
     ELSE [mint |-> post[a].mint, owner |-> post[a].owner,
           decimals |-> post[a].decimals, before |-> 0]]

Changed(map, post) ==
  \E a \in DOMAIN post : a \notin DOMAIN map \/ post[a].amount # map[a].before

(* Mutant: an account that is known is never initialised again.            *)
KeptAccount(map, init) == init.account \in DOMAIN map

(* An account that is known with the mint it is initialised for stays.     *)
KnownAccount(map, init) ==
  init.account \in DOMAIN map /\ map[init.account].mint = init.mint

WithInit(map, init) ==
  IF KnownAccount(map, init) THEN map
  ELSE [a \in DOMAIN map \cup {init.account} |->
          IF a = init.account
          THEN [mint |-> init.mint, owner |-> init.owner, decimals |-> 0, before |-> 0]
          ELSE map[a]]

(* Accounts without decimals get those of another account of their mint.   *)
WithDecimals(map) ==
  LET Known(mint) ==
        {map[b].decimals : b \in {c \in DOMAIN map : map[c].mint = mint}} \ {0}
  IN [a \in DOMAIN map |->
        IF map[a].decimals = 0 /\ Known(map[a].mint) # {}
        THEN [map[a] EXCEPT !.decimals = CHOOSE d \in Known(map[a].mint) : TRUE]
        ELSE map[a]]

FillTokenAccountMap(map, tx) ==
  WithDecimals(FoldLeft(WithInit, WithPost(WithPre(map, tx.pre), tx.post), tx.inits))

HasTokenChange(map, tx) == Changed(WithPre(map, tx.pre), tx.post)

-----------------------------------------------------------------------------
(* Swaps among the inner instructions.                                     *)

(* A token instruction decodes as a transfer by its opcode, the length of  *)
(* its data and the number of its accounts.                                *)
IsTransfer(ix) ==
  \/ /\ ix.program \in {"token", "token2022"} /\ ix.op = "transfer"
     /\ ix.size = 9 /\ Len(ix.accounts) >= 3
  \/ /\ ix.program = "token" /\ ix.op = "transferChecked"
     /\ ix.size = 10 /\ Len(ix.accounts) >= 4
  \/ /\ ix.program = "token2022" /\ ix.op = "transferChecked"
     /\ ix.size >= 10 /\ Len(ix.accounts) >= 4

DecodeTokenTransfer(ix) ==
  [from |-> ix.accounts[1],
   to |-> ix.accounts[IF ix.op = "transfer" THEN 2 ELSE 3],
   amount |-> ix.amount]

Known(map, t) == {t.from, t.to} \subseteq DOMAIN map

(* Two transfers belong to one swap if a party of one gets from the other. *)
IsSwapTransfer(map, a, b) ==
  \/ map[a.from].owner = map[b.to].owner
  \/ map[b.from].owner = map[a.to].owner

None == [amount |-> -1]   \* a nil transfer
Apart == [sol |-> None, usd |-> None, swap |-> FALSE]

(* Mutant: an instruction that is no transfer does not part two transfers. *)
SkipOther(acc) == acc

(* Whatever is not a transfer between known accounts starts the search anew. *)
StartAnew(acc) == Apart

(* One turn of the loop: a transfer of SOL or of a stablecoin meets the    *)
(* last transfer of the other, or replaces what was kept.                  *)
Look(map, acc, ix) ==
  LET t == DecodeTokenTransfer(ix)
      mint == map[t.from].mint
      found == [sol |-> IF mint = Sol THEN t ELSE acc.sol,
                usd |-> IF mint = Sol THEN acc.usd ELSE t, swap |-> TRUE]
      alone == IF mint = Sol THEN [Apart EXCEPT !.sol = t] ELSE [Apart EXCEPT !.usd = t]
      other == IF mint = Sol THEN acc.usd ELSE acc.sol
  IN CASE acc.swap -> acc
       [] ~acc.swap /\ ~(IsTransfer(ix) /\ Known(map, t)) -> StartAnew(acc)
       [] ~acc.swap /\ IsTransfer(ix) /\ Known(map, t) ->
            IF mint \notin Stables \cup {Sol} THEN StartAnew(acc)
            ELSE IF other # None /\ IsSwapTransfer(map, t, other) THEN found
            ELSE alone

(* USD per SOL; no SOL at all divides to +Inf, no USD is no price.         *)
Ratio(sol, usd) ==
  IF usd = 0 THEN 0 ELSE IF sol = 0 THEN Infinite ELSE (usd * 1000) \div sol

GetBlockSolPriceByTransfer(map, ixs) ==
  LET end == FoldLeft(LAMBDA acc, ix : Look(map, acc, ix), Apart, ixs)
  IN IF end.swap THEN Ratio(end.sol.amount, end.usd.amount) ELSE 0

(* Mutant: the inner instructions of all calls, one after the other.       *)
AllInner(tx, index) == FlattenSeq([g \in DOMAIN tx.inner |-> tx.inner[g].ixs])

(* The inner instructions an outer instruction is priced by are looked up  *)
(* by the index of its program; the last call with an index replaces the   *)
(* others.                                                                 *)
InnerOf(tx, index) ==
  LET calls == {g \in DOMAIN tx.inner : tx.inner[g].index = index}
  IN IF calls = {} THEN <<>> ELSE tx.inner[Max(calls)].ixs

(* The two instructions after an inner swap.                               *)
GetInnerInstructionByInner(ixs, i) ==
  IF i + 2 > Len(ixs) THEN <<>> ELSE SubSeq(ixs, i + 1, i + 2)

TxPrices(map, tx) ==
  LET outer == [i \in DOMAIN tx.outer |->
                  IF tx.outer[i].program # "swap" THEN 0
                  ELSE GetBlockSolPriceByTransfer(map, InnerOf(tx, tx.outer[i].programIndex))]
      Inner(ixs) == [i \in DOMAIN ixs |->
                       IF ixs[i].program # "swap" THEN 0
                       ELSE GetBlockSolPriceByTransfer(map, GetInnerInstructionByInner(ixs, i))]
      inner == FlattenSeq([g \in DOMAIN tx.inner |-> Inner(tx.inner[g].ixs)])
  IN Kept(outer \o inner, Nat \ {0})

-----------------------------------------------------------------------------
(* The average without the extremes, as a sum and a count.                 *)

(* Index of the first element that is not below (above) any other; +Inf is *)
(* never taken for the minimum.                                            *)
MinIndex(nums) ==
  {i \in DOMAIN nums : nums[i] < Infinite
     /\ \A j \in DOMAIN nums : nums[i] < nums[j] \/ (nums[i] = nums[j] /\ i <= j)}
MaxIndex(nums) ==
  {i \in DOMAIN nums :
     \A j \in DOMAIN nums : nums[i] > nums[j] \/ (nums[i] = nums[j] /\ i <= j)}

(* Mutant: only the maximum is left out.                                   *)
WithoutMax(nums) == MaxIndex(nums)

LeftOut(nums) == IF Len(nums) < 3 THEN {} ELSE MinIndex(nums) \cup MaxIndex(nums)

Total(nums) == FoldLeft(LAMBDA a, b : a + b, 0, nums)

RemoveMinAndMaxAndCalculateAverage(nums) ==
  [sum |-> Total([i \in DOMAIN nums |-> IF i \in LeftOut(nums) THEN 0 ELSE nums[i]]),
   count |-> Len(nums) - Cardinality(LeftOut(nums))]

(* The prices of a block, with the map that grows from one transaction to  *)
(* the next; a transaction without a changed balance is passed over.       *)
BlockPrices(txs) ==
  FoldLeft(LAMBDA acc, tx :
             LET map == FillTokenAccountMap(acc.map, tx) IN
             [map |-> map,
              prices |-> acc.prices \o
                IF HasTokenChange(acc.map, tx) THEN TxPrices(map, tx) ELSE <<>>],
           [map |-> [a \in {} |-> 0], prices |-> <<>>], txs)
=============================================================================

---------------------------- MODULE MarketLookup ----------------------------
(***************************************************************************)
(* The pair the market service answers for a token (pairmodel.go and       *)
(* getpairinfobytokenlogic.go): the most liquid row of each category, then *)
(* the most liquid category.  Rows come in the order of the database and   *)
(* categories in the order of a Go map, so equal liquidity is decided      *)
(* either way.                                                             *)
(***************************************************************************)
LOCAL INSTANCE Naturals

CONSTANTS
  Addresses,   \* addresses of the pairs
  Names        \* names of the exchanges, "PumpFun" among them

PairRows == [address : Addresses, name : Names \cup {""}, liquidity : Nat]
Empty == [address |-> "", name |-> "", liquidity |-> 0]

(* What a loop that keeps the row with more than the liquidity kept so far *)
(* can end with, for some order of the rows.                               *)
Deepest(rows) ==
  {r \in rows : r.liquidity > 0 /\ \A s \in rows : s.liquidity <= r.liquidity}
    \cup {e \in {Empty} : \A r \in rows : r.liquidity = 0}

Categories(rows) == {r.name : r \in rows} \ {""}
InCategory(rows, c) == {r \in rows : r.name = c}

(* Mutant: PumpFun competes with the exchanges.                            *)
AnyRow(row) == TRUE

(* With several categories, PumpFun is passed over.                        *)
Competes(row) == row.name # "PumpFun"

FindOneByChainIdTokenAddress(rows) ==
  LET best == {f \in [Categories(rows) -> rows \cup {Empty}] :
                 \A c \in Categories(rows) : f[c] \in Deepest(InCategory(rows, c))}
      Answer(f) ==
        LET found == {f[c] : c \in Categories(rows)} IN
        IF \E c \in Categories(rows) : Categories(rows) = {c} THEN found
        ELSE Deepest({r \in found : Competes(r)})
  IN UNION {Answer(f) : f \in best}

NotFound == [address |-> "not found", name |-> "", liquidity |-> 0]

(* No rows, an empty pair and a chain other than Solana are errors.        *)
GetPairInfoByToken(chain, rows) ==
  IF chain # "sol" \/ rows = {} THEN {NotFound}
  ELSE {IF p = Empty THEN NotFound ELSE p : p \in FindOneByChainIdTokenAddress(rows)}
=============================================================================

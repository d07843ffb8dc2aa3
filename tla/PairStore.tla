------------------------------ MODULE PairStore ------------------------------
(***************************************************************************)
(* How the consumer fills the token and pair tables.  For every pair       *)
(* traded in a block SaveTrades starts a goroutine that nobody waits for:  *)
(* a saver.  Savers of one pair, from different blocks or workers, run at  *)
(* the same time; each looks a row up, asks the chain for what is missing, *)
(* and inserts the row or writes the whole of it back.                     *)
(***************************************************************************)
EXTENDS Naturals

CONSTANTS
  Savers,      \* goroutines, one per block and pair
  Pair,        \* the pair of a saver
  Token,       \* the token of a pair
  Block,       \* the block of a saver's trades
  Worthless,   \* savers with no trade left after the filter of SaveTrades
  Program,     \* the program that owns a token's mint: "token" or "token2022"
  Metaplex,    \* tokens with a metadata account
  Unlucky,     \* savers whose calls to the database may fail
  Faults       \* other failures that happen: "rpc"

Pairs == {Pair[s] : s \in Savers}
Tokens == {Token[p] : p \in Pairs}
Coin(s) == Token[Pair[s]]

ASSUME StoreAssumption ==
  /\ \A s \in Savers : Block[s] \in Nat
  /\ \A t \in Tokens : Program[t] \in {"token", "token2022"}
  /\ Worthless \subseteq Savers
  /\ Unlucky \subseteq Savers
  /\ Faults \subseteq {"rpc"}

VARIABLES
  pc,        \* where the saver is
  copy,      \* the token row as the saver read it
  draft,     \* the token row the saver goes on with
  result,    \* how the saver ended
  token,     \* the token table
  pair       \* the pair table

local == <<pc, copy, draft, result>>
vars == <<local, token, pair>>

(* Of a token it matters which columns are filled, of a pair which trade   *)
(* and which token columns it was written from.                            *)
Columns == {"supply", "symbol"}
TokenRow == [program : {"token", "token2022"}, filled : SUBSET Columns, slot : Nat]
PairRow == [block : Nat, latest : Nat, filled : SUBSET Columns, slot : Nat]
NoRow == [program |-> "none"]

Init ==
  /\ pc = [s \in Savers |-> "start"]
  /\ copy = [s \in Savers |-> NoRow]
  /\ draft = [s \in Savers |-> NoRow]
  /\ result = [s \in Savers |-> "none"]
  /\ token = [t \in Tokens |-> NoRow]
  /\ pair = [p \in Pairs |-> NoRow]

(* Mutant: the decoder stamps its trades with their slot.                  *)
StampedSlot(s) == Block[s]

(* DecodePumpInstruction never sets Slot and BlockTime of a trade.         *)
TradeSlot(s) == 0
TradeTime(s) == 0

Goto(s, next) == pc' = [pc EXCEPT ![s] = next] /\ UNCHANGED result
End(s, how) ==
  pc' = [pc EXCEPT ![s] = "done"] /\ result' = [result EXCEPT ![s] = how]

(* A call to the database fails: the saver gives up.                       *)
DbError(s) ==
  /\ s \in Unlucky
  /\ End(s, "error")
  /\ UNCHANGED <<copy, draft, token, pair>>

Start(s) ==
  /\ pc[s] = "start"
  /\ IF s \in Worthless THEN End(s, "nothing") ELSE Goto(s, "findToken")
  /\ UNCHANGED <<copy, draft, token, pair>>

-----------------------------------------------------------------------------
(* What the chain answers; a call that fails leaves the column empty.      *)

(* Mutant: an error of GetTokenProgram leaves the program of a token empty.*)
EmptyProgram(t) == {Program[t], ""}

(* The insert branch takes whatever is not Token2022 for a classic token,  *)
(* an error of GetTokenProgram included.                                   *)
ProgramOnInsert(t) ==
  {Program[t]} \cup (IF "rpc" \in Faults THEN {"token"} ELSE {})

(* GetTokenInfo reads the metadata account, GetToken2022Info the extension *)
(* of the mint: which one is asked depends on the program of the row.      *)
HasMetadata(program, t) ==
  IF program = "token" THEN t \in Metaplex ELSE Program[t] = "token2022"

Available(program, t) ==
  {"supply"} \cup (IF HasMetadata(program, t) THEN {"symbol"} ELSE {})

Answers(program, t) ==
  IF "rpc" \in Faults THEN SUBSET Available(program, t) ELSE {Available(program, t)}

(* Mutant: all columns are asked for again, also those the row has.        *)
Refetched(row, t) ==
  {[row EXCEPT !.filled = new, !.slot = 0] : new \in Answers(row.program, t)}

(* What a row can become when the columns it lacks are asked for.          *)
Filled(row, t) ==
  {[row EXCEPT !.filled = @ \cup new, !.slot = 0] : new \in Answers(row.program, t)}

NewToken(t) ==
  UNION {{[program |-> program, filled |-> new, slot |-> 0] :
            new \in Answers(program, t)} : program \in ProgramOnInsert(t)}

-----------------------------------------------------------------------------
(* SaveToken.                                                              *)

FindToken(s) ==
  /\ pc[s] = "findToken"
  /\ \/ /\ copy' = [copy EXCEPT ![s] = token[Coin(s)]]
        /\ Goto(s, "fetch")
        /\ UNCHANGED <<draft, token, pair>>
     \/ DbError(s)

(* The calls to the chain, before anything is written.  A row found has    *)
(* slot 0, so it is always written back, changed or not.                   *)
Fetch(s) ==
  /\ pc[s] = "fetch"
  /\ \/ /\ copy[s] = NoRow
        /\ \E row \in NewToken(Coin(s)) : draft' = [draft EXCEPT ![s] = row]
        /\ Goto(s, "insertToken")
     \/ /\ copy[s] # NoRow
        /\ \E row \in Filled(copy[s], Coin(s)) : draft' = [draft EXCEPT ![s] = row]
        /\ Goto(s, "updateToken")
  /\ UNCHANGED <<copy, token, pair>>

(* The whole row is written; an error is ignored.                          *)
UpdateToken(s) ==
  /\ pc[s] = "updateToken"
  /\ \/ token' = [token EXCEPT ![Coin(s)] = draft[s]]
     \/ s \in Unlucky /\ UNCHANGED token
  /\ Goto(s, "findPair")
  /\ UNCHANGED <<copy, draft, pair>>

(* Mutant: losing the race for the row is an error.                        *)
DuplicateIsError(s) == End(s, "error")

(* The row that was there first is looked up.                              *)
OnDuplicateToken(s) == Goto(s, "readToken")
OnDuplicatePair(s) == Goto(s, "readPair")

(* Mutant: gorm's Save of a record without id as an upsert.                *)
Upsert(table, key, row) == [table EXCEPT ![key] = row]

(* The unique index keeps the row that was there first.                    *)
InsertRow(table, key, row) ==
  IF table[key] = NoRow THEN [table EXCEPT ![key] = row] ELSE table

(* Mutant: the pair is saved although its token could not be.              *)
GoOnWithoutToken(s) ==
  s \in Unlucky /\ Goto(s, "findPair") /\ UNCHANGED <<copy, draft, token, pair>>

TokenRefused(s) == DbError(s)

InsertToken(s) ==
  /\ pc[s] = "insertToken"
  /\ \/ /\ token' = InsertRow(token, Coin(s), draft[s])
        /\ IF token[Coin(s)] = NoRow THEN Goto(s, "findPair")
           ELSE OnDuplicateToken(s)
        /\ UNCHANGED <<copy, draft, pair>>
     \/ TokenRefused(s)

ReadToken(s) ==
  /\ pc[s] = "readToken"
  /\ \/ /\ draft' = [draft EXCEPT ![s] = token[Coin(s)]]
        /\ Goto(s, "findPair")
        /\ UNCHANGED <<copy, token, pair>>
     \/ DbError(s)

-----------------------------------------------------------------------------
(* SavePair.                                                               *)

NewPair(s) ==
  [block |-> Block[s], latest |-> Block[s], filled |-> draft[s].filled,
   slot |-> TradeSlot(s)]

(* A row found is written again only for a trade with a higher slot, which *)
(* no decoder makes.                                                       *)
Refreshed(s, row) ==
  IF TradeSlot(s) > row.slot
  THEN [block |-> Block[s], latest |-> TradeTime(s),
        filled |-> draft[s].filled \cup (row.filled \ {"symbol"}),
        slot |-> TradeSlot(s)]
  ELSE row

(* Mutant: a pair waits until the supply of its token is known.            *)
OnlyWithSupply(s) == "supply" \in draft[s].filled

(* SavePairInfo logs a missing supply and goes on.                         *)
GoesOn(s) == TRUE

FindPair(s) ==
  /\ pc[s] = "findPair"
  /\ \/ /\ IF ~GoesOn(s) THEN End(s, "ok") /\ UNCHANGED pair
           ELSE IF pair[Pair[s]] = NoRow THEN Goto(s, "insertPair") /\ UNCHANGED pair
           ELSE /\ pair' = [pair EXCEPT ![Pair[s]] = Refreshed(s, @)]
                /\ End(s, "ok")
        /\ UNCHANGED <<copy, draft, token>>
     \/ DbError(s)

(* Mutant: the error of SavePair is logged and forgotten.                  *)
RefusedIsOk(s) ==
  s \in Unlucky /\ End(s, "ok") /\ UNCHANGED <<copy, draft, token, pair>>

PairRefused(s) == DbError(s)

InsertPair(s) ==
  /\ pc[s] = "insertPair"
  /\ \/ /\ pair' = InsertRow(pair, Pair[s], NewPair(s))
        /\ IF pair[Pair[s]] = NoRow THEN End(s, "ok") ELSE OnDuplicatePair(s)
        /\ UNCHANGED <<copy, draft, token>>
     \/ PairRefused(s)

ReadPair(s) ==
  /\ pc[s] = "readPair"
  /\ \/ End(s, "ok") /\ UNCHANGED <<copy, draft, token, pair>>
     \/ DbError(s)

Step(s) ==
  Start(s) \/ FindToken(s) \/ Fetch(s) \/ UpdateToken(s) \/ InsertToken(s)
    \/ ReadToken(s) \/ FindPair(s) \/ InsertPair(s) \/ ReadPair(s)

Next == \E s \in Savers : Step(s)

Spec == Init /\ [][Next]_vars

(* A goroutine runs on: every call it makes returns.                       *)
Fairness == \A s \in Savers : WF_vars(Step(s))

FairSpec == Spec /\ Fairness

-----------------------------------------------------------------------------
(* Rows, copies and drafts are well formed (db.go, token.go).              *)
TypeOK ==
  /\ pc \in [Savers -> {"start", "findToken", "fetch", "updateToken", "insertToken",
                        "readToken", "findPair", "insertPair", "readPair", "done"}]
  /\ copy \in [Savers -> TokenRow \cup {NoRow}]
  /\ draft \in [Savers -> TokenRow \cup {NoRow}]
  /\ result \in [Savers -> {"none", "nothing", "ok", "error"}]
  /\ token \in [Tokens -> TokenRow \cup {NoRow}]
  /\ pair \in [Pairs -> PairRow \cup {NoRow}]

(* Market joins a pair with its token: no pair row without the token row,  *)
(* whatever fails and whoever comes first (SavePairInfo).                  *)
TokenBeforePair == \A p \in Pairs : pair[p] # NoRow => token[Token[p]] # NoRow

(* A saver that ends without an error leaves both rows behind, its own or  *)
(* those of the saver that was faster (SavePairInfo).                      *)
SavedIsStored ==
  \A s \in Savers : result[s] = "ok" =>
    pair[Pair[s]] # NoRow /\ token[Coin(s)] # NoRow

(* Losing a race for a row is no error, and the failures of others are not *)
(* a saver's own: one whose calls to the database work never fails         *)
(* (SaveToken, SavePair: "Duplicate entry").                               *)
RaceIsNoError == \A s \in Savers \ Unlucky : result[s] # "error"

(* A saver with trades and a working database ends with both rows in       *)
(* place, although the chain may answer none of its questions and other    *)
(* savers of the pair give up half-way (SaveTrades).                       *)
TradedIsStored ==
  \A s \in Savers \ (Worthless \cup Unlucky) :
    (pc[s] = "start") ~> (pair[Pair[s]] # NoRow /\ token[Coin(s)] # NoRow)

(* Whole rows are written back, so a token may lose a column; it loses one *)
(* only to a saver that read the row before the column was filled          *)
(* (SaveToken).                                                            *)
ColumnsLostToStaleCopy ==
  [][\A t \in Tokens :
       token[t] # NoRow =>
         \A column \in token[t].filled \ token'[t].filled :
           \E s \in Savers :
             Coin(s) = t /\ pc[s] = "updateToken" /\ column \notin copy[s].filled]_vars

(* The time of the latest trade of a pair never goes back, in whatever     *)
(* order the savers of its blocks come (SavePair).                         *)
LatestNeverBack ==
  [][\A p \in Pairs : pair[p] # NoRow =>
       pair'[p] # NoRow /\ pair'[p].latest >= pair[p].latest]_vars

(* Two savers of a token may have different answers about its program, one *)
(* of them wrong; the row keeps the first, whoever writes it back, so that *)
(* a wrong program is never put right (SaveToken).                         *)
ProgramKept ==
  [][\A t \in Tokens : token[t] # NoRow =>
       token'[t] # NoRow /\ token'[t].program = token[t].program]_vars

(* The tables, read as the abstract ledger.                                *)
Ledger == INSTANCE PairLedger WITH
  Programs <- {"token", "token2022"},
  program <- [t \in Tokens |-> token[t].program],
  listed <- {p \in Pairs : pair[p] # NoRow},
  latest <- [p \in Pairs |-> IF pair[p] = NoRow THEN 0 ELSE pair[p].latest]

(* However savers race and fail, the tables are a ledger: one row per      *)
(* token and pair, never taken back, the token first, its program for      *)
(* good, the latest trade never an older one (SaveToken, SavePair).        *)
StoreSpec == Ledger!Spec

(* sol.sql:49: latest_trade_time is the time of the latest trade.          *)
LatestTradeKept ==
  \A s \in Savers : result[s] = "ok" => pair[Pair[s]].latest >= Block[s]

-----------------------------------------------------------------------------
(* The inductive invariant behind these properties: what a saver may rely  *)
(* on at each point of its run.                                            *)
HasToken(s) ==
  pc[s] \in {"readToken", "findPair", "insertPair", "readPair"} =>
    token[Coin(s)] # NoRow
HasCopy(s) ==
  /\ pc[s] = "fetch" /\ copy[s] # NoRow => token[Coin(s)] # NoRow
  /\ pc[s] = "updateToken" =>
       /\ token[Coin(s)] # NoRow /\ copy[s] # NoRow
       /\ copy[s].filled \subseteq draft[s].filled
HasDraft(s) ==
  pc[s] \in {"updateToken", "insertToken", "findPair", "insertPair", "readPair"} =>
    draft[s] # NoRow
Ended(s) ==
  /\ pc[s] = "readPair" => pair[Pair[s]] # NoRow
  /\ result[s] = "ok" => pair[Pair[s]] # NoRow /\ token[Coin(s)] # NoRow

SaverInv(s) == HasToken(s) /\ HasCopy(s) /\ HasDraft(s) /\ Ended(s)

StoreInv == TypeOK /\ TokenBeforePair /\ \A s \in Savers : SaverInv(s)

(* A saver goes on with the program of the row it read.                    *)
SameProgram(s) ==
  /\ pc[s] \in {"fetch", "updateToken"} /\ copy[s] # NoRow =>
       token[Coin(s)].program = copy[s].program
  /\ pc[s] = "updateToken" => draft[s].program = copy[s].program
ProgramInv == StoreInv /\ \A s \in Savers : SameProgram(s)
=============================================================================

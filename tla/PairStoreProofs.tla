--------------------------- MODULE PairStoreProofs ---------------------------
(* Proofs about PairStore, for any number of savers, pairs and tokens.     *)
EXTENDS PairStore, TLAPS

LEMMA RowsDiffer == NoRow \notin TokenRow /\ NoRow \notin PairRow
<1>1. NoRow \notin TokenRow
  BY DEF NoRow, TokenRow
<1>2. NoRow \notin PairRow
  BY DEF NoRow, PairRow
<1>. QED
  BY <1>1, <1>2

LEMMA KeysExist ==
  ASSUME NEW s \in Savers
  PROVE  Pair[s] \in Pairs /\ Coin(s) \in Tokens
BY DEF Pairs, Tokens, Coin

(* What the chain answers is a row, and a filled row keeps its columns.    *)
LEMMA AnswersType ==
  ASSUME NEW t \in Tokens, NEW prog, NEW new \in Answers(prog, t)
  PROVE  new \subseteq Columns
BY DEF Answers, Available, Columns

LEMMA NewTokenType ==
  ASSUME NEW t \in Tokens, NEW row \in NewToken(t)
  PROVE  row \in TokenRow
<1>1. PICK prog \in ProgramOnInsert(t) :
        row \in {[program |-> prog, filled |-> new, slot |-> 0] :
                   new \in Answers(prog, t)}
  BY DEF NewToken
<1>2. PICK new \in Answers(prog, t) : row = [program |-> prog, filled |-> new, slot |-> 0]
  BY <1>1
<1>3. prog \in {"token", "token2022"}
  BY <1>1, StoreAssumption DEF ProgramOnInsert
<1>. QED
  BY <1>2, <1>3, AnswersType DEF TokenRow

LEMMA FilledType ==
  ASSUME NEW t \in Tokens, NEW old \in TokenRow, NEW row \in Filled(old, t)
  PROVE  row \in TokenRow /\ old.filled \subseteq row.filled
<1>1. PICK new \in Answers(old.program, t) :
        row = [old EXCEPT !.filled = @ \cup new, !.slot = 0]
  BY DEF Filled
<1>. QED
  BY <1>1, AnswersType DEF TokenRow

(* A step of one saver.                                                    *)
LEMMA InsertRowType ==
  ASSUME NEW Keys, NEW Rows, NEW table \in [Keys -> Rows \cup {NoRow}],
         NEW key \in Keys, NEW row \in Rows, NoRow \notin Rows
  PROVE  /\ InsertRow(table, key, row) \in [Keys -> Rows \cup {NoRow}]
         /\ InsertRow(table, key, row)[key] # NoRow
         /\ \A k \in Keys : table[k] # NoRow => InsertRow(table, key, row)[k] = table[k]
         /\ \A k \in Keys : k # key => InsertRow(table, key, row)[k] = table[k]
BY DEF InsertRow

LEMMA NewPairType ==
  ASSUME TypeOK, NEW s \in Savers, draft[s] # NoRow
  PROVE  NewPair(s) \in PairRow
BY StoreAssumption DEF TypeOK, NewPair, PairRow, TokenRow, TradeSlot

(* No decoder sets the slot of a trade, so a row found stays as it is.     *)
LEMMA NeverRefreshed ==
  ASSUME TypeOK, NEW s \in Savers, pair[Pair[s]] # NoRow
  PROVE  Refreshed(s, pair[Pair[s]]) = pair[Pair[s]]
<1>1. pair[Pair[s]] \in PairRow
  BY KeysExist DEF TypeOK
<1>. QED
  BY <1>1 DEF Refreshed, TradeSlot, PairRow

(* A step changes the local state of its own saver only, and the tables as *)
(* far as this says: rows appear, and a token row is written back.         *)
LocalStep(s) ==
  /\ \A r \in Savers \ {s} :
       pc'[r] = pc[r] /\ copy'[r] = copy[r] /\ draft'[r] = draft[r]
         /\ result'[r] = result[r]
TokenStep(s) ==
  \/ UNCHANGED token
  \/ /\ pc[s] = "updateToken"
     /\ token' = [token EXCEPT ![Coin(s)] = draft[s]]
  \/ /\ pc[s] = "insertToken"
     /\ token' = InsertRow(token, Coin(s), draft[s])
PairStep(s) ==
  \/ UNCHANGED pair
  \/ /\ pc[s] = "insertPair"
     /\ pair' = InsertRow(pair, Pair[s], NewPair(s))

LEMMA Locality ==
  ASSUME TypeOK, NEW s \in Savers, Step(s)
  PROVE  LocalStep(s) /\ TokenStep(s) /\ PairStep(s)
<1>. USE DEF TypeOK, LocalStep, TokenStep, PairStep, DbError, Goto, End
<1>1. CASE Start(s)
  BY <1>1 DEF Start
<1>2. CASE FindToken(s)
  BY <1>2 DEF FindToken
<1>3. CASE Fetch(s)
  BY <1>3 DEF Fetch
<1>4. CASE UpdateToken(s)
  BY <1>4 DEF UpdateToken
<1>5. CASE InsertToken(s)
  BY <1>5 DEF InsertToken, TokenRefused, OnDuplicateToken
<1>6. CASE ReadToken(s)
  BY <1>6 DEF ReadToken
<1>7. CASE FindPair(s)
  <2>1. CASE pair[Pair[s]] = NoRow
    BY <1>7, <2>1 DEF FindPair, GoesOn
  <2>2. CASE pair[Pair[s]] # NoRow
    <3>1. [pair EXCEPT ![Pair[s]] = Refreshed(s, @)] = pair
      BY <2>2, NeverRefreshed, KeysExist
    <3>. QED
      BY <1>7, <2>2, <3>1 DEF FindPair, GoesOn
  <2>. QED
    BY <2>1, <2>2
<1>8. CASE InsertPair(s)
  BY <1>8 DEF InsertPair, PairRefused, OnDuplicatePair
<1>9. CASE ReadPair(s)
  BY <1>9 DEF ReadPair
<1>. QED
  BY <1>1, <1>2, <1>3, <1>4, <1>5, <1>6, <1>7, <1>8, <1>9 DEF Step

(* Rows appear in the tables and never vanish.                             *)
LEMMA RowsStay ==
  ASSUME StoreInv, NEW s \in Savers, Step(s)
  PROVE  /\ \A t \in Tokens : token[t] # NoRow => token'[t] # NoRow
         /\ \A p \in Pairs : pair[p] # NoRow => pair'[p] = pair[p]
<1>1. TypeOK /\ SaverInv(s) /\ TokenStep(s) /\ PairStep(s)
  BY Locality DEF StoreInv
<1>2. Pair[s] \in Pairs /\ Coin(s) \in Tokens
  BY KeysExist
<1>3. ASSUME NEW t \in Tokens, token[t] # NoRow
      PROVE  token'[t] # NoRow
  <2>1. CASE pc[s] = "updateToken" /\ token' = [token EXCEPT ![Coin(s)] = draft[s]]
    BY <1>1, <1>2, <1>3, <2>1 DEF SaverInv, HasDraft, TypeOK
  <2>2. CASE pc[s] = "insertToken" /\ token' = InsertRow(token, Coin(s), draft[s])
    BY <1>1, <1>2, <1>3, <2>2 DEF SaverInv, HasDraft, TypeOK, InsertRow
  <2>. QED
    BY <1>1, <1>3, <2>1, <2>2 DEF TokenStep
<1>4. ASSUME NEW p \in Pairs, pair[p] # NoRow
      PROVE  pair'[p] = pair[p]
  BY <1>1, <1>2, <1>4 DEF PairStep, InsertRow, TypeOK
<1>. QED
  BY <1>3, <1>4

-----------------------------------------------------------------------------
(* The invariant.                                                          *)

LEMMA StepType ==
  ASSUME StoreInv, NEW s \in Savers, Step(s)
  PROVE  TypeOK'
<1>1. TypeOK /\ SaverInv(s) /\ LocalStep(s) /\ TokenStep(s) /\ PairStep(s)
  BY Locality DEF StoreInv
<1>2. Pair[s] \in Pairs /\ Coin(s) \in Tokens
  BY KeysExist
<1>3. token' \in [Tokens -> TokenRow \cup {NoRow}]
  <2>1. CASE pc[s] = "updateToken" /\ token' = [token EXCEPT ![Coin(s)] = draft[s]]
    BY <1>1, <1>2, <2>1 DEF TypeOK
  <2>2. CASE pc[s] = "insertToken" /\ token' = InsertRow(token, Coin(s), draft[s])
    BY <1>1, <1>2, <2>2 DEF TypeOK, InsertRow
  <2>. QED
    BY <1>1, <2>1, <2>2 DEF TokenStep, TypeOK
<1>4. pair' \in [Pairs -> PairRow \cup {NoRow}]
  <2>1. CASE pc[s] = "insertPair" /\ pair' = InsertRow(pair, Pair[s], NewPair(s))
    <3>1. NewPair(s) \in PairRow
      BY <1>1, <2>1, NewPairType DEF SaverInv, HasDraft
    <3>. QED
      BY <1>1, <1>2, <2>1, <3>1 DEF TypeOK, InsertRow
  <2>. QED
    BY <1>1, <2>1 DEF PairStep, TypeOK
<1>5. copy' \in [Savers -> TokenRow \cup {NoRow}]
  <2>1. CASE UNCHANGED copy
    BY <1>1, <2>1 DEF TypeOK
  <2>2. CASE copy' = [copy EXCEPT ![s] = token[Coin(s)]]
    BY <1>1, <1>2, <2>2 DEF TypeOK
  <2>. QED
    BY <2>1, <2>2 DEF Step, Start, FindToken, Fetch, UpdateToken, InsertToken, ReadToken,
       FindPair, InsertPair, ReadPair, DbError, TokenRefused, PairRefused
<1>6. draft' \in [Savers -> TokenRow \cup {NoRow}]
  <2>1. CASE UNCHANGED draft
    BY <1>1, <2>1 DEF TypeOK
  <2>2. CASE Fetch(s)
    <3>1. PICK row \in TokenRow : draft' = [draft EXCEPT ![s] = row]
      <4>1. CASE copy[s] = NoRow
        BY <1>2, <2>2, <4>1, NewTokenType DEF Fetch
      <4>2. CASE copy[s] # NoRow
        <5>1. copy[s] \in TokenRow
          BY <1>1, <4>2 DEF TypeOK
        <5>. QED
          BY <1>2, <2>2, <4>2, <5>1, FilledType DEF Fetch
      <4>. QED
        BY <4>1, <4>2
    <3>. QED
      BY <1>1, <3>1 DEF TypeOK
  <2>3. CASE draft' = [draft EXCEPT ![s] = token[Coin(s)]]
    BY <1>1, <1>2, <2>3 DEF TypeOK
  <2>. QED
    BY <2>1, <2>2, <2>3 DEF Step, Start, FindToken, UpdateToken, InsertToken, ReadToken,
       FindPair, InsertPair, ReadPair, DbError, TokenRefused, PairRefused
<1>7. /\ pc' \in [Savers -> {"start", "findToken", "fetch", "updateToken", "insertToken",
                             "readToken", "findPair", "insertPair", "readPair", "done"}]
      /\ result' \in [Savers -> {"none", "nothing", "ok", "error"}]
  <2>1. \/ \E next \in {"findToken", "fetch", "updateToken", "insertToken", "readToken",
                        "findPair", "insertPair", "readPair"} : Goto(s, next)
        \/ \E how \in {"nothing", "ok", "error"} : End(s, how)
    BY DEF Step, Start, FindToken, Fetch, UpdateToken, InsertToken, ReadToken,
       FindPair, InsertPair, ReadPair, DbError, TokenRefused, PairRefused,
       OnDuplicateToken, OnDuplicatePair, GoesOn
  <2>. QED
    BY <1>1, <2>1 DEF TypeOK, Goto, End
<1>. QED
  BY <1>3, <1>4, <1>5, <1>6, <1>7 DEF TypeOK

(* A saver keeps what it relies on while another one takes a step.         *)
LEMMA OthersInv ==
  ASSUME StoreInv, NEW s \in Savers, Step(s), NEW r \in Savers, r # s
  PROVE  SaverInv(r)'
<1>1. SaverInv(r) /\ LocalStep(s)
  BY Locality DEF StoreInv
<1>2. /\ token[Coin(r)] # NoRow => token'[Coin(r)] # NoRow
      /\ pair[Pair[r]] # NoRow => pair'[Pair[r]] # NoRow
  BY RowsStay, KeysExist
<1>3. pc'[r] = pc[r] /\ copy'[r] = copy[r] /\ draft'[r] = draft[r] /\ result'[r] = result[r]
  BY <1>1 DEF LocalStep
<1>4. HasToken(r)'
  BY <1>1, <1>2, <1>3 DEF SaverInv, HasToken, Coin
<1>5. HasCopy(r)'
  BY <1>1, <1>2, <1>3 DEF SaverInv, HasCopy, Coin
<1>6. HasDraft(r)'
  BY <1>1, <1>3 DEF SaverInv, HasDraft
<1>7. Ended(r)'
  BY <1>1, <1>2, <1>3 DEF SaverInv, Ended, Coin
<1>. QED
  BY <1>4, <1>5, <1>6, <1>7 DEF SaverInv

(* What a saver may rely on after its own step.                            *)
LEMMA OwnInv ==
  ASSUME StoreInv, NEW s \in Savers, Step(s)
  PROVE  SaverInv(s)'
<1>1. TypeOK /\ SaverInv(s)
  BY DEF StoreInv
<1>2. Pair[s] \in Pairs /\ Coin(s) \in Tokens
  BY KeysExist
<1>3. /\ token[Coin(s)] # NoRow => token'[Coin(s)] # NoRow
      /\ pair[Pair[s]] # NoRow => pair'[Pair[s]] # NoRow
  BY <1>2, RowsStay
<1>. USE DEF SaverInv, HasToken, HasCopy, HasDraft, Ended, Coin
<1>4. CASE End(s, "error") /\ UNCHANGED <<copy, draft, token, pair>>
  BY <1>1, <1>4 DEF End, TypeOK
<1>5. CASE Start(s)
  BY <1>1, <1>5 DEF Start, Goto, End, TypeOK
<1>6. CASE FindToken(s)
  BY <1>1, <1>4, <1>6 DEF FindToken, Goto, DbError, TypeOK
<1>7. CASE Fetch(s)
  <2>1. CASE copy[s] = NoRow
    <3>1. PICK row \in TokenRow : draft' = [draft EXCEPT ![s] = row]
      BY <1>2, <1>7, <2>1, NewTokenType DEF Fetch
    <3>2. draft'[s] # NoRow
      BY <1>1, <3>1, RowsDiffer DEF TypeOK
    <3>3. pc'[s] = "insertToken" /\ UNCHANGED <<copy, token, pair, result>>
      BY <1>1, <1>7, <2>1 DEF Fetch, Goto, TypeOK
    <3>. QED
      BY <1>1, <3>2, <3>3
  <2>2. CASE copy[s] # NoRow
    <3>1. PICK row \in Filled(copy[s], Coin(s)) : draft' = [draft EXCEPT ![s] = row]
      BY <1>7, <2>2 DEF Fetch
    <3>2. row \in TokenRow /\ copy[s].filled \subseteq row.filled
      BY <1>1, <1>2, <2>2, <3>1, FilledType DEF TypeOK
    <3>3. draft'[s] = row /\ row # NoRow
      BY <1>1, <3>1, <3>2, RowsDiffer DEF TypeOK
    <3>4. pc'[s] = "updateToken" /\ UNCHANGED <<copy, token, pair, result>>
      BY <1>1, <1>7, <2>2 DEF Fetch, Goto, TypeOK
    <3>. QED
      BY <1>1, <1>7, <2>2, <3>2, <3>3, <3>4 DEF Fetch
  <2>. QED
    BY <2>1, <2>2
<1>8. CASE UpdateToken(s)
  BY <1>1, <1>3, <1>8 DEF UpdateToken, Goto, TypeOK
<1>9. CASE InsertToken(s)
  <2>1. CASE token' = InsertRow(token, Coin(s), draft[s])
    <3>1. token'[Coin(s)] # NoRow
      BY <1>1, <1>2, <1>9, <2>1 DEF InsertToken, InsertRow, TypeOK
    <3>. QED
      BY <1>1, <1>3, <1>4, <1>9, <3>1 DEF InsertToken, Goto, OnDuplicateToken,
         TokenRefused, DbError, TypeOK
  <2>. QED
    BY <1>4, <1>9, <2>1 DEF InsertToken, TokenRefused, DbError
<1>10. CASE ReadToken(s)
  BY <1>1, <1>4, <1>10 DEF ReadToken, Goto, DbError, TypeOK
<1>11. CASE FindPair(s)
  <2>1. CASE pair[Pair[s]] = NoRow
    BY <1>1, <1>4, <1>11, <2>1 DEF FindPair, GoesOn, Goto, DbError, TypeOK
  <2>2. CASE pair[Pair[s]] # NoRow
    BY <1>1, <1>3, <1>4, <1>11, <2>2 DEF FindPair, GoesOn, End, DbError, TypeOK
  <2>. QED
    BY <2>1, <2>2
<1>12. CASE InsertPair(s)
  <2>1. CASE pair' = InsertRow(pair, Pair[s], NewPair(s))
    <3>1. NewPair(s) # NoRow
      BY <1>1, <1>12, NewPairType, RowsDiffer DEF InsertPair
    <3>2. pair'[Pair[s]] # NoRow
      BY <1>1, <1>2, <2>1, <3>1 DEF InsertRow, TypeOK
    <3>. QED
      BY <1>1, <1>3, <1>4, <1>12, <3>2 DEF InsertPair, Goto, End, OnDuplicatePair,
         PairRefused, DbError, TypeOK
  <2>. QED
    BY <1>4, <1>12, <2>1 DEF InsertPair, PairRefused, DbError
<1>13. CASE ReadPair(s)
  BY <1>1, <1>4, <1>13 DEF ReadPair, End, DbError, TypeOK
<1>. QED
  BY <1>5, <1>6, <1>7, <1>8, <1>9, <1>10, <1>11, <1>12, <1>13 DEF Step

LEMMA StepTokenFirst ==
  ASSUME StoreInv, NEW s \in Savers, Step(s)
  PROVE  TokenBeforePair'
<1>. SUFFICES ASSUME NEW p \in Pairs, pair'[p] # NoRow
              PROVE  token'[Token[p]] # NoRow
  BY DEF TokenBeforePair
<1>1. Token[p] \in Tokens
  BY DEF Tokens
<1>2. CASE pair[p] # NoRow
  BY <1>1, <1>2, RowsStay DEF StoreInv, TokenBeforePair
<1>3. CASE pair[p] = NoRow
  <2>1. pc[s] = "insertPair" /\ p = Pair[s]
    BY <1>3, Locality DEF StoreInv, PairStep, InsertRow, TypeOK
  <2>2. token[Coin(s)] # NoRow
    BY <2>1 DEF StoreInv, SaverInv, HasToken
  <2>. QED
    BY <1>1, <2>1, <2>2, RowsStay DEF Coin
<1>. QED
  BY <1>2, <1>3

LEMMA InitInv == Init => StoreInv
<1>. SUFFICES ASSUME Init PROVE StoreInv
  OBVIOUS
<1>1. TypeOK
  BY DEF Init, TypeOK
<1>2. \A s \in Savers : Pair[s] \in Pairs /\ Coin(s) \in Tokens
  BY KeysExist
<1>. QED
  BY <1>1, <1>2 DEF Init, StoreInv, TokenBeforePair, SaverInv, HasToken, HasCopy,
     HasDraft, Ended

LEMMA NextInv == StoreInv /\ [Next]_vars => StoreInv'
<1>. SUFFICES ASSUME StoreInv, [Next]_vars PROVE StoreInv'
  OBVIOUS
<1>1. CASE Next
  <2>1. PICK s \in Savers : Step(s)
    BY <1>1 DEF Next
  <2>2. \A r \in Savers : SaverInv(r)'
    BY <2>1, OwnInv, OthersInv
  <2>. QED
    BY <2>1, <2>2, StepType, StepTokenFirst DEF StoreInv
<1>2. CASE UNCHANGED vars
  BY <1>2 DEF vars, local, StoreInv, TypeOK, TokenBeforePair, SaverInv, HasToken,
     HasCopy, HasDraft, Ended, Coin
<1>. QED
  BY <1>1, <1>2

(* The whole invariant, for any number of savers, pairs and tokens.        *)
THEOREM Stored == Spec => []StoreInv
BY InitInv, NextInv, PTL DEF Spec

(* Rows, copies and drafts stay well formed (TypeOK).                      *)
THEOREM StoreTypes == Spec => []TypeOK
BY Stored, PTL DEF StoreInv

(* No pair row without the row of its token, whatever fails.               *)
THEOREM TokenFirst == Spec => []TokenBeforePair
BY Stored, PTL DEF StoreInv

(* A saver that succeeds leaves both rows behind, its own or another's.    *)
THEOREM SuccessIsStored == Spec => []SavedIsStored
<1>1. StoreInv => SavedIsStored
  BY DEF StoreInv, SaverInv, Ended, SavedIsStored
<1>. QED
  BY <1>1, Stored, PTL

(* A column of a token is lost only to a saver whose copy is older than    *)
(* the column.                                                             *)
THEOREM LossesExplained == Spec => ColumnsLostToStaleCopy
<1>1. ASSUME StoreInv, [Next]_vars, NEW t \in Tokens, token[t] # NoRow,
             NEW column \in token[t].filled \ token'[t].filled
      PROVE  \E s \in Savers :
               Coin(s) = t /\ pc[s] = "updateToken" /\ column \notin copy[s].filled
  <2>1. token' # token
    BY <1>1
  <2>2. PICK s \in Savers : Step(s)
    BY <1>1, <2>1 DEF Next, vars
  <2>3. TypeOK /\ SaverInv(s) /\ TokenStep(s) /\ Coin(s) \in Tokens
    BY <1>1, <2>2, Locality, KeysExist DEF StoreInv
  <2>4. CASE pc[s] = "updateToken" /\ token' = [token EXCEPT ![Coin(s)] = draft[s]]
    BY <1>1, <2>3, <2>4 DEF SaverInv, HasCopy, TypeOK
  <2>5. CASE pc[s] = "insertToken" /\ token' = InsertRow(token, Coin(s), draft[s])
    BY <1>1, <2>3, <2>5 DEF InsertRow, TypeOK
  <2>. QED
    BY <2>1, <2>3, <2>4, <2>5 DEF TokenStep
<1>2. StoreInv /\ [Next]_vars =>
        [\A t \in Tokens :
           token[t] # NoRow =>
             \A column \in token[t].filled \ token'[t].filled :
               \E s \in Savers :
                 Coin(s) = t /\ pc[s] = "updateToken" /\ column \notin copy[s].filled]_vars
  BY <1>1
<1>. QED
  BY <1>2, Stored, PTL DEF Spec, ColumnsLostToStaleCopy

(* The time of the latest trade of a pair never goes back.                 *)
THEOREM NeverBack == Spec => LatestNeverBack
<1>1. ASSUME StoreInv, [Next]_vars, NEW p \in Pairs, pair[p] # NoRow
      PROVE  pair'[p] # NoRow /\ pair'[p].latest >= pair[p].latest
  <2>1. pair'[p] = pair[p]
    BY <1>1, RowsStay DEF Next, vars
  <2>2. pair[p].latest \in Nat
    BY <1>1 DEF StoreInv, TypeOK, PairRow
  <2>. QED
    BY <1>1, <2>1, <2>2
<1>2. StoreInv /\ [Next]_vars =>
        [\A p \in Pairs : pair[p] # NoRow =>
           pair'[p] # NoRow /\ pair'[p].latest >= pair[p].latest]_vars
  BY <1>1
<1>. QED
  BY <1>2, Stored, PTL DEF Spec, LatestNeverBack

(* A saver whose database calls work never fails, however the savers race  *)
(* and whatever becomes of the others.                                     *)
THEOREM RacesHarmless == Spec => []RaceIsNoError
<1>1. Init => RaceIsNoError
  BY DEF Init, RaceIsNoError
<1>2. StoreInv /\ RaceIsNoError /\ [Next]_vars => RaceIsNoError'
  <2>. SUFFICES ASSUME StoreInv, RaceIsNoError, [Next]_vars PROVE RaceIsNoError'
    OBVIOUS
  <2>1. ASSUME NEW s \in Savers, Step(s) PROVE RaceIsNoError'
    <3>1. \/ UNCHANGED result \/ End(s, "nothing") \/ End(s, "ok")
          \/ s \in Unlucky /\ End(s, "error")
      BY <2>1 DEF Step, Start, FindToken, Fetch, UpdateToken, InsertToken, ReadToken,
         FindPair, InsertPair, ReadPair, DbError, TokenRefused, PairRefused, Goto,
         OnDuplicateToken, OnDuplicatePair, GoesOn
    <3>. QED
      BY <3>1 DEF RaceIsNoError, End, StoreInv, TypeOK
  <2>2. CASE UNCHANGED vars
    BY <2>2 DEF RaceIsNoError, vars, local
  <2>. QED
    BY <2>1, <2>2 DEF Next
<1>. QED
  BY <1>1, <1>2, Stored, PTL DEF Spec

-----------------------------------------------------------------------------
(* The program of a token.                                                 *)

(* No step changes the program of a row.                                   *)
LEMMA StepKeepsProgram ==
  ASSUME ProgramInv, NEW s \in Savers, Step(s), NEW t \in Tokens, token[t] # NoRow
  PROVE  token'[t] # NoRow /\ token'[t].program = token[t].program
<1>1. StoreInv /\ TypeOK /\ SaverInv(s) /\ SameProgram(s) /\ TokenStep(s)
  BY Locality DEF ProgramInv, StoreInv
<1>2. token'[t] # NoRow
  BY <1>1, RowsStay
<1>3. CASE pc[s] = "updateToken" /\ token' = [token EXCEPT ![Coin(s)] = draft[s]]
  <2>1. CASE t = Coin(s)
    <3>1. token'[t] = draft[s]
      BY <1>1, <1>3, <2>1 DEF TypeOK
    <3>2. copy[s] # NoRow
      BY <1>1, <1>3 DEF SaverInv, HasCopy
    <3>. QED
      BY <1>1, <1>2, <1>3, <2>1, <3>1, <3>2 DEF SameProgram
  <2>2. CASE t # Coin(s)
    BY <1>1, <1>2, <1>3, <2>2 DEF TypeOK
  <2>. QED
    BY <2>1, <2>2
<1>4. CASE pc[s] = "insertToken" /\ token' = InsertRow(token, Coin(s), draft[s])
  BY <1>1, <1>2, <1>4 DEF InsertRow, TypeOK
<1>. QED
  BY <1>1, <1>2, <1>3, <1>4 DEF TokenStep

LEMMA FilledProgram ==
  ASSUME NEW t \in Tokens, NEW old \in TokenRow, NEW row \in Filled(old, t)
  PROVE  row.program = old.program
<1>1. PICK new \in Answers(old.program, t) :
        row = [old EXCEPT !.filled = @ \cup new, !.slot = 0]
  BY DEF Filled
<1>. QED
  BY <1>1 DEF TokenRow

LEMMA OthersProgram ==
  ASSUME ProgramInv, NEW s \in Savers, Step(s), NEW r \in Savers, r # s
  PROVE  SameProgram(r)'
<1>1. LocalStep(s) /\ SameProgram(r) /\ SaverInv(r)
  BY Locality DEF ProgramInv, StoreInv
<1>2. pc'[r] = pc[r] /\ copy'[r] = copy[r] /\ draft'[r] = draft[r]
  BY <1>1 DEF LocalStep
<1>3. token[Coin(r)] # NoRow => token'[Coin(r)].program = token[Coin(r)].program
  BY KeysExist, StepKeepsProgram
<1>4. pc[r] \in {"fetch", "updateToken"} /\ copy[r] # NoRow => token[Coin(r)] # NoRow
  BY <1>1 DEF SaverInv, HasCopy
<1>. QED
  BY <1>1, <1>2, <1>3, <1>4 DEF SameProgram, Coin

LEMMA OwnProgram ==
  ASSUME ProgramInv, NEW s \in Savers, Step(s)
  PROVE  SameProgram(s)'
<1>1. TypeOK /\ SaverInv(s) /\ SameProgram(s)
  BY DEF ProgramInv, StoreInv
<1>. USE DEF SameProgram, Coin
<1>2. CASE FindToken(s)
  <2>1. CASE pc'[s] = "fetch" /\ copy'[s] = token[Coin(s)] /\ UNCHANGED token
    BY <2>1
  <2>2. CASE pc'[s] = "done"
    BY <2>2
  <2>. QED
    BY <1>1, <1>2, <2>1, <2>2 DEF FindToken, Goto, End, DbError, TypeOK
<1>3. CASE Fetch(s)
  <2>1. CASE copy[s] = NoRow
    <3>1. pc'[s] = "insertToken"
      BY <1>1, <1>3, <2>1 DEF Fetch, Goto, TypeOK
    <3>. QED
      BY <3>1
  <2>2. CASE copy[s] # NoRow
    <3>1. PICK row \in Filled(copy[s], Coin(s)) : draft' = [draft EXCEPT ![s] = row]
      BY <1>3, <2>2 DEF Fetch
    <3>2. row.program = copy[s].program
      BY <1>1, <2>2, <3>1, KeysExist, FilledProgram DEF TypeOK
    <3>3. draft'[s] = row /\ UNCHANGED <<copy, token>> /\ pc[s] = "fetch"
      BY <1>1, <1>3, <3>1 DEF Fetch, TypeOK
    <3>. QED
      BY <1>1, <2>2, <3>2, <3>3
  <2>. QED
    BY <2>1, <2>2
<1>4. CASE Step(s) /\ ~FindToken(s) /\ ~Fetch(s)
  <2>1. pc'[s] \in {"findToken", "readToken", "findPair", "insertPair", "readPair", "done"}
    BY <1>1, <1>4 DEF Step, Start, UpdateToken, InsertToken, ReadToken, FindPair,
       InsertPair, ReadPair, DbError, TokenRefused, PairRefused, Goto, End,
       OnDuplicateToken, OnDuplicatePair, GoesOn, TypeOK
  <2>. QED
    BY <2>1
<1>. QED
  BY <1>2, <1>3, <1>4

(* A saver goes on with the program of the row it read.                    *)
LEMMA Programs == Spec => []ProgramInv
<1>1. Init => ProgramInv
  BY InitInv DEF Init, ProgramInv, SameProgram
<1>2. ProgramInv /\ [Next]_vars => ProgramInv'
  <2>. SUFFICES ASSUME ProgramInv, [Next]_vars PROVE ProgramInv'
    OBVIOUS
  <2>1. StoreInv'
    BY NextInv DEF ProgramInv
  <2>2. ASSUME NEW s \in Savers, Step(s), NEW r \in Savers PROVE SameProgram(r)'
    BY <2>2, OwnProgram, OthersProgram
  <2>3. CASE UNCHANGED vars
    BY <2>1, <2>3 DEF ProgramInv, SameProgram, Coin, vars, local
  <2>. QED
    BY <2>1, <2>2, <2>3 DEF Next, ProgramInv
<1>. QED
  BY <1>1, <1>2, PTL DEF Spec

(* The program first recorded for a token stays, right or wrong.           *)
THEOREM ProgramForGood == Spec => ProgramKept
<1>1. ASSUME ProgramInv, [Next]_vars, NEW t \in Tokens, token[t] # NoRow
      PROVE  token'[t] # NoRow /\ token'[t].program = token[t].program
  BY <1>1, StepKeepsProgram DEF Next, vars
<1>2. ProgramInv /\ [Next]_vars =>
        [\A t \in Tokens : token[t] # NoRow =>
           token'[t] # NoRow /\ token'[t].program = token[t].program]_vars
  BY <1>1
<1>. QED
  BY <1>2, Programs, PTL DEF Spec, ProgramKept

-----------------------------------------------------------------------------
(* The ledger of tokens and pairs.                                         *)

LEMMA LedgerInit == Init => Ledger!Init
BY DEF Init, Ledger!Init, NoRow

(* Steps that leave the ledger alone: nothing is written, or the row of a  *)
(* token is written back.                                                  *)
LEMMA LedgerStutter ==
  ASSUME ProgramInv, NEW s \in Savers, Step(s), UNCHANGED pair,
         \A t \in Tokens : token[t] = NoRow => token'[t] = NoRow
  PROVE  UNCHANGED Ledger!ledger
<1>1. \A t \in Tokens : token'[t].program = token[t].program
  BY StepKeepsProgram
<1>. QED
  BY <1>1 DEF Ledger!ledger

LEMMA LedgerToken ==
  ASSUME StoreInv, NEW s \in Savers, pc[s] = "insertToken", UNCHANGED pair,
         token[Coin(s)] = NoRow, token' = InsertRow(token, Coin(s), draft[s])
  PROVE  Ledger!RecordToken(Coin(s))
<1>1. Coin(s) \in Tokens /\ draft[s] \in TokenRow
  BY KeysExist DEF StoreInv, SaverInv, HasDraft, TypeOK
<1>2. /\ token[Coin(s)].program = "none"
      /\ draft[s].program \in {"token", "token2022"}
  BY <1>1 DEF NoRow, TokenRow
<1>3. token' = [token EXCEPT ![Coin(s)] = draft[s]] /\ token \in [Tokens -> TokenRow \cup {NoRow}]
  BY DEF InsertRow, StoreInv, TypeOK
<1>4. [t \in Tokens |-> token'[t].program]
        = [[t \in Tokens |-> token[t].program] EXCEPT ![Coin(s)] = draft[s].program]
  BY <1>1, <1>3
<1>. QED
  BY <1>1, <1>2, <1>4 DEF Ledger!RecordToken

LEMMA LedgerPair ==
  ASSUME StoreInv, NEW s \in Savers, pc[s] = "insertPair", UNCHANGED token,
         pair[Pair[s]] = NoRow, pair' = InsertRow(pair, Pair[s], NewPair(s))
  PROVE  Ledger!RecordPair(Pair[s])
<1> DEFINE p == Pair[s]
           time == [q \in Pairs |-> IF pair[q] = NoRow THEN 0 ELSE pair[q].latest]
<1>1. p \in Pairs /\ Coin(s) \in Tokens
  BY KeysExist
<1>2. draft[s] # NoRow /\ token[Coin(s)] # NoRow /\ TypeOK
  BY DEF StoreInv, SaverInv, HasDraft, HasToken
<1>3. NewPair(s) \in PairRow /\ NewPair(s) # NoRow
  BY <1>2, NewPairType, RowsDiffer
<1>4. pair' = [pair EXCEPT ![p] = NewPair(s)] /\ pair \in [Pairs -> PairRow \cup {NoRow}]
  BY <1>2 DEF InsertRow, TypeOK
<1>5. token[Coin(s)].program # "none"
  BY <1>1, <1>2 DEF TypeOK, TokenRow
<1>6. NewPair(s).latest \in Nat
  BY <1>3 DEF PairRow
<1>7. {q \in Pairs : pair'[q] # NoRow} = {q \in Pairs : pair[q] # NoRow} \cup {p}
  BY <1>1, <1>3, <1>4
<1>8. /\ time' = [time EXCEPT ![p] = NewPair(s).latest]
      /\ time[p] = 0 /\ time'[p] = NewPair(s).latest
  BY <1>1, <1>3, <1>4
<1>9. Ledger!Trade(p)
  <2>1. time'[p] \in Nat /\ time'[p] >= time[p]
    <3>1. NewPair(s).latest >= 0
      BY <1>6
    <3>. QED
      BY <1>6, <1>8, <3>1
  <2>2. time' = [time EXCEPT ![p] = time'[p]]
    BY <1>8, Zenon
  <2>. QED
    BY <2>1, <2>2 DEF Ledger!Trade
<1>10. UNCHANGED [t \in Tokens |-> token[t].program]
  OBVIOUS
<1>11. [t \in Tokens |-> token[t].program][Token[p]] # "none"
  BY <1>1, <1>5 DEF Coin
<1>. QED
  BY <1>1, <1>7, <1>9, <1>10, <1>11 DEF Ledger!RecordPair

LEMMA LedgerStep ==
  ASSUME ProgramInv, NEW s \in Savers, Step(s)
  PROVE  [Ledger!Next]_(Ledger!ledger)
<1>1. StoreInv /\ TypeOK /\ SaverInv(s) /\ TokenStep(s) /\ PairStep(s)
  BY Locality DEF ProgramInv, StoreInv
<1>2. Coin(s) \in Tokens /\ Pair[s] \in Pairs
  BY KeysExist
<1>3. CASE UNCHANGED <<token, pair>>
  BY <1>3, LedgerStutter
<1>4. CASE pc[s] = "updateToken" /\ token' = [token EXCEPT ![Coin(s)] = draft[s]]
  <2>1. UNCHANGED pair /\ token[Coin(s)] # NoRow
    BY <1>1, <1>4 DEF PairStep, SaverInv, HasCopy
  <2>2. \A t \in Tokens : token[t] = NoRow => token'[t] = NoRow
    BY <1>1, <1>4, <2>1 DEF TypeOK
  <2>. QED
    BY <2>1, <2>2, LedgerStutter
<1>5. CASE pc[s] = "insertToken" /\ token' = InsertRow(token, Coin(s), draft[s])
  <2>1. UNCHANGED pair
    BY <1>1, <1>5 DEF PairStep
  <2>2. CASE token[Coin(s)] = NoRow
    BY <1>1, <1>2, <1>5, <2>1, <2>2, LedgerToken DEF Ledger!Next
  <2>3. CASE token[Coin(s)] # NoRow
    BY <1>3, <1>5, <2>1, <2>3 DEF InsertRow
  <2>. QED
    BY <2>2, <2>3
<1>6. CASE pc[s] = "insertPair" /\ pair' = InsertRow(pair, Pair[s], NewPair(s))
  <2>1. UNCHANGED token
    BY <1>1, <1>6 DEF TokenStep
  <2>2. CASE pair[Pair[s]] = NoRow
    BY <1>1, <1>2, <1>6, <2>1, <2>2, LedgerPair DEF Ledger!Next
  <2>3. CASE pair[Pair[s]] # NoRow
    BY <1>3, <1>6, <2>1, <2>3 DEF InsertRow
  <2>. QED
    BY <2>2, <2>3
<1>. QED
  BY <1>1, <1>3, <1>4, <1>5, <1>6 DEF TokenStep, PairStep

(* Savers that race and fail half-way implement the ledger: every step     *)
(* records a token, records a pair whose token is recorded, or is none.    *)
THEOREM LedgerImplemented == Spec => StoreSpec
<1>1. ProgramInv /\ [Next]_vars => [Ledger!Next]_(Ledger!ledger)
  <2>. SUFFICES ASSUME ProgramInv, [Next]_vars PROVE [Ledger!Next]_(Ledger!ledger)
    OBVIOUS
  <2>1. CASE Next
    BY <2>1, LedgerStep DEF Next
  <2>2. CASE UNCHANGED vars
    BY <2>2 DEF vars, Ledger!ledger
  <2>. QED
    BY <2>1, <2>2
<1>. QED
  BY <1>1, LedgerInit, Programs, PTL DEF Spec, StoreSpec, Ledger!Spec

-----------------------------------------------------------------------------
(* What a pair row says of the latest trade.                               *)

(* A row has the time of one of the savers of its pair.                    *)
TimeOfSaver ==
  \A p \in Pairs : pair[p] # NoRow =>
    \E s \in Savers : Pair[s] = p /\ pair[p].latest = Block[s]

LEMMA RowHasSaver == Spec => []TimeOfSaver
<1>1. Init => TimeOfSaver
  BY DEF Init, TimeOfSaver
<1>2. ASSUME StoreInv, TimeOfSaver, [Next]_vars, NEW p \in Pairs, pair'[p] # NoRow
      PROVE  \E s \in Savers : Pair[s] = p /\ pair'[p].latest = Block[s]
  <2>1. CASE pair'[p] = pair[p]
    BY <1>2, <2>1 DEF TimeOfSaver
  <2>2. CASE pair'[p] # pair[p]
    <3>1. PICK s \in Savers : Step(s)
      BY <1>2, <2>2 DEF Next, vars
    <3>2. PairStep(s) /\ TypeOK /\ Pair[s] \in Pairs
      BY <1>2, <3>1, Locality, KeysExist DEF StoreInv
    <3>3. p = Pair[s] /\ pair'[p] = NewPair(s)
      BY <1>2, <2>2, <3>2 DEF PairStep, InsertRow, TypeOK
    <3>. QED
      BY <3>3 DEF NewPair
  <2>. QED
    BY <2>1, <2>2
<1>3. StoreInv /\ TimeOfSaver /\ [Next]_vars => TimeOfSaver'
  BY <1>2 DEF TimeOfSaver
<1>. QED
  BY <1>1, <1>3, Stored, PTL DEF Spec

(* sol.sql:49 is right about latest_trade_time of pairs that are traded in *)
(* one block only; only a second block makes it wrong (LatestTradeKept).   *)
THEOREM LatestInOneBlock ==
  ASSUME \A r, s \in Savers : Pair[r] = Pair[s] => Block[r] = Block[s]
  PROVE  Spec => []LatestTradeKept
<1>1. StoreInv /\ TimeOfSaver => LatestTradeKept
  <2>. SUFFICES ASSUME StoreInv, TimeOfSaver, NEW s \in Savers, result[s] = "ok"
                PROVE  pair[Pair[s]].latest >= Block[s]
    BY DEF LatestTradeKept
  <2>1. Pair[s] \in Pairs /\ pair[Pair[s]] # NoRow /\ Block[s] \in Nat
    BY KeysExist, StoreAssumption DEF StoreInv, SaverInv, Ended
  <2>2. PICK r \in Savers : Pair[r] = Pair[s] /\ pair[Pair[s]].latest = Block[r]
    BY <2>1 DEF TimeOfSaver
  <2>. QED
    BY <2>1, <2>2
<1>. QED
  BY <1>1, Stored, RowHasSaver, PTL

-----------------------------------------------------------------------------
(* What the rows say while the chain answers.                              *)

(* A row has the program of its token and all the columns there are.       *)
Whole(row, t) ==
  row # NoRow => row.program = Program[t] /\ row.filled = Available(Program[t], t)
WholeToken(s) == Whole(copy[s], Coin(s)) /\ Whole(draft[s], Coin(s))

(* Every row of the tables is whole, the columns a pair copies included.   *)
RowsWhole ==
  /\ \A t \in Tokens : Whole(token[t], t)
  /\ \A p \in Pairs :
       pair[p] # NoRow => pair[p].filled = Available(Program[Token[p]], Token[p])
WholeInv == StoreInv /\ RowsWhole /\ \A s \in Savers : WholeToken(s)

LEMMA NewTokenWhole ==
  ASSUME "rpc" \notin Faults, NEW t \in Tokens, NEW row \in NewToken(t)
  PROVE  Whole(row, t)
<1>1. PICK prog \in ProgramOnInsert(t) :
        row \in {[program |-> prog, filled |-> new, slot |-> 0] :
                   new \in Answers(prog, t)}
  BY DEF NewToken
<1>2. prog = Program[t] /\ Answers(prog, t) = {Available(prog, t)}
  BY <1>1 DEF ProgramOnInsert, Answers
<1>. QED
  BY <1>1, <1>2 DEF Whole

LEMMA FilledWhole ==
  ASSUME "rpc" \notin Faults, NEW t \in Tokens, NEW old \in TokenRow, Whole(old, t),
         NEW row \in Filled(old, t)
  PROVE  Whole(row, t)
<1>1. row = [old EXCEPT !.filled = @ \cup Available(old.program, t), !.slot = 0]
  BY DEF Filled, Answers
<1>2. old.program = Program[t] /\ old.filled = Available(Program[t], t)
  BY RowsDiffer DEF Whole
<1>. QED
  BY <1>1, <1>2 DEF Whole, TokenRow

(* What a step makes of the token row its saver has in hand.               *)
LEMMA StepWholeToken ==
  ASSUME "rpc" \notin Faults, WholeInv, NEW s \in Savers, Step(s), NEW r \in Savers
  PROVE  WholeToken(r)'
<1>1. TypeOK /\ LocalStep(s) /\ WholeToken(r) /\ WholeToken(s) /\ Whole(token[Coin(s)], Coin(s))
  BY Locality, KeysExist DEF WholeInv, StoreInv, RowsWhole
<1>2. Coin(s) \in Tokens
  BY KeysExist
<1>3. CASE r # s
  BY <1>1, <1>3 DEF LocalStep, WholeToken, Coin, Whole
<1>4. CASE r = s
  <2>1. \/ UNCHANGED copy
        \/ copy' = [copy EXCEPT ![s] = token[Coin(s)]]
    BY DEF Step, Start, FindToken, Fetch, UpdateToken, InsertToken, ReadToken,
       FindPair, InsertPair, ReadPair, DbError, TokenRefused, PairRefused
  <2>2. Whole(copy'[s], Coin(s))
    BY <1>1, <2>1 DEF TypeOK, WholeToken
  <2>3. Whole(draft'[s], Coin(s))
    <3>1. CASE UNCHANGED draft
      BY <1>1, <3>1 DEF WholeToken
    <3>2. CASE draft' = [draft EXCEPT ![s] = token[Coin(s)]]
      BY <1>1, <3>2 DEF TypeOK
    <3>3. CASE Fetch(s)
      <4>1. PICK row : draft' = [draft EXCEPT ![s] = row] /\ Whole(row, Coin(s))
        <5>1. CASE copy[s] = NoRow
          BY <1>2, <3>3, <5>1, NewTokenWhole DEF Fetch
        <5>2. CASE copy[s] # NoRow
          <6>1. copy[s] \in TokenRow /\ Whole(copy[s], Coin(s))
            BY <1>1, <5>2 DEF TypeOK, WholeToken
          <6>. QED
            BY <1>2, <3>3, <5>2, <6>1, FilledWhole DEF Fetch
        <5>. QED
          BY <5>1, <5>2
      <4>. QED
        BY <1>1, <4>1 DEF TypeOK
    <3>. QED
      BY <3>1, <3>2, <3>3 DEF Step, Start, FindToken, UpdateToken, InsertToken, ReadToken,
         FindPair, InsertPair, ReadPair, DbError, TokenRefused, PairRefused
  <2>. QED
    BY <1>4, <2>2, <2>3 DEF WholeToken, Coin, Whole
<1>. QED
  BY <1>3, <1>4

LEMMA StepRowsWhole ==
  ASSUME WholeInv, NEW s \in Savers, Step(s)
  PROVE  RowsWhole'
<1>1. TypeOK /\ SaverInv(s) /\ TokenStep(s) /\ PairStep(s) /\ RowsWhole /\ WholeToken(s)
  BY Locality DEF WholeInv, StoreInv
<1>2. Coin(s) \in Tokens /\ Pair[s] \in Pairs
  BY KeysExist
<1>3. ASSUME NEW t \in Tokens PROVE Whole(token'[t], t)
  <2>1. CASE token'[t] = token[t]
    BY <1>1, <2>1 DEF RowsWhole
  <2>2. CASE token'[t] # token[t]
    <3>1. t = Coin(s) /\ token'[t] = draft[s]
      BY <1>1, <1>2, <2>2 DEF TokenStep, InsertRow, TypeOK
    <3>. QED
      BY <1>1, <3>1 DEF WholeToken
  <2>. QED
    BY <2>1, <2>2
<1>4. ASSUME NEW p \in Pairs, pair'[p] # NoRow
      PROVE  pair'[p].filled = Available(Program[Token[p]], Token[p])
  <2>1. CASE pair'[p] = pair[p]
    BY <1>1, <1>4, <2>1 DEF RowsWhole
  <2>2. CASE pair'[p] # pair[p]
    <3>1. p = Pair[s] /\ pair'[p] = NewPair(s) /\ pc[s] = "insertPair"
      BY <1>1, <1>2, <2>2 DEF PairStep, InsertRow, TypeOK
    <3>2. draft[s] # NoRow
      BY <1>1, <3>1 DEF SaverInv, HasDraft
    <3>3. pair'[p].filled = draft[s].filled
      BY <3>1 DEF NewPair
    <3>. QED
      BY <1>1, <3>1, <3>2, <3>3 DEF WholeToken, Whole, Coin
  <2>. QED
    BY <2>1, <2>2
<1>5. RowsWhole' = ((\A t \in Tokens : Whole(token'[t], t))
        /\ \A p \in Pairs :
             pair'[p] # NoRow => pair'[p].filled = Available(Program[Token[p]], Token[p]))
  BY DEF RowsWhole, Whole, Available, HasMetadata
<1>. QED
  BY <1>3, <1>4, <1>5

(* While the chain answers every question, each token row has the right    *)
(* program and every column the chain has, each pair row the columns of    *)
(* its token, and no race or failing database makes a row lose one.        *)
THEOREM WholeWhileAnswered ==
  ASSUME "rpc" \notin Faults
  PROVE  Spec => []RowsWhole
<1>1. Init => WholeInv
  BY InitInv, KeysExist DEF Init, WholeInv, RowsWhole, Whole, WholeToken
<1>2. WholeInv /\ [Next]_vars => WholeInv'
  <2>. SUFFICES ASSUME WholeInv, [Next]_vars PROVE WholeInv'
    OBVIOUS
  <2>1. StoreInv'
    BY NextInv DEF WholeInv
  <2>2. CASE Next
    <3>1. PICK s \in Savers : Step(s)
      BY <2>2 DEF Next
    <3>2. RowsWhole' /\ \A r \in Savers : WholeToken(r)'
      BY <3>1, StepRowsWhole, StepWholeToken
    <3>. QED
      BY <2>1, <3>2 DEF WholeInv
  <2>3. CASE UNCHANGED vars
    <3>1. RowsWhole'
      BY <2>3 DEF WholeInv, RowsWhole, Whole, vars
    <3>2. \A r \in Savers : WholeToken(r)'
      BY <2>3 DEF WholeInv, WholeToken, Whole, Coin, vars, local
    <3>. QED
      BY <2>1, <3>1, <3>2 DEF WholeInv
  <2>. QED
    BY <2>2, <2>3
<1>3. WholeInv => RowsWhole
  BY DEF WholeInv
<1>. QED
  BY <1>1, <1>2, <1>3, PTL DEF Spec
=============================================================================

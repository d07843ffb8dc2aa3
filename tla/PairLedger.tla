----------------------------- MODULE PairLedger -----------------------------
(***************************************************************************)
(* What the consumer promises about the tokens and pairs it has seen,      *)
(* without goroutines, copies, failures or lost races.  A token is         *)
(* recorded once, with one program for good; a pair is recorded once,      *)
(* after its token; the time of the latest trade never goes back.          *)
(*                                                                         *)
(* consumer/internal/logic/sol/block/db.go promises it; PairStore is shown *)
(* to implement this module.                                               *)
(***************************************************************************)
EXTENDS Naturals

CONSTANTS
  Tokens,
  Pairs,
  Token,      \* the token of a pair
  Programs    \* the programs that may own a token

VARIABLES
  program,    \* of a token, "none" until it is recorded
  listed,     \* the pairs recorded
  latest      \* the time of the latest trade of a pair

ledger == <<program, listed, latest>>

Init ==
  /\ program = [t \in Tokens |-> "none"]
  /\ listed = {}
  /\ latest = [p \in Pairs |-> 0]

RecordToken(t) ==
  /\ program[t] = "none"
  /\ \E k \in Programs : program' = [program EXCEPT ![t] = k]
  /\ UNCHANGED <<listed, latest>>

(* A trade sets the time of its pair, never to an earlier one.             *)
Trade(p) ==
  /\ latest' = [latest EXCEPT ![p] = latest'[p]]
  /\ latest'[p] \in Nat /\ latest'[p] >= latest[p]

RecordPair(p) ==
  /\ p \notin listed /\ program[Token[p]] # "none"
  /\ listed' = listed \cup {p}
  /\ Trade(p)
  /\ UNCHANGED program

Refresh(p) == p \in listed /\ Trade(p) /\ UNCHANGED <<program, listed>>

Next ==
  \/ \E t \in Tokens : RecordToken(t)
  \/ \E p \in Pairs : RecordPair(p) \/ Refresh(p)

Spec == Init /\ [][Next]_ledger
=============================================================================

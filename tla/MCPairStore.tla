----------------------------- MODULE MCPairStore -----------------------------
(* Savers of a pair p with token t and of a pair q, both with token t.     *)
EXTENDS PairStore, TLC

CONSTANTS s1, s2, s3, s4, p, q, t

PairOfSaver == s1 :> p @@ s2 :> p @@ s3 :> p @@ s4 :> q
TokenOfPair == p :> t @@ q :> t
BlockOfSaver == s1 :> 1 @@ s2 :> 2 @@ s3 :> 3 @@ s4 :> 2
ProgramOfToken == t :> "token2022"
=============================================================================

-------------------------------- MODULE Lists --------------------------------
(* Lists the services build by appending in a loop.                         *)
EXTENDS SequencesExt

IsList(s) == s \in Seq({s[i] : i \in DOMAIN s})

(* The elements of s that are in S, in the order of s.                      *)
Kept(s, S) ==
  FoldLeft(LAMBDA kept, x : IF x \in S THEN Append(kept, x) ELSE kept, <<>>, s)
=============================================================================

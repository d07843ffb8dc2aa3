--------------------------- MODULE MCBlockIngest ---------------------------
(* Small chains for the model checker.                                     *)
EXTENDS BlockIngest

(* One skipped slot, every block shows a price of its own.                 *)
SkipProduced == Slots \ {2}
OwnPrice == [s \in Produced |-> 10 + s]

(* Every slot has a block; one of them shows no price.                     *)
AllProduced == Slots
SecondUnpriced == [s \in Produced |-> IF s = 2 THEN 0 ELSE 10 + s]

(* The parent of a block is the block before it.                           *)
ChainParent ==
  [s \in Produced |->
     CHOOSE p \in {0} \cup Produced :
       p < s /\ \A t \in Produced : t < s => t <= p]
=============================================================================

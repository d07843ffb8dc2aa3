-------------------------- MODULE MCOrderLifecycle --------------------------
(* Small sets of orders for the model checker.                             *)
EXTENDS OrderLifecycle, TLC

CONSTANTS o1, o2, o3, buy, sell

(* o1 and o2 ask for the same swap of the same wallet.                     *)
TwinPayload == [o \in Orders |-> IF o = o3 THEN sell ELSE buy]
=============================================================================

---------------------------- MODULE MCGoFinality ----------------------------
(***************************************************************************)
(* Instances of GoFinality: t1 and t2 are awaited on one listener, t3 on   *)
(* another one that gets full blocks.                                      *)
(***************************************************************************)
EXTENDS GoFinality

CONSTANTS t1, t2, t3, l1, l2, c1

MCListenerOf == [t \in Txs |-> IF t = t3 THEN l2 ELSE l1]
MCCommitterOf == [t \in Txs |-> c1]
=============================================================================

---------------------------- MODULE MCTransaction ----------------------------
(***************************************************************************)
(* Instances of Transaction: c1 and c2 are calls on one object, c3 a call  *)
(* on a second object over the same peers.                                 *)
(***************************************************************************)
EXTENDS Transaction, TLC

CONSTANTS p1, p2, c1, c2, c3, o1, o2, e1, t1, t2, t3

MCObjectOf == (c1 :> o1) @@ (c2 :> o1) @@ (c3 :> o2)
MCEventerOf == [o \in Objects |-> e1]
MCTxId == (c1 :> t1) @@ (c2 :> t2) @@ (c3 :> t3)
\* c1 and c2 on one object, one after the other; c2 and c3 contend for the
\* eventer.
MCKind == (c1 :> "submit") @@ (c2 :> "submitFinal") @@ (c3 :> "submitFinal")
=============================================================================

----------------------------- MODULE MCEventHub -----------------------------
(***************************************************************************)
(* Instances of EventHub: one query of each kind.                          *)
(***************************************************************************)
EXTENDS EventHub, TLC

CONSTANTS single, last, until, future, replay

Call(kind, arg, end) == [kind |-> kind, arg |-> arg, end |-> end]

MCOps ==
    (single :> Call("single", 1, 0)) @@ (last :> Call("last", 0, 0))
    @@ (until :> Call("until", 1, 0)) @@ (future :> Call("future", 1, 0))
    @@ (replay :> Call("replay", 2, 2))

MCOp == [q \in Queries |-> MCOps[q]]
=============================================================================

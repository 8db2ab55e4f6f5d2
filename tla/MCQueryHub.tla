----------------------------- MODULE MCQueryHub -----------------------------
(***************************************************************************)
(* Instances of QueryHub: two joins over peers in common, and a look-up.   *)
(***************************************************************************)
EXTENDS QueryHub, TLC

CONSTANTS j, f, q, p1, p2

MCEndorsersOf == (j :> {p1, p2}) @@ (f :> {p2}) @@ (q :> {p1, p2})
MCKind == (j :> "join") @@ (f :> "joinWithFetch") @@ (q :> "tx")
=============================================================================

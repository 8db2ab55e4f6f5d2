----------------------------- MODULE MCLifecycle -----------------------------
(***************************************************************************)
(* Two organisations.  a approves and commits for A on one peer, k does    *)
(* everything for B on both peers, one call after the other on one object, *)
(* with peers that lag behind: the commits of the two race, and a second   *)
(* approval of one changes what the other had its commit endorsed for.     *)
(***************************************************************************)
EXTENDS Lifecycle, TLC

CONSTANTS a, k, A, B, pa, pb, p1

MCOrgOf == (a :> A) @@ (k :> B)
MCEndorsersOf == (a :> {pa}) @@ (k :> {pa, pb})
MCUses == (a :> <<{"approve"}, {"approve", "commit"}>>) @@
          (k :> <<{"install", "approve", "query"}, {"install", "readiness", "list", "commit"}>>)
MCPoliciesOf == (a :> {p1}) @@ (k :> {})
=============================================================================

---------------------------- MODULE MCCryptoGen ----------------------------
(***************************************************************************)
(* Instances of CryptoGen: two organisations on one CA initialise their    *)
(* admins; then one generates a peer and its TLS root, and a user and a    *)
(* client; or an orderer alone.                                            *)
(***************************************************************************)
EXTENDS CryptoGen, TLC

CONSTANTS r1, r2, r3, r4, r5, r6, admin, admin2, orderer, peer, user, org, client

MCAll == (r1 :> peer) @@ (r2 :> admin) @@ (r3 :> user) @@ (r4 :> org)
    @@ (r5 :> client) @@ (r6 :> admin2)
MCAfter == (r1 :> {r2}) @@ (r2 :> {}) @@ (r3 :> {r1, r4}) @@ (r4 :> {r2})
    @@ (r5 :> {r3}) @@ (r6 :> {})
MCAlone == [r \in Runs |-> orderer]
MCAfterNone == [r \in Runs |-> {}]
MCRole == [n \in Nodes |-> CASE n \in {admin, admin2} -> "admin"
                             [] n = orderer -> "orderer"
                             [] n = peer -> "peer"
                             [] n = user -> "user"
                             [] n = org -> "org"
                             [] n = client -> "client"]
=============================================================================

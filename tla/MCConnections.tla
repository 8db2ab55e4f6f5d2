--------------------------- MODULE MCConnections ---------------------------
(***************************************************************************)
(* Instances of Connections: a peer whose endpoints its own connect, ping, *)
(* streams and disconnect share with a ChaincodeAction's.                  *)
(***************************************************************************)
EXTENDS Connections, TLC

CONSTANTS k, p, s, u, a, x, y, endorser, eventer

MCKind == (k :> "connect") @@ (p :> "ping") @@ (s :> "connectStream")
    @@ (u :> "disconnectStream") @@ (a :> "actionConnect")
    @@ (x :> "disconnect") @@ (y :> "actionDisconnect")

MCPath == (k :> <<endorser, eventer>>) @@ (p :> <<endorser>>)
    @@ (s :> <<eventer>>) @@ (u :> <<eventer>>) @@ (a :> <<endorser, eventer>>)
    @@ (x :> <<endorser, eventer>>) @@ (y :> <<endorser, eventer>>)

MCBefore == [c \in {k, p, a} |-> {}] @@ (x :> {a}) @@ (s :> {p}) @@ (u :> {s}) @@ (y :> {x})
=============================================================================

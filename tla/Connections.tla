---------------------------- MODULE Connections ----------------------------
(***************************************************************************)
(* The connections of a Peer (nodejs/admin/peer.js) or an Orderer          *)
(* (nodejs/admin/orderer.js): one gRPC client (`service`) and one flag     *)
(* (`connected`) for each service endpoint, that connect, ping,            *)
(* connectStream and disconnect set, and that a ChaincodeAction            *)
(* (nodejs/chaincodeAction.js) or a QueryHub over the same peer connects   *)
(* and disconnects as well.  Calls interleave at each await.               *)
(*                                                                         *)
(* External is fabric-common's ServiceEndpoint: connect opens a client and *)
(* waits until it is ready or a deadline has passed, keeping the client in *)
(* either case; being ready sets the flag, a failure may clear it; connect *)
(* on a connected endpoint does nothing or throws; disconnect closes the   *)
(* client, if there is one, and clears the flag.  A wait for a client that *)
(* is closed fails.  connectAttempted, which Orderer.reset clears, is read *)
(* by none of the calls here.                                              *)
(***************************************************************************)
EXTENDS Integers, Sequences, FiniteSetsExt, SequencesExt

CONSTANTS
    Endpoints,     \* the endorsers, eventers, ... of a peer or an orderer
    Calls,
    NoCall,
    Kind,
    Path,          \* per call: the endpoints it goes through, in order
    Before,        \* per call: the calls its caller makes before it
    MaxFailures    \* bound on clients that miss their deadline

Kinds == {"connect", "disconnect", "ping", "connectStream", "disconnectStream",
          "actionConnect", "actionDisconnect"}

ASSUME ConnectionsAssumption ==
    /\ Kind \in [Calls -> Kinds]
    /\ Path \in [Calls -> Seq(Endpoints) \ {<<>>}]
    /\ \A c \in Calls : IsInjective(Path[c])
    /\ Before \in [Calls -> SUBSET Calls]
    /\ NoCall \notin Calls
    /\ MaxFailures \in Nat

VARIABLES
    pc,         \* per call: "idle", "at" an endpoint, "waiting" for its client, ...
    at,         \* per call: index of that endpoint in its path
    answer,     \* per call: "none", or how it ended
    service,    \* per endpoint: the call that opened its client
    connected,  \* endpoints whose flag is set
    stream,     \* per endpoint: "none", "open" or "ended"
    lost,       \* endpoints of which a client was replaced and not closed
    cut,        \* calls under way that saw a disconnect
    failures

calls == <<pc, at, answer>>
clients == <<service, connected, lost>>
vars == <<calls, clients, stream, cut, failures>>

Init ==
    /\ pc = [c \in Calls |-> "idle"]
    /\ at = [c \in Calls |-> 1]
    /\ answer = [c \in Calls |-> "none"]
    /\ service = [e \in Endpoints |-> NoCall]
    /\ connected = {}
    /\ stream = [e \in Endpoints |-> "none"]
    /\ lost = {}
    /\ cut = {}
    /\ failures = 0
-----------------------------------------------------------------------------
Endpoint(c) == Path[c][at[c]]

MayCall(c) == \A d \in Before[c] : answer[d] # "none"

\* A call that is not over is at the endpoint it comes to next.
At(c, kind) ==
    /\ Kind[c] = kind /\ pc[c] \in {"idle", "at"} /\ answer[c] = "none"
    /\ MayCall(c)

Passed(c) == at[c] > Len(Path[c])

Return(c, a) ==
    /\ pc' = [pc EXCEPT ![c] = "idle"]
    /\ at' = [at EXCEPT ![c] = 1]
    /\ answer' = [answer EXCEPT ![c] = a]
    /\ cut' = cut \ {c}

\* A new client in the place of the one that is there, if any.
Open(c, i) ==
    LET e == Path[c][i] IN
    /\ pc' = [pc EXCEPT ![c] = "waiting"]
    /\ at' = [at EXCEPT ![c] = i]
    /\ service' = [service EXCEPT ![e] = c]
    /\ lost' = IF service[e] = NoCall THEN lost ELSE lost \cup {e}
    /\ UNCHANGED <<answer, connected, cut>>

Held(e) == e \in connected \/ service[e] # NoCall

\* Mutant: connect leaves the loop at the first endpoint that it need not open.
OnlyNextToOpen(c) == {i \in {at[c]} \cap DOMAIN Path[c] : ~Held(Path[c][i])}

ToOpen(c) == {i \in at[c]..Len(Path[c]) : ~Held(Path[c][i])}

\* Mutant: an endpoint that is held is an error.
ConnectStrictly(c) ==
    /\ At(c, "connect")
    /\ IF Passed(c) THEN Return(c, "ok") /\ UNCHANGED clients
       ELSE IF Held(Endpoint(c)) THEN Return(c, "error") /\ UNCHANGED clients
       ELSE Open(c, at[c])
    /\ UNCHANGED <<stream, failures>>

\* connect of a peer or an orderer: it passes over what is held without an
\* await, so up to the next endpoint to open nothing comes in between.
Connect(c) ==
    /\ At(c, "connect")
    /\ IF ToOpen(c) = {} THEN Return(c, "ok") /\ UNCHANGED clients
                         ELSE Open(c, Min(ToOpen(c)))
    /\ UNCHANGED <<stream, failures>>

\* ChaincodeAction.connect: ServiceEndpoint.connect of each, held or not.
ActionConnect(c) ==
    /\ At(c, "actionConnect")
    /\ \/ Passed(c) /\ Return(c, "ok") /\ UNCHANGED clients
       \/ ~Passed(c) /\ Endpoint(c) \notin connected /\ Open(c, at[c])
       \/ /\ ~Passed(c) /\ Endpoint(c) \in connected
          /\ pc' = [pc EXCEPT ![c] = "at"]
          /\ at' = [at EXCEPT ![c] = @ + 1]
          /\ UNCHANGED <<answer, clients, cut>>
       \/ /\ ~Passed(c) /\ Endpoint(c) \in connected
          /\ Return(c, "error") /\ UNCHANGED clients
    /\ UNCHANGED <<stream, failures>>

Ping(c) ==
    /\ At(c, "ping")
    /\ IF Passed(c) THEN Return(c, "ok") /\ UNCHANGED clients ELSE Open(c, at[c])
    /\ UNCHANGED <<stream, failures>>

\* connectStream opens a client as ping does; the stream is one of the
\* client that is in `service` after the wait.
ConnectStream(c) ==
    /\ At(c, "connectStream")
    /\ UNCHANGED failures
    /\ \/ ~Passed(c) /\ Open(c, at[c]) /\ UNCHANGED stream
       \/ /\ Passed(c) /\ UNCHANGED clients
          /\ LET e == Last(Path[c]) IN
             IF service[e] = NoCall THEN Return(c, "error") /\ UNCHANGED stream
             ELSE Return(c, "ok") /\ stream' = [stream EXCEPT ![e] = "open"]
-----------------------------------------------------------------------------
\* The wait for a client (ServiceEndpoint.waitForReady).
Ready(c) ==
    /\ pc[c] = "waiting"
    /\ connected' = connected \cup {Endpoint(c)}
    /\ pc' = [pc EXCEPT ![c] = "at"]
    /\ at' = [at EXCEPT ![c] = @ + 1]
    /\ UNCHANGED <<answer, service, lost, stream, cut, failures>>

Fail(c, a) ==
    /\ Return(c, a)
    /\ connected' \in {connected, connected \ {Endpoint(c)}}
    /\ UNCHANGED <<service, lost, stream>>

\* ping answers false when the deadline has passed, and throws otherwise.
Deadline(c) ==
    /\ pc[c] = "waiting"
    /\ failures < MaxFailures /\ failures' = failures + 1
    /\ Fail(c, IF Kind[c] = "ping" THEN "false" ELSE "error")

WaitClosed(c) ==
    /\ pc[c] = "closed"
    /\ Fail(c, "error")
    /\ UNCHANGED failures
-----------------------------------------------------------------------------
\* The calls that wait for the clients of some endpoints.
WaitFor(E) == {c \in Calls : pc[c] = "waiting" /\ Endpoint(c) \in E /\ service[Endpoint(c)] = c}

Close(E) ==
    /\ service' = [e \in Endpoints |-> IF e \in E THEN NoCall ELSE service[e]]
    /\ connected' = connected \ {e \in E : service[e] # NoCall}
    /\ UNCHANGED lost

\* Mutant: the clients are dropped, and not closed.
OthersWaitOn(c, label, E) ==
    /\ pc' = [pc EXCEPT ![c] = label]
    /\ cut' = (cut \cup {d \in Calls : pc[d] # "idle"}) \ {c}

\* What becomes of the other calls when c, now at `label`, closes the clients of E.
Others(c, label, E) ==
    /\ pc' = [d \in Calls |-> IF d = c THEN label ELSE IF d \in WaitFor(E) THEN "closed" ELSE pc[d]]
    /\ cut' = (cut \cup {d \in Calls : pc[d] # "idle"}) \ {c}

\* disconnect of a peer or an orderer, all endpoints in one go: a call of its
\* own, or by the caller of a connect that threw, before it connects again.
Disconnect(c) ==
    /\ pc[c] = "idle"
    /\ \/ Kind[c] = "disconnect" /\ answer[c] = "none" /\ MayCall(c) /\ answer' = [answer EXCEPT ![c] = "ok"]
       \/ Kind[c] = "connect" /\ answer[c] = "error" /\ answer' = [answer EXCEPT ![c] = "none"]
    /\ Close(ToSet(Path[c]))
    /\ Others(c, "idle", ToSet(Path[c]))
    /\ UNCHANGED <<at, stream, failures>>

\* ChaincodeAction.disconnect: one endpoint after the other.
ActionDisconnect(c) ==
    /\ At(c, "actionDisconnect")
    /\ \/ Passed(c) /\ Return(c, "ok") /\ UNCHANGED clients
       \/ /\ ~Passed(c)
          /\ Close({Endpoint(c)})
          /\ Others(c, "at", {Endpoint(c)})
          /\ at' = [at EXCEPT ![c] = @ + 1]
          /\ UNCHANGED answer
    /\ UNCHANGED <<stream, failures>>

\* disconnectStream; without a stream the executor of the promise throws.
\* cancel() of a stream that is open ends it with an error; one that has ended
\* has no error to come, and the promise waits for one.
DisconnectStream(c) ==
    /\ At(c, "disconnectStream")
    /\ LET e == Endpoint(c) IN
       IF stream[e] = "none" THEN Return(c, "error") /\ UNCHANGED stream
       ELSE /\ pc' = [pc EXCEPT ![c] = IF stream[e] = "open" THEN "cancelling" ELSE "hung"]
            /\ stream' = [stream EXCEPT ![e] = "none"]
            /\ UNCHANGED <<at, answer, cut>>
    /\ UNCHANGED <<clients, failures>>

\* 'Cancelled on client', or an error that came before it.
StreamCancelled(c) ==
    /\ pc[c] = "cancelling"
    /\ Return(c, "ok") \/ Return(c, "error")
    /\ UNCHANGED <<clients, stream, failures>>

StreamEnds(e) ==
    /\ stream[e] = "open"
    /\ stream' = [stream EXCEPT ![e] = "ended"]
    /\ UNCHANGED <<calls, clients, cut, failures>>
-----------------------------------------------------------------------------
Progress(c) ==
    \/ Connect(c) \/ ActionConnect(c) \/ Ping(c) \/ ConnectStream(c)
    \/ ActionDisconnect(c) \/ DisconnectStream(c)
    \/ Ready(c) \/ Deadline(c) \/ WaitClosed(c) \/ StreamCancelled(c)

Next ==
    \/ \E c \in Calls : Progress(c) \/ Disconnect(c)
    \/ \E e \in Endpoints : StreamEnds(e)

Spec == Init /\ [][Next]_vars

\* The event loop runs what is due, every wait has its deadline, callers make
\* their calls, and that of a connect that threw disconnects and connects again.
FairSpec ==
    /\ Spec
    /\ \A c \in Calls : WF_vars(Progress(c) \/ Disconnect(c))
-----------------------------------------------------------------------------
TypeOK ==
    /\ \A c \in Calls :
          /\ pc[c] \in {"idle", "at", "waiting", "closed", "cancelling", "hung"}
          /\ at[c] \in 1..Len(Path[c]) + 1
          /\ pc[c] # "idle" => answer[c] = "none"
          /\ pc[c] \in {"waiting", "closed"} => ~Passed(c)
          /\ pc[c] = "waiting" => service[Endpoint(c)] = c \/ Endpoint(c) \in lost
    /\ service \in [Endpoints -> Calls \cup {NoCall}]
    /\ connected \subseteq Endpoints /\ lost \subseteq Endpoints
    /\ stream \in [Endpoints -> {"none", "open", "ended"}]

\* An endpoint whose flag says connected has a client, unless one was replaced
\* without being closed: only then can a late ready set the flag of an endpoint
\* that was disconnected, and every connect after it pass it over.
FlagIsBacked ==
    \A e \in connected : service[e] # NoCall \/ e \in lost

\* When connect returns (nodejs/admin/peer.js:75-84), each of its endpoints is
\* connected, or has the client of a call that failed or still waits, or was
\* disconnected meanwhile, or had a client replaced that was not closed.
ReturnMeansHeld ==
    [][\A c \in Calls : Kind[c] = "connect" /\ answer[c] = "none" /\ answer'[c] = "ok" =>
          c \in cut \/ \A e \in ToSet(Path[c]) : Held(e) \/ e \in lost]_vars

\* Each call ends, but for a disconnectStream of a stream that has ended
\* (nodejs/admin/peer.js:148-166); and connect, repeated after a disconnect
\* while it fails, succeeds once clients get ready.
CallsSettle ==
    <>(\A c \in Calls :
          IF Kind[c] = "connect" THEN answer[c] = "ok" ELSE answer[c] # "none" \/ pc[c] = "hung")
=============================================================================

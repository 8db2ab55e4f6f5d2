-------------------------- MODULE ConnectionsProofs --------------------------
(***************************************************************************)
(* Proofs about Connections, for any endpoints, calls and their paths, and *)
(* any number of clients that miss their deadline.                         *)
(***************************************************************************)
EXTENDS Connections, SequenceTheorems, WellFoundedInduction, TLAPS

Labels == {"idle", "at", "waiting", "closed", "cancelling", "hung"}

Typed ==
    /\ pc \in [Calls -> Labels] /\ at \in [Calls -> Nat] /\ DOMAIN answer = Calls
    /\ service \in [Endpoints -> Calls \cup {NoCall}]
    /\ connected \subseteq Endpoints /\ lost \subseteq Endpoints
    /\ stream \in [Endpoints -> {"none", "open", "ended"}]

\* The client of an endpoint is there, or was replaced without being closed.
Backed(e) == service[e] # NoCall \/ e \in lost

\* A call begins at its first endpoint, and is at one or past them; its wait
\* is for the client of the endpoint, or for one that was replaced.
Placed(c) ==
    /\ at[c] \in 1..Len(Path[c]) + 1
    /\ pc[c] = "idle" => at[c] = 1
    /\ pc[c] # "idle" => answer[c] = "none"
    /\ pc[c] \in {"waiting", "closed"} => ~Passed(c)
    /\ pc[c] = "waiting" => service[Endpoint(c)] = c \/ Endpoint(c) \in lost
    /\ pc[c] = "cancelling" => Kind[c] = "disconnectStream"

\* What a connect has passed is backed, unless it saw a disconnect.
PassedBacked(c) ==
    Kind[c] = "connect" /\ c \notin cut => \A i \in 1..(at[c] - 1) : Backed(Path[c][i])

CallInv(c) == Placed(c) /\ PassedBacked(c)

Inv == Typed /\ FlagIsBacked /\ \A c \in Calls : CallInv(c)
-----------------------------------------------------------------------------
LEMMA Paths ==
    ASSUME NEW c \in Calls
    PROVE  /\ Len(Path[c]) \in Nat /\ Len(Path[c]) >= 1 /\ DOMAIN Path[c] = 1..Len(Path[c])
           /\ \A i \in 1..Len(Path[c]) : Path[c][i] \in Endpoints
<1>1. Path[c] \in Seq(Endpoints) /\ Path[c] # <<>>
  BY ConnectionsAssumption
<1>2. QED BY <1>1, LenProperties, ElementOfSeq, EmptySeq

LEMMA EndpointOf ==
    ASSUME NEW c \in Calls, at[c] \in 1..Len(Path[c]) + 1, ~Passed(c)
    PROVE  Endpoint(c) \in Endpoints
BY Paths DEF Passed, Endpoint

\* No client is dropped: it stays, or another one takes its place and it is
\* among those that were replaced.
Keeps ==
    /\ lost \subseteq lost'
    /\ \A e \in Endpoints : \/ service'[e] = service[e] \/ e \in lost'
                            \/ service[e] = NoCall /\ service'[e] # NoCall

LEMMA BackedStays ==
    ASSUME Keeps, NEW e \in Endpoints, Backed(e)
    PROVE  Backed(e)'
BY DEF Keeps, Backed

\* A call that does not move is as it was, if no client is dropped.
LEMMA Unmoved ==
    ASSUME Keeps, NEW d \in Calls, CallInv(d), d \in cut => d \in cut',
           pc'[d] = pc[d], at'[d] = at[d], answer'[d] = answer[d]
    PROVE  CallInv(d)'
<1>1. Placed(d)'
  <2>1. pc[d] = "waiting" => service'[Endpoint(d)] = d \/ Endpoint(d) \in lost'
    BY EndpointOf, ConnectionsAssumption DEF CallInv, Placed, Keeps
  <2>2. Endpoint(d)' = Endpoint(d) /\ Passed(d)' = Passed(d)
    BY DEF Endpoint, Passed
  <2>3. QED BY <2>1, <2>2 DEF CallInv, Placed
<1>2. PassedBacked(d)'
  <2> SUFFICES ASSUME Kind[d] = "connect", d \notin cut', NEW i \in 1..(at[d] - 1)
               PROVE  Backed(Path[d][i])'
    BY DEF PassedBacked
  <2>1. Backed(Path[d][i]) /\ at[d] \in 1..Len(Path[d]) + 1
    BY DEF CallInv, Placed, PassedBacked
  <2>2. Path[d][i] \in Endpoints
    BY <2>1, Paths
  <2>3. Backed(Path[d][i])'
    BY <2>1, <2>2 DEF Keeps, Backed
  <2>4. QED BY <2>3
<1>3. QED BY <1>1, <1>2 DEF CallInv

\* A step of one call that drops no client.
LEMMA StepOf ==
    ASSUME Inv, Typed', Keeps, NEW c \in Calls, CallInv(c)',
           \A d \in Calls \ {c} : /\ pc'[d] = pc[d] /\ at'[d] = at[d] /\ answer'[d] = answer[d]
                                  /\ d \in cut => d \in cut',
           \A e \in connected' : e \in connected \/ Backed(e)'
    PROVE  Inv'
<1>1. \A d \in Calls \ {c} : CallInv(d)'
  BY Unmoved DEF Inv
<1>2. FlagIsBacked'
  BY BackedStays DEF Inv, Typed, FlagIsBacked, Backed, Keeps
<1>3. QED BY <1>1, <1>2 DEF Inv

\* Whoever returns is back at its first endpoint.
LEMMA ReturnInv ==
    ASSUME Inv, NEW c \in Calls, NEW a, Return(c, a), connected' \subseteq connected,
           UNCHANGED <<service, lost>>, stream' \in [Endpoints -> {"none", "open", "ended"}]
    PROVE  Inv'
<1>1. Typed'
  BY DEF Inv, Typed, Return, Labels
<1>2. Keeps
  BY DEF Keeps
<1>3. pc'[c] = "idle" /\ at'[c] = 1
  BY DEF Inv, Typed, Return
<1>4. CallInv(c)'
  BY <1>3, Paths DEF CallInv, Placed, PassedBacked
<1>5. \A d \in Calls \ {c} : /\ pc'[d] = pc[d] /\ at'[d] = at[d] /\ answer'[d] = answer[d]
                             /\ d \in cut => d \in cut'
  BY DEF Inv, Typed, Return
<1>6. QED BY <1>1, <1>2, <1>4, <1>5, StepOf

\* A client is opened for the endpoint at i, and what is before i is backed.
LEMMA OpenInv ==
    ASSUME Inv, NEW c \in Calls, NEW i \in at[c]..Len(Path[c]), answer[c] = "none", Open(c, i),
           Kind[c] = "connect" => \A j \in at[c]..(i - 1) : Backed(Path[c][j]),
           stream' = stream
    PROVE  Inv'
<1> DEFINE e == Path[c][i]
<1>1. at[c] \in 1..Len(Path[c]) + 1 /\ Len(Path[c]) \in Nat
  BY Paths DEF Inv, CallInv, Placed
<1>2. i \in 1..Len(Path[c]) /\ e \in Endpoints
  BY <1>1, Paths
<1>3. Typed'
  BY <1>2 DEF Inv, Typed, Open, Labels
<1>4. Keeps
  BY <1>2, ConnectionsAssumption DEF Keeps, Open, Inv, Typed
<1>5. /\ pc'[c] = "waiting" /\ at'[c] = i /\ answer'[c] = "none" /\ service'[e] = c
      /\ cut' = cut /\ connected' = connected
  BY <1>2 DEF Inv, Typed, Open
<1>6. Placed(c)'
  BY <1>1, <1>2, <1>5 DEF Placed, Passed, Endpoint
<1>7. PassedBacked(c)'
  <2> SUFFICES ASSUME Kind[c] = "connect", c \notin cut, NEW j \in 1..(i - 1)
               PROVE  Backed(Path[c][j])'
    BY <1>5 DEF PassedBacked
  <2>1. j \in 1..(at[c] - 1) \/ j \in at[c]..(i - 1)
    BY <1>1, <1>2
  <2>2. Backed(Path[c][j])
    BY <2>1 DEF Inv, CallInv, PassedBacked
  <2>3. Path[c][j] \in Endpoints
    BY <1>2, Paths
  <2>4. QED BY <1>4, <2>2, <2>3 DEF Keeps, Backed
<1>8. \A d \in Calls \ {c} : /\ pc'[d] = pc[d] /\ at'[d] = at[d] /\ answer'[d] = answer[d]
                             /\ d \in cut => d \in cut'
  BY DEF Inv, Typed, Open
<1>9. QED BY <1>3, <1>4, <1>5, <1>6, <1>7, <1>8, StepOf DEF CallInv

\* The next endpoint that connect has to open a client for is the first one.
LEMMA FirstToOpen ==
    ASSUME NEW c \in Calls, at[c] \in 1..Len(Path[c]) + 1, ToOpen(c) # {}
    PROVE  /\ Min(ToOpen(c)) \in at[c]..Len(Path[c])
           /\ \A j \in at[c]..(Min(ToOpen(c)) - 1) : Held(Path[c][j])
<1> DEFINE S == ToOpen(c)
<1>1. S \subseteq at[c]..Len(Path[c]) /\ S \subseteq Nat
  BY Paths DEF ToOpen
<1>2. \E x \in S : \A y \in S : x <= y
  <2>1. PICK x \in S : \A y \in S : <<y, x>> \notin OpToRel(<, Nat)
    BY <1>1, NatLessThanWellFounded, WFMin
  <2>2. \A y \in S : ~(y < x)
    BY <1>1, <2>1 DEF OpToRel
  <2>3. QED BY <1>1, <2>2
<1>3. Min(S) \in S /\ \A y \in S : Min(S) <= y
  BY <1>2 DEF Min
<1>4. \A j \in at[c]..(Min(S) - 1) : j \in at[c]..Len(Path[c]) /\ j \notin S
  BY <1>1, <1>3, Paths
<1>5. QED BY <1>1, <1>3, <1>4 DEF ToOpen
-----------------------------------------------------------------------------
LEMMA CallOf ==
    ASSUME Inv, NEW c \in Calls
    PROVE  /\ Typed /\ Placed(c) /\ PassedBacked(c)
           /\ at[c] \in 1..Len(Path[c]) + 1 /\ at[c] \in Nat /\ at[c] >= 1
           /\ Len(Path[c]) \in Nat
           /\ ~Passed(c) => at[c] \in at[c]..Len(Path[c])
<1>1. Typed /\ Placed(c) /\ PassedBacked(c) /\ at[c] \in 1..Len(Path[c]) + 1 /\ Len(Path[c]) \in Nat
  BY Paths DEF Inv, CallInv, Placed
<1>2. QED BY <1>1 DEF Passed

\* Held and backed are the same, but for what was replaced.
LEMMA HeldIsBacked == ASSUME FlagIsBacked, NEW e, Held(e) PROVE Backed(e)
BY DEF FlagIsBacked, Held, Backed

LEMMA ConnectInv == ASSUME Inv, NEW c \in Calls, Connect(c) PROVE Inv'
<1>1. CASE ToOpen(c) = {}
  <2>1. Return(c, "ok") /\ UNCHANGED <<clients, stream>>
    BY <1>1 DEF Connect
  <2>2. QED BY <2>1, ReturnInv DEF clients, Inv, Typed
<1>2. CASE ToOpen(c) # {}
  <2> DEFINE i == Min(ToOpen(c))
  <2>1. i \in at[c]..Len(Path[c]) /\ \A j \in at[c]..(i - 1) : Held(Path[c][j])
    BY <1>2, CallOf, FirstToOpen
  <2>2. Open(c, i) /\ answer[c] = "none" /\ stream' = stream
    BY <1>2 DEF Connect, At
  <2> HIDE DEF i
  <2>3. \A j \in at[c]..(i - 1) : Backed(Path[c][j])
    BY <2>1, HeldIsBacked DEF Inv
  <2>4. QED BY <2>1, <2>2, <2>3, OpenInv
<1>3. QED BY <1>1, <1>2

\* A call other than connect opens a client for the endpoint it is at.
LEMMA OpenHereInv ==
    ASSUME Inv, NEW c \in Calls, Open(c, at[c]), ~Passed(c), answer[c] = "none",
           Kind[c] # "connect", stream' = stream
    PROVE  Inv'
BY CallOf, OpenInv

\* A call goes on to its next endpoint; connect leaves a client behind.
LEMMA AdvanceInv ==
    ASSUME Inv, NEW c \in Calls, ~Passed(c), answer[c] = "none",
           pc' = [pc EXCEPT ![c] = "at"], at' = [at EXCEPT ![c] = @ + 1],
           Kind[c] = "connect" => Backed(Endpoint(c)),
           connected' \in {connected, connected \cup {Endpoint(c)}},
           connected' = connected \/ Backed(Endpoint(c)),
           UNCHANGED <<answer, service, lost, stream, cut>>
    PROVE  Inv'
<1>1. Endpoint(c) \in Endpoints /\ at[c] \in Nat /\ at[c] >= 1 /\ at[c] <= Len(Path[c])
  BY CallOf, EndpointOf DEF Passed
<1>2. Typed'
  BY <1>1 DEF Inv, Typed, Labels
<1>3. Keeps
  BY DEF Keeps
<1>4. pc'[c] = "at" /\ at'[c] = at[c] + 1
  BY DEF Inv, Typed
<1>5. Placed(c)'
  BY <1>1, <1>4, CallOf DEF Placed
<1>6. PassedBacked(c)'
  <2> SUFFICES ASSUME Kind[c] = "connect", c \notin cut, NEW i \in 1..at[c]
               PROVE  Backed(Path[c][i])
    BY <1>1, <1>4 DEF PassedBacked, Backed
  <2>1. i \in 1..(at[c] - 1) \/ i = at[c]
    BY <1>1
  <2>2. QED BY <2>1, CallOf DEF PassedBacked, Endpoint
<1>7. \A d \in Calls \ {c} : /\ pc'[d] = pc[d] /\ at'[d] = at[d] /\ answer'[d] = answer[d]
                             /\ d \in cut => d \in cut'
  BY DEF Inv, Typed
<1>8. \A e \in connected' : e \in connected \/ Backed(e)'
  BY DEF Backed
<1>9. QED BY <1>2, <1>3, <1>5, <1>6, <1>7, <1>8, StepOf DEF CallInv

LEMMA ActionConnectInv == ASSUME Inv, NEW c \in Calls, ActionConnect(c) PROVE Inv'
<1>1. Kind[c] # "connect" /\ answer[c] = "none" /\ stream' = stream
  BY DEF ActionConnect, At
<1>2. CASE UNCHANGED clients /\ \E a \in {"ok", "error"} : Return(c, a)
  BY <1>1, <1>2, ReturnInv DEF clients, Inv, Typed
<1>3. CASE ~Passed(c) /\ Open(c, at[c])
  BY <1>1, <1>3, OpenHereInv
<1>4. CASE /\ ~Passed(c)
           /\ pc' = [pc EXCEPT ![c] = "at"] /\ at' = [at EXCEPT ![c] = @ + 1]
           /\ UNCHANGED <<answer, clients, cut>>
  BY <1>1, <1>4, AdvanceInv DEF clients
<1>5. QED BY <1>2, <1>3, <1>4 DEF ActionConnect

LEMMA PingInv == ASSUME Inv, NEW c \in Calls, Ping(c) PROVE Inv'
<1>1. Kind[c] # "connect" /\ answer[c] = "none" /\ stream' = stream
  BY DEF Ping, At
<1>2. CASE UNCHANGED clients /\ Return(c, "ok")
  BY <1>1, <1>2, ReturnInv DEF clients, Inv, Typed
<1>3. CASE ~Passed(c) /\ Open(c, at[c])
  BY <1>1, <1>3, OpenHereInv
<1>4. QED BY <1>2, <1>3 DEF Ping

LEMMA ConnectStreamInv == ASSUME Inv, NEW c \in Calls, ConnectStream(c) PROVE Inv'
<1>1. Kind[c] # "connect" /\ answer[c] = "none"
  BY DEF ConnectStream, At
<1>2. CASE UNCHANGED clients /\ \E a \in {"ok", "error"} : Return(c, a)
  <2>1. stream' \in [Endpoints -> {"none", "open", "ended"}]
    BY DEF ConnectStream, Inv, Typed
  <2>2. QED BY <1>2, <2>1, ReturnInv DEF clients
<1>3. CASE ~Passed(c) /\ Open(c, at[c]) /\ UNCHANGED stream
  BY <1>1, <1>3, OpenHereInv
<1>4. QED BY <1>2, <1>3 DEF ConnectStream

\* A client that gets ready is the endpoint's, or one that was replaced.
LEMMA ReadyInv == ASSUME Inv, NEW c \in Calls, Ready(c) PROVE Inv'
<1>1. ~Passed(c) /\ answer[c] = "none" /\ Backed(Endpoint(c))
  BY CallOf, ConnectionsAssumption DEF Ready, Placed, Backed
<1>2. QED BY <1>1, AdvanceInv DEF Ready

LEMMA FailInv ==
    ASSUME Inv, NEW c \in Calls, Deadline(c) \/ WaitClosed(c)
    PROVE  Inv'
<1>1. PICK a : Fail(c, a)
  BY DEF Deadline, WaitClosed
<1>2. QED BY <1>1, ReturnInv DEF Fail, Inv, Typed
-----------------------------------------------------------------------------
\* Clients are closed: whoever waits for one of them will fail, every call
\* under way has seen it, and no flag of an endpoint that had one stays.
LEMMA CloseInv ==
    ASSUME Inv, NEW c \in Calls, NEW label \in Labels, NEW E \in SUBSET Endpoints,
           Close(E), Others(c, label, E), UNCHANGED stream,
           at' \in [Calls -> Nat], DOMAIN answer' = Calls,
           \A d \in Calls \ {c} : at'[d] = at[d] /\ answer'[d] = answer[d],
           CallInv(c)'
    PROVE  Inv'
<1>1. Typed'
  <2>1. pc' \in [Calls -> Labels]
    BY DEF Inv, Typed, Others, Labels
  <2>2. service' \in [Endpoints -> Calls \cup {NoCall}]
    BY DEF Inv, Typed, Close
  <2>3. QED BY <2>1, <2>2 DEF Inv, Typed, Close
<1>2. FlagIsBacked'
  <2> SUFFICES ASSUME NEW e \in connected' PROVE service'[e] # NoCall \/ e \in lost'
    BY DEF FlagIsBacked
  <2>1. e \in Endpoints /\ e \in connected /\ (e \in E => service[e] = NoCall) /\ lost' = lost
    BY DEF Close, Inv, Typed
  <2>2. e \notin E => service'[e] = service[e]
    BY <2>1 DEF Close
  <2>3. QED BY <2>1, <2>2 DEF Inv, FlagIsBacked
<1>3. ASSUME NEW d \in Calls \ {c}
      PROVE  CallInv(d)'
  <2>1. /\ pc'[d] = IF d \in WaitFor(E) THEN "closed" ELSE pc[d]
        /\ at'[d] = at[d] /\ answer'[d] = answer[d] /\ lost' = lost
        /\ Endpoint(d)' = Endpoint(d) /\ Passed(d)' = Passed(d)
    BY DEF Others, Close, Endpoint, Passed
  <2>2. Placed(d) /\ at[d] \in 1..Len(Path[d]) + 1
    BY CallOf
  <2>3. d \in WaitFor(E) => pc[d] = "waiting"
    BY DEF WaitFor
  <2>4. pc'[d] = "waiting" => service'[Endpoint(d)] = d \/ Endpoint(d) \in lost'
    <3> SUFFICES ASSUME pc[d] = "waiting", d \notin WaitFor(E), Endpoint(d) \notin lost
                 PROVE  service'[Endpoint(d)] = d
      BY <2>1
    <3>1. service[Endpoint(d)] = d /\ Endpoint(d) \in Endpoints
      BY <2>2, EndpointOf DEF Placed
    <3>2. Endpoint(d) \notin E
      BY <3>1 DEF WaitFor
    <3>3. QED BY <3>1, <3>2 DEF Close
  <2>5. Placed(d)'
    BY <2>1, <2>2, <2>3, <2>4 DEF Placed
  <2>6. PassedBacked(d)'
    <3>1. CASE pc[d] = "idle"
      BY <2>1, <2>2, <3>1 DEF Placed, PassedBacked
    <3>2. CASE pc[d] # "idle"
      BY <3>2 DEF Others, PassedBacked
    <3>3. QED BY <3>1, <3>2
  <2>7. QED BY <2>5, <2>6 DEF CallInv
<1>4. QED BY <1>1, <1>2, <1>3 DEF Inv

LEMMA DisconnectInv == ASSUME Inv, NEW c \in Calls, Disconnect(c) PROVE Inv'
<1> DEFINE E == ToSet(Path[c])
<1>1. E \in SUBSET Endpoints
  BY Paths DEF ToSet
<1>2. /\ pc[c] = "idle" /\ Close(E) /\ Others(c, "idle", E) /\ UNCHANGED <<at, stream>>
      /\ \E a : answer' = [answer EXCEPT ![c] = a]
  BY DEF Disconnect
<1>3. CallInv(c)'
  <2>1. at'[c] = 1 /\ pc'[c] = "idle"
    BY <1>2, CallOf DEF Placed, Others
  <2>2. QED BY <2>1, Paths DEF CallInv, Placed, PassedBacked
<1>4. at' \in [Calls -> Nat] /\ DOMAIN answer' = Calls
  BY <1>2 DEF Inv, Typed
<1>5. \A d \in Calls \ {c} : at'[d] = at[d] /\ answer'[d] = answer[d]
  BY <1>2 DEF Inv, Typed
<1> HIDE DEF E
<1>6. QED BY <1>1, <1>2, <1>3, <1>4, <1>5, CloseInv DEF Labels

LEMMA ActionDisconnectInv == ASSUME Inv, NEW c \in Calls, ActionDisconnect(c) PROVE Inv'
<1>1. Kind[c] # "connect" /\ answer[c] = "none" /\ stream' = stream
  BY DEF ActionDisconnect, At
<1>2. CASE Return(c, "ok") /\ UNCHANGED clients
  BY <1>1, <1>2, ReturnInv DEF clients, Inv, Typed
<1>3. CASE /\ ~Passed(c) /\ Close({Endpoint(c)}) /\ Others(c, "at", {Endpoint(c)})
           /\ at' = [at EXCEPT ![c] = @ + 1] /\ UNCHANGED answer
  <2>1. Endpoint(c) \in Endpoints /\ at[c] \in Nat /\ at[c] >= 1 /\ at[c] <= Len(Path[c])
    BY <1>3, CallOf, EndpointOf DEF Passed
  <2>2. at'[c] = at[c] + 1 /\ pc'[c] = "at" /\ answer'[c] = "none"
    BY <1>1, <1>3 DEF Inv, Typed, Others
  <2>3. CallInv(c)'
    BY <1>1, <2>1, <2>2, CallOf DEF CallInv, Placed, PassedBacked
  <2>4. at' \in [Calls -> Nat] /\ DOMAIN answer' = Calls
    BY <1>3, <2>1 DEF Inv, Typed
  <2>5. \A d \in Calls \ {c} : at'[d] = at[d] /\ answer'[d] = answer[d]
    BY <1>3 DEF Inv, Typed
  <2>6. {Endpoint(c)} \in SUBSET Endpoints
    BY <2>1
  <2>7. QED BY <1>1, <1>3, <2>3, <2>4, <2>5, <2>6, CloseInv DEF Labels
<1>4. QED BY <1>2, <1>3 DEF ActionDisconnect
-----------------------------------------------------------------------------
LEMMA DisconnectStreamInv == ASSUME Inv, NEW c \in Calls, DisconnectStream(c) PROVE Inv'
<1>1. Kind[c] = "disconnectStream" /\ answer[c] = "none" /\ UNCHANGED clients
  BY DEF DisconnectStream, At
<1>2. stream' \in [Endpoints -> {"none", "open", "ended"}]
  BY DEF DisconnectStream, Inv, Typed
<1>3. CASE Return(c, "error")
  BY <1>1, <1>2, <1>3, ReturnInv DEF clients
<1>4. CASE \E label \in {"cancelling", "hung"} :
              pc' = [pc EXCEPT ![c] = label] /\ UNCHANGED <<at, answer, cut>>
  <2>1. pc'[c] \in {"cancelling", "hung"} /\ pc' \in [Calls -> Labels]
    BY <1>4 DEF Inv, Typed, Labels
  <2>2. Typed'
    BY <1>1, <1>2, <1>4, <2>1 DEF Inv, Typed, clients
  <2>3. Keeps
    BY <1>1 DEF Keeps, clients
  <2>4. Placed(c)'
    BY <1>1, <1>4, <2>1, CallOf DEF Placed
  <2>5. PassedBacked(c)'
    BY <1>1 DEF PassedBacked
  <2>6. \A d \in Calls \ {c} : /\ pc'[d] = pc[d] /\ at'[d] = at[d] /\ answer'[d] = answer[d]
                               /\ d \in cut => d \in cut'
    BY <1>4 DEF Inv, Typed
  <2>7. QED BY <1>1, <2>2, <2>3, <2>4, <2>5, <2>6, StepOf DEF CallInv, clients
<1>5. QED BY <1>3, <1>4 DEF DisconnectStream

LEMMA StreamCancelledInv == ASSUME Inv, NEW c \in Calls, StreamCancelled(c) PROVE Inv'
<1>1. \E a \in {"ok", "error"} : Return(c, a)
  BY DEF StreamCancelled
<1>2. UNCHANGED <<clients, stream>>
  BY DEF StreamCancelled
<1>3. QED BY <1>1, <1>2, ReturnInv DEF clients, Inv, Typed

\* Streams, and steps of nobody, leave calls and clients alone.
LEMMA CallsAloneInv ==
    ASSUME Inv, UNCHANGED <<calls, clients, cut>>, stream' \in [Endpoints -> {"none", "open", "ended"}]
    PROVE  Inv'
<1>1. Typed' /\ Keeps
  BY DEF Inv, Typed, Keeps, calls, clients
<1>2. \A d \in Calls : CallInv(d)'
  BY <1>1, Unmoved DEF Inv, calls
<1>3. FlagIsBacked'
  BY DEF Inv, FlagIsBacked, clients
<1>4. QED BY <1>1, <1>2, <1>3 DEF Inv

LEMMA Initially == Init => Inv
<1> SUFFICES ASSUME Init PROVE Inv
  OBVIOUS
<1>1. Typed
  BY DEF Init, Typed, Labels
<1>2. FlagIsBacked
  BY DEF Init, FlagIsBacked
<1>3. \A c \in Calls : CallInv(c)
  BY Paths DEF Init, CallInv, Placed, PassedBacked
<1>4. QED BY <1>1, <1>2, <1>3 DEF Inv

LEMMA Inductive == Inv /\ [Next]_vars => Inv'
<1> SUFFICES ASSUME Inv, [Next]_vars PROVE Inv'
  OBVIOUS
<1>1. ASSUME NEW c \in Calls, Progress(c) PROVE Inv'
  BY <1>1, ConnectInv, ActionConnectInv, PingInv, ConnectStreamInv, ActionDisconnectInv,
     DisconnectStreamInv, ReadyInv, FailInv, StreamCancelledInv DEF Progress
<1>2. ASSUME NEW c \in Calls, Disconnect(c) PROVE Inv'
  BY <1>2, DisconnectInv
<1>3. ASSUME NEW e \in Endpoints, StreamEnds(e) PROVE Inv'
  BY <1>3, CallsAloneInv DEF StreamEnds, Inv, Typed
<1>4. CASE UNCHANGED vars
  BY <1>4, CallsAloneInv DEF vars, Inv, Typed
<1>5. QED BY <1>1, <1>2, <1>3, <1>4 DEF Next

LEMMA Invariant == Spec => []Inv
<1>1. Init => Inv
  BY Initially
<1>2. Inv /\ [Next]_vars => Inv'
  BY Inductive
<1>3. QED BY <1>1, <1>2, PTL DEF Spec
-----------------------------------------------------------------------------
\* Calls and endpoints keep their shape: a call that waits for a client waits
\* for its endpoint's, or for one that another call replaced.
THEOREM TypeCorrect == Spec => []TypeOK
<1>1. Inv => TypeOK
  BY DEF Inv, Typed, CallInv, Placed, TypeOK, Labels
<1>2. QED BY <1>1, Invariant, PTL

\* The flag of an endpoint is that of a client which is there: of the calls
\* that set and clear it (nodejs/admin/peer.js:75-146, nodejs/chaincodeAction.js)
\* none leaves it behind, unless a client was replaced without being closed.
THEOREM FlagsBacked == Spec => []FlagIsBacked
<1>1. Inv => FlagIsBacked
  BY DEF Inv
<1>2. QED BY <1>1, Invariant, PTL

\* The answer of a connect becomes "ok" only where its loop ends.
LEMMA ConnectReturns ==
    ASSUME Inv, [Next]_vars, NEW c \in Calls, Kind[c] = "connect", answer[c] = "none",
           answer'[c] = "ok"
    PROVE  ToOpen(c) = {}
<1>1. answer' # answer
  OBVIOUS
<1>2. \A d \in Calls : \A a :
        Return(d, a) \/ answer' = [answer EXCEPT ![d] = a] => d = c /\ a = "ok"
  BY DEF Return, Inv, Typed
<1>3. ASSUME NEW d \in Calls, Progress(d) PROVE ToOpen(c) = {}
  <2>1. CASE Connect(d)
    BY <1>1, <1>2, <2>1 DEF Connect, Open
  <2>2. CASE ActionConnect(d) \/ Ping(d) \/ ConnectStream(d) \/ ActionDisconnect(d) \/ DisconnectStream(d)
    <3>1. Kind[d] # "connect"
      BY <2>2 DEF ActionConnect, Ping, ConnectStream, ActionDisconnect, DisconnectStream, At
    <3>2. answer' = answer \/ \E a : Return(d, a)
      BY <2>2 DEF ActionConnect, Ping, ConnectStream, ActionDisconnect, DisconnectStream, Open
    <3>3. QED BY <1>1, <1>2, <3>1, <3>2
  <2>3. CASE Ready(d)
    BY <1>1, <2>3 DEF Ready
  <2>4. CASE Deadline(d) \/ WaitClosed(d)
    BY <1>2, <2>4 DEF Deadline, WaitClosed, Fail
  <2>5. CASE StreamCancelled(d)
    <3>1. Kind[d] = "disconnectStream"
      BY <2>5, CallOf DEF StreamCancelled, Placed
    <3>2. \E a : Return(d, a)
      BY <2>5 DEF StreamCancelled
    <3>3. QED BY <1>2, <3>1, <3>2
  <2>6. QED BY <1>3, <2>1, <2>2, <2>3, <2>4, <2>5 DEF Progress
<1>4. ASSUME NEW d \in Calls, Disconnect(d) PROVE ToOpen(c) = {}
  <2>1. \/ Kind[d] = "disconnect" /\ answer' = [answer EXCEPT ![d] = "ok"]
        \/ answer' = [answer EXCEPT ![d] = "none"]
    BY <1>4 DEF Disconnect
  <2>2. QED BY <1>2, <2>1
<1>5. QED BY <1>1, <1>3, <1>4 DEF Next, StreamEnds, calls, vars

\* connect of a peer or an orderer that returns holds a client for each of its
\* endpoints, of its own or another's, whatever calls came in while it waited
\* for one after the other (nodejs/admin/peer.js:75-84), a disconnect apart.
THEOREM ReturnHeld == Spec => ReturnMeansHeld
<1>1. Inv /\ [Next]_vars =>
        \A c \in Calls : Kind[c] = "connect" /\ answer[c] = "none" /\ answer'[c] = "ok" =>
          c \in cut \/ \A e \in ToSet(Path[c]) : Held(e) \/ e \in lost
  <2> SUFFICES ASSUME Inv, [Next]_vars, NEW c \in Calls, Kind[c] = "connect",
                      answer[c] = "none", answer'[c] = "ok", c \notin cut,
                      NEW i \in 1..Len(Path[c])
               PROVE  Held(Path[c][i]) \/ Path[c][i] \in lost
    BY Paths DEF ToSet
  <2>1. ToOpen(c) = {}
    BY ConnectReturns
  <2>2. i \in 1..(at[c] - 1) \/ i \in at[c]..Len(Path[c])
    BY CallOf
  <2>3. CASE i \in 1..(at[c] - 1)
    BY <2>3, CallOf DEF PassedBacked, Backed, Held
  <2>4. CASE i \in at[c]..Len(Path[c])
    BY <2>1, <2>4 DEF ToOpen
  <2>5. QED BY <2>2, <2>3, <2>4
<1>2. QED BY <1>1, Invariant, PTL DEF Spec, ReturnMeansHeld
=============================================================================

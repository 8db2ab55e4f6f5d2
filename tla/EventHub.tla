------------------------------ MODULE EventHub ------------------------------
(***************************************************************************)
(* An EventHub (nodejs/admin/eventHub.js) and the queries EventHubQuery    *)
(* (nodejs/eventHub.js) runs on it: build a seek, register a listener,     *)
(* connect, and settle a promise from what the listener is called with.    *)
(* Transaction models waitForTx, the sixth query, in its place.            *)
(*                                                                         *)
(* The EventService of fabric-common, its Eventer and the peer or orderer  *)
(* behind it are the environment.  Blocks are numbers from 0; every block  *)
(* has one transaction, so a replay of transactions is one of blocks.      *)
(***************************************************************************)
EXTENDS Integers, Sequences

CONSTANTS
    Queries,         \* calls of the queries
    Op,              \* per query: [kind, arg], replays also [end]
    NoQuery,         \* nobody
    MaySignOffline,  \* a signing process may be set on the hub
    MaxHeight        \* bound on the chain

Kinds == {"single", "last", "until", "future", "replay"}

ASSUME EventHubAssumption ==
    /\ Op \in [Queries -> [kind : Kinds, arg : Nat, end : Nat]]
    /\ NoQuery \notin Queries
    /\ MaySignOffline \in BOOLEAN
    /\ MaxHeight \in Nat \ {0}

VARIABLES
    height,     \* blocks on the chain: 0 .. height - 1
    offline,    \* the hub has a signing process
    payload,    \* the query whose seek the EventService holds
    signed,     \* the query whose seek the signature it holds is for
    signing,    \* the queries whose build() awaits the signature
    phase,      \* of the deliver stream: "none", "opening" or "open"
    seek,       \* the seek of the stream, and the one its signature is for
    next,       \* the block the stream sends next
    listening,  \* queries with a registered listener
    state,      \* per query: "idle", "waiting", "resolved" or "rejected"
    got,        \* per query: the blocks its callback kept
    value,      \* per query: the block its promise resolved with
    refused,    \* queries whose connect(), which nobody awaits, failed
    asked       \* per query: the height of the chain when it was called

service == <<offline, payload, signed, signing>>
stream == <<phase, seek, next>>
promises == <<state, got, value>>
vars == <<height, service, stream, listening, promises, refused, asked>>

Init ==
    /\ height = 1
    /\ offline = FALSE
    /\ payload = NoQuery
    /\ signed = NoQuery
    /\ signing = {}
    /\ phase = "none"
    /\ seek = [sent |-> NoQuery, signed |-> NoQuery]
    /\ next = 0
    /\ listening = {}
    /\ state = [q \in Queries |-> "idle"]
    /\ got = [q \in Queries |-> <<>>]
    /\ value = [q \in Queries |-> 0]
    /\ refused = {}
    /\ asked = [q \in Queries |-> 0]
-----------------------------------------------------------------------------
Waiting(q) == state[q] = "waiting"
Settled(q) == state[q] \in {"resolved", "rejected"}

\* endBlock undefined is Long.MAX_VALUE, here a block past the bound.
MaxValue == MaxHeight

\* Mutant: NEWEST taken for the block before the newest.
StartBeforeNewest(q) ==
    CASE Op[q].kind = "single" -> Op[q].arg
      [] Op[q].kind \in {"last", "future"} -> height - 2
      [] Op[q].kind \in {"until", "replay"} -> 0

\* Mutant: waitUntilBlock seeks from NEWEST, as the other waits do.
UntilFromNewest(q) ==
    CASE Op[q].kind = "single" -> Op[q].arg
      [] Op[q].kind \in {"last", "future", "until"} -> height - 1
      [] Op[q].kind = "replay" -> 0

\* The first and the last block of the seek a query has build() make, the
\* first one at the time the peer opens the stream.
StartBlock(q) ==
    CASE Op[q].kind = "single" -> Op[q].arg
      [] Op[q].kind \in {"last", "future"} -> height - 1
      [] Op[q].kind \in {"until", "replay"} -> 0

EndBlock(q) ==
    CASE Op[q].kind = "single" -> Op[q].arg
      [] Op[q].kind = "replay" -> Op[q].end
      [] OTHER -> MaxValue

\* The first part of build(), up to the signature: the payload is replaced at
\* once; a signing process answers later.
Build(q) ==
    /\ payload' = q
    /\ signed' = IF offline THEN signed ELSE q
    /\ signing' = IF offline THEN signing \cup {q} ELSE signing
    /\ UNCHANGED offline

\* connect(): EventService.send refuses an unsigned seek, and an eventer that is
\* not connected or occupied by another hub; else the seek goes out under the
\* signature in place.
Connect(q) ==
    \/ /\ signed' # NoQuery
       /\ phase' = "opening"
       /\ seek' = [sent |-> payload', signed |-> signed']
       /\ next' = 0
       /\ UNCHANGED refused
    \/ /\ refused' = refused \cup {q}
       /\ UNCHANGED stream

\* A query: build, which is not awaited, then register and connect, not
\* awaited either.  Callers of this repository wait for a query and disconnect
\* before the next one.
Query(q) ==
    /\ state[q] = "idle"
    /\ phase = "none" /\ \A r \in Queries : ~Waiting(r)
    /\ Build(q)
    /\ listening' = listening \cup {q}
    /\ Connect(q)
    /\ state' = [state EXCEPT ![q] = "waiting"]
    /\ asked' = [asked EXCEPT ![q] = height]
    /\ UNCHANGED <<height, got, value>>

\* The signature build() awaited is set on the service.
SignatureArrives(q) ==
    /\ q \in signing
    /\ signed' = q
    /\ signing' = signing \ {q}
    /\ UNCHANGED <<height, offline, payload, stream, listening, promises, refused, asked>>

\* The setter signingProcess.
SetSigningProcess ==
    /\ MaySignOffline
    /\ ~offline
    /\ offline' = TRUE
    /\ UNCHANGED <<height, payload, signed, signing, stream, listening, promises, refused, asked>>
-----------------------------------------------------------------------------
\* The callbacks.  A block is kept, or the promise resolves with it, or it is
\* passed over.
Keeps(q, block) ==
    \/ Op[q].kind = "future" /\ Len(got[q]) < Op[q].arg
    \/ Op[q].kind = "replay"

\* Mutant: replayTx counts before it keeps.
CountsBeforeKeeping(q, block) ==
    CASE Op[q].kind \in {"single", "until"} -> block = Op[q].arg
      [] Op[q].kind = "last" -> TRUE
      [] Op[q].kind \in {"future", "replay"} -> Len(got[q]) >= Op[q].arg

Resolves(q, block) ==
    CASE Op[q].kind \in {"single", "until"} -> block = Op[q].arg
      [] Op[q].kind = "last" -> TRUE
      [] Op[q].kind = "future" -> Len(got[q]) >= Op[q].arg
      [] Op[q].kind = "replay" -> Len(got[q]) + 1 >= Op[q].arg

\* Registered with {unregister: true}: dropped after the first event.
OneShot(q) == Op[q].kind \in {"single", "last"}

\* Mutant: the callback resolves and stays registered.
StaysRegistered(q, block) == FALSE

\* A callback takes its listener off when it resolves.
Unregisters(q, block) == Resolves(q, block)

\* An error rejects, but for two callbacks: the one of getSingleBlock ignores
\* it, the one of getLastBlock throws as it destructures the missing event.
RejectsOnError(q) == Op[q].kind \in {"until", "future", "replay"}

\* The stream's next block is handed to every listener.
ReceiveBlock ==
    /\ phase = "open"
    /\ next < height
    /\ next <= EndBlock(seek.sent)
    /\ got' = [q \in Queries |-> IF q \in listening /\ Waiting(q) /\ Keeps(q, next)
                                 THEN Append(got[q], next) ELSE got[q]]
    /\ state' = [q \in Queries |-> IF q \in listening /\ Waiting(q) /\ Resolves(q, next)
                                   THEN "resolved" ELSE state[q]]
    /\ value' = [q \in Queries |-> IF q \in listening /\ Waiting(q) /\ Resolves(q, next)
                                   THEN next ELSE value[q]]
    /\ listening' = {q \in listening : ~OneShot(q) /\ ~Unregisters(q, next)}
    /\ next' = next + 1
    /\ UNCHANGED <<height, service, phase, seek, refused, asked>>

\* The EventService closes: every listener is called with an error, then
\* dropped.
Close ==
    /\ phase' = "none"
    /\ state' = [q \in Queries |-> IF q \in listening /\ Waiting(q) /\ RejectsOnError(q)
                                   THEN "rejected" ELSE state[q]]
    /\ listening' = {}
    /\ UNCHANGED <<height, service, seek, next, got, value, refused, asked>>

\* The caller disconnects once its query is settled.
Disconnect ==
    /\ phase # "none"
    /\ \E q \in Queries : Settled(q)
    /\ \A q \in Queries : ~Waiting(q)
    /\ Close

\* The peer or orderer.
OpenStream ==
    /\ phase = "opening"
    /\ seek.signed = seek.sent
    /\ phase' = "open"
    /\ next' = StartBlock(seek.sent)
    /\ UNCHANGED <<height, service, seek, listening, promises, refused, asked>>

\* The end block has been sent, the signature is bad, or the stream fails.
EndOfSeek == phase = "open" /\ next > EndBlock(seek.sent) /\ Close
BadSignature == phase = "opening" /\ seek.signed # seek.sent /\ Close
StreamFails == phase # "none" /\ Close

NewBlock ==
    /\ height < MaxHeight
    /\ height' = height + 1
    /\ UNCHANGED <<service, stream, listening, promises, refused, asked>>

Next ==
    \/ \E q \in Queries : Query(q) \/ SignatureArrives(q)
    \/ SetSigningProcess \/ ReceiveBlock \/ Disconnect
    \/ OpenStream \/ EndOfSeek \/ BadSignature \/ StreamFails \/ NewBlock

Spec == Init /\ [][Next]_vars

(***************************************************************************)
(* The peer serves an open stream, the chain grows (up to the bound), and  *)
(* the caller's finally runs.  Nothing is assumed of stream failures.      *)
(***************************************************************************)
Fairness ==
    /\ WF_vars(ReceiveBlock) /\ WF_vars(OpenStream) /\ WF_vars(EndOfSeek)
    /\ WF_vars(BadSignature) /\ WF_vars(NewBlock) /\ WF_vars(Disconnect)
    /\ \A q \in Queries : WF_vars(SignatureArrives(q))

FairSpec == Spec /\ Fairness
-----------------------------------------------------------------------------
TypeOK ==
    /\ height \in 1..MaxHeight
    /\ offline \in BOOLEAN
    /\ payload \in Queries \cup {NoQuery} /\ signed \in Queries \cup {NoQuery}
    /\ signing \subseteq Queries
    /\ phase \in {"none", "opening", "open"}
    /\ seek \in [sent : Queries \cup {NoQuery}, signed : Queries \cup {NoQuery}]
    /\ phase # "none" => seek.sent \in Queries
    /\ next \in Nat
    /\ listening \subseteq Queries /\ refused \subseteq Queries
    /\ state \in [Queries -> {"idle", "waiting", "resolved", "rejected"}]
    /\ got \in [Queries -> Seq(Nat)]
    /\ value \in [Queries -> Nat]
    /\ asked \in [Queries -> Nat]

\* A promise resolves with the block its query is about: the block asked for,
\* a last block no older than the call, the block that is "arg" ahead of the
\* newest one, and for a replay every transaction from the first to the
\* "arg"-th, whatever other queries ran on the hub before.  A replay keeps before
\* it counts: asked for none, it gets one.
AnswerFitsQuery ==
    \A q \in Queries : state[q] = "resolved" =>
        /\ value[q] < height
        /\ Op[q].kind \in {"single", "until"} => value[q] = Op[q].arg
        /\ Op[q].kind = "last" => value[q] >= asked[q] - 1
        /\ Op[q].kind = "future" => value[q] >= asked[q] - 1 + Op[q].arg
        /\ Op[q].kind = "replay" =>
               got[q] = [i \in 1..(IF Op[q].arg = 0 THEN 1 ELSE Op[q].arg) |-> i - 1]

\* A hub outlives its queries, but no listener is left on it that nobody waits
\* for and that would answer to the blocks of the next query.
HubIsClean == listening \subseteq {q \in Queries : Waiting(q)}

\* The caller of a query learns of its end, but for three ways to wait for
\* good: connect() failed, which nobody awaits; its listener was called with
\* an error, or taken off, and its callback does not reject on errors; or the
\* blocks it needs never come.
Starved(q) ==
    Op[q].kind = "future" /\ q \in listening /\ phase = "open" /\ next = MaxHeight

QuerySettles ==
    \A q \in Queries :
        Waiting(q) ~> \/ Settled(q)
                      \/ q \in refused
                      \/ q \notin listening /\ ~RejectsOnError(q)
                      \/ Starved(q)
=============================================================================

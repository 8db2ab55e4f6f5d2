---------------------------- MODULE OrdererDeliver ----------------------------
(***************************************************************************)
(* Blocks fetched from an orderer: Orderer.sendDeliver                     *)
(* (nodejs/admin/orderer.js) under SigningIdentityUtil.getSpecificBlock    *)
(* (nodejs/admin/signingIdentity.js).  An attempt opens a stream, sends    *)
(* one seek request and settles a promise from whichever of the stream's   *)
(* events and the timer comes first.  The others still come, and act on    *)
(* their own attempt only.  A call may be told to try again while the      *)
(* orderer is unavailable.                                                 *)
(*                                                                         *)
(* The orderer and the network are the environment: the events of a stream *)
(* come in the order they were sent, each after any delay.                 *)
(***************************************************************************)
EXTENDS Integers, Sequences

CONSTANTS
    Calls,              \* calls of getSpecificBlock
    Newest,             \* the position of the newest block
    Wanted,             \* per call: a block number, or Newest
    WaitIfUnavailable,  \* the calls that try again
    NoAnswer, Failed, Undefined,  \* answers that are no block
    MaxHeight           \* bound on the number of the newest block

ASSUME OrdererDeliverAssumption ==
    /\ Newest \notin Nat
    /\ Wanted \in [Calls -> Nat \cup {Newest}]
    /\ WaitIfUnavailable \subseteq Calls
    /\ MaxHeight \in Nat

VARIABLES
    height,     \* number of the orderer's newest block
    available,  \* the orderer serves the channel
    pc,         \* per call
    answer,     \* per call: what it was answered
    asked,      \* per call: the height when it began
    timer,      \* per attempt: the timer is set
    stream,     \* per attempt: the client's side of the stream
    responses,  \* per attempt: the blocks that came
    wire,       \* per attempt: events on their way to the client
    server,     \* per attempt: the orderer's side of the stream
    silent      \* per attempt: the orderer ended it without a status

orderer == <<height, available>>
calling == <<pc, answer, asked>>
vars == <<orderer, calling, timer, stream, responses, wire, server, silent>>

Init ==
    /\ height = 0
    /\ available \in BOOLEAN
    /\ pc = [c \in Calls |-> "idle"]
    /\ answer = [c \in Calls |-> NoAnswer]
    /\ asked = [c \in Calls |-> 0]
    /\ timer = [c \in Calls |-> FALSE]
    /\ stream = [c \in Calls |-> "none"]
    /\ responses = [c \in Calls |-> <<>>]
    /\ wire = [c \in Calls |-> <<>>]
    /\ server = [c \in Calls |-> "none"]
    /\ silent = [c \in Calls |-> FALSE]
-----------------------------------------------------------------------------
\* sendDeliver: a new stream, timer and request.
SendDeliver(c) ==
    /\ timer' = [timer EXCEPT ![c] = TRUE]
    /\ stream' = [stream EXCEPT ![c] = "open"]
    /\ responses' = [responses EXCEPT ![c] = <<>>]
    /\ wire' = [wire EXCEPT ![c] = <<>>]
    /\ server' = [server EXCEPT ![c] = "reading"]
    /\ silent' = [silent EXCEPT ![c] = FALSE]
    /\ pc' = [pc EXCEPT ![c] = "waiting"]
    /\ UNCHANGED <<orderer, answer>>

GetSpecificBlock(c) ==
    /\ pc[c] = "idle"
    /\ asked' = [asked EXCEPT ![c] = height]
    /\ SendDeliver(c)

SendTry(c) ==
    /\ pc[c] = "sleeping"
    /\ UNCHANGED asked
    /\ SendDeliver(c)

\* Half-close; a stream that is over stays so.
End(c) == stream' = [stream EXCEPT ![c] = IF @ = "open" THEN "ended" ELSE @]

\* The promise settles once: what comes later is ignored.
Settle(c, a) ==
    IF pc[c] = "waiting"
    THEN pc' = [pc EXCEPT ![c] = "done"] /\ answer' = [answer EXCEPT ![c] = a]
    ELSE UNCHANGED <<pc, answer>>

Comes(c, type) == wire[c] # <<>> /\ Head(wire[c]).type = type

Received(c) == wire' = [wire EXCEPT ![c] = Tail(@)]

\* Mutant: a block is taken for a sign of life.
OnBlockInTime(c) ==
    /\ Comes(c, "block")
    /\ responses' = [responses EXCEPT ![c] = Append(@, Head(wire[c]).block)]
    /\ timer' = [timer EXCEPT ![c] = FALSE]
    /\ Received(c)
    /\ UNCHANGED <<orderer, calling, stream, server, silent>>

OnBlock(c) ==
    /\ Comes(c, "block")
    /\ responses' = [responses EXCEPT ![c] = Append(@, Head(wire[c]).block)]
    /\ Received(c)
    /\ UNCHANGED <<orderer, calling, timer, stream, server, silent>>

\* Mutant: success is when the orderer serves, whatever came.
OnStatusAtOnce(c) ==
    /\ Comes(c, "status")
    /\ IF Head(wire[c]).status \in {"SUCCESS", "NOT_FOUND"}
       THEN Settle(c, IF responses[c] = <<>> THEN height ELSE Head(responses[c]))
       ELSE Settle(c, Failed)
    /\ End(c)
    /\ Received(c)
    /\ UNCHANGED <<orderer, asked, timer, responses, server, silent>>

\* A status ends the attempt: the first of the blocks is the answer, or the
\* status an error, or sendTry sleeps before the next attempt.  A response that
\* is neither block nor status ("UNIMPLEMENTED") is a SYSTEM_ERROR.
OnStatus(c) ==
    LET status == Head(wire[c]).status
    IN  /\ Comes(c, "status")
        /\ IF status = "SUCCESS"
           THEN Settle(c, IF responses[c] = <<>> THEN Undefined ELSE Head(responses[c]))
           ELSE IF status = "SERVICE_UNAVAILABLE" /\ c \in WaitIfUnavailable /\ pc[c] = "waiting"
           THEN pc' = [pc EXCEPT ![c] = "sleeping"] /\ UNCHANGED answer
           ELSE Settle(c, Failed)
        /\ End(c)
        /\ Received(c)
        /\ UNCHANGED <<orderer, asked, timer, responses, server, silent>>

\* The end of the stream clears the timer, and settles nothing.
OnEnd(c) ==
    /\ wire[c] = <<>> /\ server[c] = "over" /\ stream[c] \in {"open", "ended"}
    /\ timer' = [timer EXCEPT ![c] = FALSE]
    /\ stream' = [stream EXCEPT ![c] = "cancelled"]
    /\ UNCHANGED <<orderer, calling, responses, wire, server, silent>>

\* Mutant: an error leaves the stream as it is.
OnErrorOpen(c) ==
    /\ wire[c] = <<>> /\ server[c] = "broken"
    /\ server' = [server EXCEPT ![c] = "over"]
    /\ Settle(c, Failed)
    /\ UNCHANGED <<orderer, asked, timer, stream, responses, wire, silent>>

\* An error rejects; the end of the stream comes after it.
OnError(c) ==
    /\ wire[c] = <<>> /\ server[c] = "broken"
    /\ server' = [server EXCEPT ![c] = "over"]
    /\ End(c)
    /\ Settle(c, Failed)
    /\ UNCHANGED <<orderer, asked, timer, responses, wire, silent>>

OnTimeout(c) ==
    /\ timer[c]
    /\ timer' = [timer EXCEPT ![c] = FALSE]
    /\ End(c)
    /\ Settle(c, Failed)
    /\ UNCHANGED <<orderer, asked, responses, wire, server, silent>>
-----------------------------------------------------------------------------
\* The orderer.
Sends(c, event) == wire' = [wire EXCEPT ![c] = Append(@, event)]
Status(s) == [type |-> "status", status |-> s]

Position(c) == IF Wanted[c] = Newest THEN height ELSE Wanted[c]
Serves(c) == available /\ Position(c) <= height

\* Mutant: blocks numbered from one.
SeekFromOne(c) ==
    /\ server[c] = "reading" /\ Serves(c)
    /\ Sends(c, [type |-> "block", block |-> Position(c) + 1])
    /\ server' = [server EXCEPT ![c] = "sending"]
    /\ UNCHANGED <<orderer, calling, timer, stream, responses, silent>>

\* The seek payload asks for one block, from Wanted to Wanted.
Seek(c) ==
    /\ server[c] = "reading" /\ Serves(c)
    /\ Sends(c, [type |-> "block", block |-> Position(c)])
    /\ server' = [server EXCEPT ![c] = "sending"]
    /\ UNCHANGED <<orderer, calling, timer, stream, responses, silent>>

\* FAIL_IF_NOT_READY: a block that is not there is not waited for.
SeekFails(c) ==
    /\ server[c] = "reading"
    /\ \E s \in {"FORBIDDEN", "UNIMPLEMENTED"} \cup IF ~available THEN {"SERVICE_UNAVAILABLE"}
                                  ELSE IF ~Serves(c) THEN {"NOT_FOUND"} ELSE {} :
           Sends(c, Status(s))
    /\ server' = [server EXCEPT ![c] = "over"]
    /\ UNCHANGED <<orderer, calling, timer, stream, responses, silent>>

SeekSucceeds(c) ==
    /\ server[c] = "sending"
    /\ Sends(c, Status("SUCCESS"))
    /\ server' = [server EXCEPT ![c] = "served"]
    /\ UNCHANGED <<orderer, calling, timer, stream, responses, silent>>

\* A client that closed its side is done.
OrdererEnds(c) ==
    /\ server[c] = "served" /\ stream[c] = "ended"
    /\ server' = [server EXCEPT ![c] = "over"]
    /\ UNCHANGED <<orderer, calling, timer, stream, responses, wire, silent>>

\* The stream ends with no status.
EndsSilently(c) ==
    /\ server[c] \in {"reading", "sending"}
    /\ server' = [server EXCEPT ![c] = "over"]
    /\ silent' = [silent EXCEPT ![c] = TRUE]
    /\ UNCHANGED <<orderer, calling, timer, stream, responses, wire>>

StreamBreaks(c) ==
    /\ server[c] \in {"reading", "sending", "served"}
    /\ server' = [server EXCEPT ![c] = "broken"]
    /\ UNCHANGED <<orderer, calling, timer, stream, responses, wire, silent>>

NewBlock ==
    /\ height < MaxHeight
    /\ height' = height + 1
    /\ UNCHANGED <<available, calling, timer, stream, responses, wire, server, silent>>

Availability ==
    /\ available' = ~available
    /\ UNCHANGED <<height, calling, timer, stream, responses, wire, server, silent>>

Client(c) ==
    \/ SendTry(c) \/ OnBlock(c) \/ OnStatus(c) \/ OnEnd(c) \/ OnError(c) \/ OnTimeout(c)

Orderer(c) ==
    \/ Seek(c) \/ SeekFails(c) \/ SeekSucceeds(c)
    \/ OrdererEnds(c) \/ EndsSilently(c) \/ StreamBreaks(c)

Next ==
    \/ \E c \in Calls : GetSpecificBlock(c) \/ Client(c) \/ Orderer(c)
    \/ NewBlock \/ Availability

Spec == Init /\ [][Next]_vars

\* Events are handled, timers fire, sleeps end.  The orderer owes nothing.
FairSpec == Spec /\ \A c \in Calls : WF_vars(Client(c))
-----------------------------------------------------------------------------
BlockNumbers == 0..MaxHeight
Events == [type : {"block"}, block : BlockNumbers]
          \cup [type : {"status"},
              status : {"SUCCESS", "NOT_FOUND", "FORBIDDEN", "UNIMPLEMENTED", "SERVICE_UNAVAILABLE"}]

\* A stream carries at most one block, and at most two events.
TypeOK ==
    /\ height \in BlockNumbers /\ available \in BOOLEAN
    /\ pc \in [Calls -> {"idle", "waiting", "sleeping", "done"}]
    /\ answer \in [Calls -> BlockNumbers \cup {NoAnswer, Failed}]
    /\ asked \in [Calls -> BlockNumbers]
    /\ timer \in [Calls -> BOOLEAN] /\ silent \in [Calls -> BOOLEAN]
    /\ stream \in [Calls -> {"none", "open", "ended", "cancelled"}]
    /\ responses \in [Calls -> Seq(BlockNumbers)]
    /\ wire \in [Calls -> Seq(Events)]
    /\ server \in [Calls -> {"none", "reading", "sending", "served", "broken", "over"}]
    /\ \A c \in Calls : Len(wire[c]) + Len(responses[c]) <= 2

\* Of an attempt's promise, timer and stream none is left alone: while the
\* promise is open a timer will settle it, unless the stream ended with no
\* status and OnEnd cleared the timer; once it is settled, whichever event did
\* it, this side of the stream is closed, so that the orderer can let go of it.
AttemptGuarded ==
    \A c \in Calls :
        /\ pc[c] = "waiting" => timer[c] \/ (silent[c] /\ stream[c] = "cancelled")
        /\ pc[c] \in {"sleeping", "done"} => stream[c] # "open"

\* A call that is waiting or sleeping is answered, once the orderer stays
\* available, unless its stream ended with no status.
EventuallyAnswered ==
    <>[]available =>
        \A c \in Calls : pc[c] \in {"waiting", "sleeping"} ~>
            pc[c] = "done" \/ (pc[c] = "waiting" /\ silent[c])

Contract == INSTANCE BlockRead

\* getSpecificBlock answers once, with the block asked for, whatever timeouts,
\* failures and retries came before.
ImplementsBlockRead == Contract!Spec
=============================================================================

------------------------------ MODULE QueryHub ------------------------------
(***************************************************************************)
(* nodejs/query.js: joining peers to a channel (join, joinWithFile,        *)
(* joinWithFetch) and looking up a transaction (tx), with the proposals of *)
(* nodejs/admin/CSCCProposal.js and QSCCProposal.js.  A call goes to all   *)
(* endorsers of its QueryHub at once and judges their answers together;    *)
(* calls of several hubs interleave, and a caller may repeat a join.       *)
(*                                                                         *)
(* Peers create the channel's ledger, refuse what they have or are about   *)
(* to have, fail, or do not answer, and commit the transaction in their    *)
(* own time: they are the environment, as is the orderer that is asked for *)
(* the genesis block, whose reading is the subject of OrdererDeliver.      *)
(***************************************************************************)
EXTENDS Integers, FiniteSets, ResultInterceptors

CONSTANTS
    Peers,
    Calls,
    NoCall,
    EndorsersOf,   \* the peers a call goes to
    Kind,          \* "join", "joinWithFetch" or "tx"
    MaxFailures    \* bound on failures of peers and of the orderer

Joins == {c \in Calls : Kind[c] # "tx"}

ASSUME QueryHubAssumption ==
    /\ EndorsersOf \in [Calls -> (SUBSET Peers) \ {{}}]
    /\ Kind \in [Calls -> {"join", "joinWithFetch", "tx"}]
    /\ NoCall \notin Calls
    /\ MaxFailures \in Nat

VARIABLES
    pc,        \* per call: "idle", "fetching" or "asked"
    answer,    \* per call: how it ended last
    response,  \* per call: the responses of the peers
    channel,   \* per peer: the ledger of the channel
    creator,   \* per peer: the call that waits for the ledger's creation
    has,       \* peers whose ledger has the transaction
    lacked,    \* per call: the peers that lacked it when the call was made
    failures

calling == <<pc, answer, response>>
peers == <<channel, creator, has>>
vars == <<calling, peers, lacked, failures>>

Pending == [status |-> 0, message |-> "pending"]
AlreadyActive == [status |-> 500, message |-> "already exists with state [ACTIVE]"]
UnderConstruction == [status |-> 500, message |-> "already exists with state [UNDER_CONSTRUCTION]"]
NoSuchTransaction == [status |-> 500, message |-> "no such transaction ID"]
Failed == [status |-> 500, message |-> "failed"]

Init ==
    /\ pc = [c \in Calls |-> "idle"]
    /\ answer = [c \in Calls |-> "none"]
    /\ response = [c \in Calls |-> [p \in EndorsersOf[c] |-> Pending]]
    /\ channel = [p \in Peers |-> "none"]
    /\ creator = [p \in Peers |-> NoCall]
    /\ has = {}
    /\ lacked = [c \in Calls |-> {}]
    /\ failures = 0
-----------------------------------------------------------------------------
Start(c, label) ==
    /\ pc' = [pc EXCEPT ![c] = label]
    /\ answer' = [answer EXCEPT ![c] = "none"]
    /\ response' = [response EXCEPT ![c] = [p \in EndorsersOf[c] |-> Pending]]

Return(c, a) ==
    /\ pc' = [pc EXCEPT ![c] = "idle"]
    /\ answer' = [answer EXCEPT ![c] = a]

\* join with a block at hand; a join that failed may be repeated.
Join(c) ==
    /\ Kind[c] = "join" /\ pc[c] = "idle" /\ answer[c] \in {"none", "error"}
    /\ Start(c, "asked")
    /\ UNCHANGED <<peers, lacked, failures>>

\* joinWithFetch: getGenesisBlock waits for as long as the block is unavailable.
JoinWithFetch(c) ==
    /\ Kind[c] = "joinWithFetch" /\ pc[c] = "idle" /\ answer[c] \in {"none", "error"}
    /\ Start(c, "fetching")
    /\ UNCHANGED <<peers, lacked, failures>>

GetGenesisBlock(c) ==
    /\ pc[c] = "fetching"
    /\ pc' = [pc EXCEPT ![c] = "asked"]
    /\ UNCHANGED <<answer, response, peers, lacked, failures>>

FetchFails(c) ==
    /\ pc[c] = "fetching"
    /\ failures < MaxFailures /\ failures' = failures + 1
    /\ Return(c, "error")
    /\ UNCHANGED <<response, peers, lacked>>

Tx(c) ==
    /\ Kind[c] = "tx" /\ pc[c] = "idle" /\ answer[c] \in {"none", "error"}
    /\ Start(c, "asked")
    /\ lacked' = [lacked EXCEPT ![c] = EndorsersOf[c] \ has]
    /\ UNCHANGED <<peers, failures>>

Answered(c) == pc[c] = "asked" /\ \A p \in EndorsersOf[c] : response[c][p] # Pending

\* Mutant: one peer that has joined is enough.
SomeHasJoined(results) == \E p \in SanCheck(results) : results[p] = AlreadyActive

\* Mutant: a peer that has joined is an error like others.
NoneTolerated(results) == SanCheck(results) = {}

\* join: ENDORSE_ERROR is passed over if each refusal says that the peer has
\* joined.  The peers that refused nothing have joined now.
HaveJoined(results) == \A p \in SanCheck(results) : results[p] = AlreadyActive

JoinAnswered(c) ==
    /\ c \in Joins /\ Answered(c)
    /\ Return(c, IF EndorseALL(response[c], {}) THEN "joined"
                 ELSE IF ~Unreachable(response[c]) /\ HaveJoined(response[c]) THEN "already"
                 ELSE "error")
    /\ UNCHANGED <<response, peers, lacked, failures>>

\* Mutant: every refusal counts.
AnyErrorIsNotFound(results) == SanCheck(results) # {}

\* The result handler of tx: none of the refusals is another than that the
\* transaction is not there.
TxNotFound(results) ==
    /\ SanCheck(results) # {}
    /\ \A p \in SanCheck(results) : results[p] = NoSuchTransaction

TxAnswered(c) ==
    /\ Kind[c] = "tx" /\ Answered(c)
    /\ Return(c, IF EndorseALL(response[c], {}) THEN "found"
                 ELSE IF ~Unreachable(response[c]) /\ TxNotFound(response[c]) THEN "notFound"
                 ELSE "error")
    /\ UNCHANGED <<response, peers, lacked, failures>>
-----------------------------------------------------------------------------
\* The peers.
Open(c, p) == pc[c] = "asked" /\ p \in EndorsersOf[c] /\ response[c][p] = Pending

Respond(c, p, r) == response' = [response EXCEPT ![c][p] = r]

PeerBegins(c, p) ==
    /\ c \in Joins /\ Open(c, p)
    /\ channel[p] = "none"
    /\ channel' = [channel EXCEPT ![p] = "creating"]
    /\ creator' = [creator EXCEPT ![p] = c]
    /\ UNCHANGED <<calling, has, lacked, failures>>

PeerCreates(p) ==
    /\ channel[p] = "creating"
    /\ channel' = [channel EXCEPT ![p] = "active"]
    /\ creator' = [creator EXCEPT ![p] = NoCall]
    /\ IF creator[p] = NoCall THEN UNCHANGED response ELSE Respond(creator[p], p, Endorsed)
    /\ UNCHANGED <<pc, answer, has, lacked, failures>>

PeerRefuses(c, p) ==
    /\ c \in Joins /\ Open(c, p)
    /\ creator[p] # c
    /\ \/ channel[p] = "active" /\ Respond(c, p, AlreadyActive)
       \/ channel[p] = "creating" /\ Respond(c, p, UnderConstruction)
    /\ UNCHANGED <<pc, answer, peers, lacked, failures>>

PeerLooksUp(c, p) ==
    /\ Kind[c] = "tx" /\ Open(c, p)
    /\ Respond(c, p, IF p \in has THEN Endorsed ELSE NoSuchTransaction)
    /\ UNCHANGED <<pc, answer, peers, lacked, failures>>

\* A peer fails to do it, or its answer does not come, whether or not it does.
PeerFails(c, p, r) ==
    /\ Open(c, p)
    /\ failures < MaxFailures /\ failures' = failures + 1
    /\ Respond(c, p, r)
    /\ creator' = [creator EXCEPT ![p] = IF @ = c THEN NoCall ELSE @]
    /\ channel' = [channel EXCEPT ![p] = IF creator[p] = c /\ r = Failed THEN "none" ELSE @]
    /\ UNCHANGED <<pc, answer, has, lacked>>

PeerCommits(p) ==
    /\ has' = has \cup {p}
    /\ UNCHANGED <<calling, channel, creator, lacked, failures>>

Caller(c) ==
    \/ Join(c) \/ JoinWithFetch(c) \/ GetGenesisBlock(c) \/ Tx(c)
    \/ JoinAnswered(c) \/ TxAnswered(c)

Next ==
    \/ \E c \in Calls : Caller(c) \/ FetchFails(c)
    \/ \E c \in Calls, p \in Peers :
          \/ PeerBegins(c, p) \/ PeerRefuses(c, p) \/ PeerLooksUp(c, p)
          \/ \E r \in {Failed, SystemError} : PeerFails(c, p, r)
    \/ \E p \in Peers : PeerCreates(p) \/ PeerCommits(p)

Spec == Init /\ [][Next]_vars

\* The caller of a join repeats it while it fails; peers and orderer answer.
FairSpec ==
    /\ Spec
    /\ \A c \in Joins : WF_vars(Caller(c))
    /\ \A c \in Joins, p \in Peers : WF_vars(PeerBegins(c, p) \/ PeerRefuses(c, p))
    /\ \A p \in Peers : WF_vars(PeerCreates(p))
-----------------------------------------------------------------------------
TypeOK ==
    /\ \A c \in Calls :
          /\ pc[c] \in {"idle", "fetching", "asked"}
          /\ pc[c] # "idle" => answer[c] = "none"
          /\ answer[c] \in IF c \in Joins THEN {"none", "joined", "already", "error"}
                                          ELSE {"none", "found", "notFound", "error"}
    /\ channel \in [Peers -> {"none", "creating", "active"}]
    /\ \A p \in Peers : creator[p] # NoCall => channel[p] = "creating" /\ Open(creator[p], p)
    /\ has \subseteq Peers

\* A join that does not throw leaves every one of its peers with the channel
\* (nodejs/query.js:124-157), those that had joined before and those that
\* another call was joining meanwhile.
JoinMeansJoined ==
    \A c \in Joins : answer[c] \in {"joined", "already"} =>
        \A p \in EndorsersOf[c] : channel[p] = "active"

\* tx finds a transaction only if all its peers have it, and calls it not found
\* (nodejs/query.js:20-47) only if one of them lacked it when it was asked,
\* although another may have returned it.
TxAnswerIsReal ==
    \A c \in Calls :
        /\ answer[c] = "found" => EndorsersOf[c] \subseteq has
        /\ answer[c] = "notFound" => lacked[c] # {}

\* Repeating a join gets all peers joined once failures end, although some
\* joined in the tries before.
EventuallyJoined == \A c \in Joins : <>(answer[c] \in {"joined", "already"})
=============================================================================

------------------------------ MODULE Lifecycle ------------------------------
(***************************************************************************)
(* The chaincode lifecycle of one chaincode on one channel:                *)
(* ChaincodeLifecycleOperation (nodejs/chaincodeOperation.js) over         *)
(* LifecycleProposal (nodejs/admin/lifecycleProposal.js).  An operation    *)
(* object belongs to an organisation, has its endorsers, and keeps between *)
(* calls a policy, a validation parameter, a result handler and whether    *)
(* commit results are asserted.  Its caller awaits each call; the          *)
(* operations of different objects interleave.                             *)
(*                                                                         *)
(* The _lifecycle system chaincode, the orderer and the peers, each of     *)
(* which may lag behind the ledger, are the environment.  A chaincode      *)
(* definition is a sequence and a content, here the endorsement policy.    *)
(* How waitForTx gets its events is the subject of Transaction.            *)
(***************************************************************************)
EXTENDS Integers, Sequences, FiniteSets, ResultInterceptors

CONSTANTS
    Ops,               \* operation objects
    Orgs, Peers, Policies,
    Default,           \* no policy, no validation parameter
    OrgOf,             \* the organisation of an operation
    EndorsersOf,       \* the peers an operation was constructed with
    Uses,              \* per operation: the kinds its first, second... call may be of,
                       \* a bound on its calls
    PoliciesOf,        \* per operation: the policies its callers may set
    WaitForConsensus,  \* the operations whose approve retries
    MaxSequence,       \* bound on the sequences asked for
    MaxLag             \* bound on the transactions a peer is behind

Kinds == {"install", "approve", "readiness", "commit", "query", "list"}

ASSUME LifecycleAssumption ==
    /\ OrgOf \in [Ops -> Orgs]
    /\ EndorsersOf \in [Ops -> (SUBSET Peers) \ {{}}]
    /\ Uses \in [Ops -> Seq(SUBSET Kinds)]
    /\ PoliciesOf \in [Ops -> SUBSET Policies]
    /\ WaitForConsensus \subseteq Ops
    /\ Default \notin Policies
    /\ MaxSequence \in Nat /\ MaxLag \in Nat

VARIABLES
    policy,     \* per operation: endorsementPolicy
    parameter,  \* per operation: validation_parameter of its proposal
    handler,    \* per operation: the responses its resultHandler lets pass
    asserting,  \* per operation: its proposal has a commitResultAssert
    call,       \* per operation: the call made last, with the content it
                \* sends and the policy its caller had set
    pc,         \* per operation: where that call is
    answer,     \* per operation: what that call returned
    envelope,   \* per operation: the transaction of the call, endorsed
    broadcast,  \* envelopes on their way to the orderer
    reply,      \* per operation: the orderer's answer to the call
    accepted,   \* envelopes the orderer is to put into a block
    ledger,     \* transactions in their order, valid or not
    seen,       \* per peer: how much of the ledger it has
    installed   \* peers that have the chaincode package

object == <<policy, parameter, handler, asserting>>
calling == <<call, pc, answer>>
ordering == <<envelope, broadcast, reply, accepted>>
network == <<ledger, seen, installed>>
vars == <<object, calling, ordering, network>>

Success == [status |-> "SUCCESS", info |-> ""]
NoRaftLeader == [status |-> "SERVICE_UNAVAILABLE", info |-> "no Raft leader"]
Rejected == [status |-> "BAD_REQUEST", info |-> "rejected"]
Pending == [status |-> "UNKNOWN", info |-> ""]

NoCall == [kind |-> "none", id |-> 0, sequence |-> 0, content |-> Default, wish |-> Default]

Init ==
    /\ policy = [o \in Ops |-> Default]
    /\ parameter = [o \in Ops |-> Default]
    /\ handler = [o \in Ops |-> {}]
    /\ asserting = [o \in Ops |-> TRUE]
    /\ call = [o \in Ops |-> NoCall]
    /\ pc = [o \in Ops |-> "idle"]
    /\ answer = [o \in Ops |-> "none"]
    /\ envelope = [o \in Ops |-> NoCall]
    /\ broadcast = {}
    /\ reply = [o \in Ops |-> Pending]
    /\ accepted = {}
    /\ ledger = <<>>
    /\ seen = [p \in Peers |-> 0]
    /\ installed = {}
-----------------------------------------------------------------------------
\* The world state after the first h transactions of the ledger.
CommitsAt(h) == {i \in 1..h : ledger[i].kind = "commit" /\ ledger[i].valid}
SequenceAt(h) == Cardinality(CommitsAt(h))
DefinedAt(h, sequence, content) ==
    \E i \in CommitsAt(h) : ledger[i].sequence = sequence /\ ledger[i].content = content

\* The content an organisation approved last for a sequence, as a set.
ApprovalAt(h, org, sequence) ==
    LET approvals == {i \in 1..h : /\ ledger[i].kind = "approve" /\ ledger[i].valid
                                   /\ OrgOf[ledger[i].op] = org
                                   /\ ledger[i].sequence = sequence}
    IN  {ledger[i].content : i \in {j \in approvals : \A k \in approvals : k <= j}}

\* What the chaincode reads of the world state: the sequence, and the approval
\* of the organisation or, to commit, of all.
ReadAt(h, kind, org, sequence) ==
    <<SequenceAt(h), [g \in IF kind = "commit" THEN Orgs ELSE {org} |->
                          ApprovalAt(h, g, sequence)]>>

\* Responses of the _lifecycle chaincode (status and message).
AlreadyInstalled == [status |-> 500, message |-> "already installed"]
NoDefinition == [status |-> 404, message |-> "not defined"]
NoChange(sequence) == [status |-> 500, message |-> "unchanged content", about |-> sequence]
Refusal == [status |-> 500, message |-> "refused"]

\* What a peer answers to the proposal of an operation.
Response(p, o) ==
    LET c == call[o]
        h == seen[p]
    IN  CASE c.kind = "install" ->
                IF p \in installed THEN AlreadyInstalled ELSE Endorsed
          [] c.kind = "approve" ->
                IF c.sequence = SequenceAt(h) + 1
                THEN IF c.content \in ApprovalAt(h, OrgOf[o], c.sequence)
                     THEN NoChange(c.sequence) ELSE Endorsed
                ELSE IF c.sequence = SequenceAt(h) /\ DefinedAt(h, c.sequence, c.content)
                     THEN Endorsed ELSE Refusal
          [] c.kind = "readiness" ->
                IF c.sequence = SequenceAt(h) + 1 THEN Endorsed ELSE Refusal
          [] c.kind = "commit" ->
                IF /\ c.sequence = SequenceAt(h) + 1
                   /\ \A org \in Orgs : c.content \in ApprovalAt(h, org, c.sequence)
                THEN Endorsed ELSE Refusal
          [] c.kind = "query" ->
                IF SequenceAt(h) > 0 THEN Endorsed ELSE NoDefinition
          [] c.kind = "list" -> Endorsed

\* A peer may also refuse for a reason of its own, or be out of reach.
MayAnswer(p, o) == {Response(p, o), Refusal, SystemError}

Responses(o) ==
    {results \in [EndorsersOf[o] -> UNION {MayAnswer(p, o) : p \in EndorsersOf[o]}] :
        \A p \in EndorsersOf[o] : results[p] \in MayAnswer(p, o)}

\* The peers whose answer is an endorsement: to an install, those that have
\* installed the package now.
Endorsing(o, results) == {p \in EndorsersOf[o] : results[p] = Endorsed}
-----------------------------------------------------------------------------
Idle(o) == pc[o] = "idle"

\* A caller configures the policy before a call, or takes it back.
SetEndorsementPolicy(o, p) ==
    /\ Idle(o)
    /\ call[o].id < Len(Uses[o])
    /\ policy[o] # p
    /\ policy' = [policy EXCEPT ![o] = p]
    /\ UNCHANGED <<parameter, handler, asserting, calling, ordering, network>>

\* assign(): a policy that is set becomes the validation parameter; one that
\* is not leaves the parameter of an earlier call in place.
Assigned(o) == IF policy[o] # Default THEN policy[o] ELSE parameter[o]

\* ProposalManager.send up to the answers of the endorsers.
Propose(o, kind, sequence, content) ==
    /\ Idle(o)
    /\ call[o].id < Len(Uses[o])
    /\ kind \in Uses[o][call[o].id + 1]
    /\ call' = [call EXCEPT ![o] = [kind |-> kind, id |-> @.id + 1,
                                    sequence |-> sequence, content |-> content,
                                    wish |-> policy[o]]]
    /\ pc' = [pc EXCEPT ![o] = "proposed"]
    /\ answer' = [answer EXCEPT ![o] = "none"]
    /\ UNCHANGED <<policy, asserting, ordering, network>>

\* Mutant: any error 500 passes for an installed package.
InstallTolerant(o) ==
    /\ Propose(o, "install", 0, Default)
    /\ handler' = [handler EXCEPT ![o] = {AlreadyInstalled, Refusal}]
    /\ UNCHANGED parameter

Install(o) ==
    /\ Propose(o, "install", 0, Default)
    /\ handler' = [handler EXCEPT ![o] = {AlreadyInstalled}]
    /\ UNCHANGED parameter

Approve(o, sequence) ==
    /\ Propose(o, "approve", sequence, Assigned(o))
    /\ handler' = [handler EXCEPT ![o] = {NoChange(sequence)}]
    /\ parameter' = [parameter EXCEPT ![o] = Assigned(o)]

\* checkCommitReadiness and commitChaincodeDefinition go with the handler that
\* the call before them left.
CheckCommitReadiness(o, sequence) ==
    /\ Propose(o, "readiness", sequence, Assigned(o))
    /\ parameter' = [parameter EXCEPT ![o] = Assigned(o)]
    /\ UNCHANGED handler

CommitChaincodeDefinition(o, sequence) ==
    /\ Propose(o, "commit", sequence, Assigned(o))
    /\ parameter' = [parameter EXCEPT ![o] = Assigned(o)]
    /\ UNCHANGED handler

\* Mutant: the query lets every refusal pass.
QueryTolerant(o) ==
    /\ Propose(o, "query", 0, Default)
    /\ handler' = [handler EXCEPT ![o] = {NoDefinition, Refusal}]
    /\ UNCHANGED parameter

QueryChaincodeDefinition(o) ==
    /\ Propose(o, "query", 0, Default)
    /\ handler' = [handler EXCEPT ![o] = {NoDefinition}]
    /\ UNCHANGED parameter

\* Without a name it asks for all definitions, and its handler lets nothing
\* pass that a peer answers.
QueryChaincodeDefinitions(o) ==
    /\ Propose(o, "list", 0, Default)
    /\ handler' = [handler EXCEPT ![o] = {}]
    /\ UNCHANGED parameter

Return(o, a) ==
    /\ pc' = [pc EXCEPT ![o] = "idle"]
    /\ answer' = [answer EXCEPT ![o] = a]

\* Mutant: the id of the identity context's next transaction.
EnvelopeOfNext(o, endorsers) ==
    [op |-> o, id |-> call[o].id + 1, kind |-> call[o].kind, sequence |-> call[o].sequence,
     content |-> call[o].content, reads |-> [p \in endorsers |-> seen[p]]]

\* The transaction of a call with its endorsements, each of which stands for
\* what the peer had read.
EnvelopeOf(o, endorsers) ==
    [op |-> o, id |-> call[o].id, kind |-> call[o].kind, sequence |-> call[o].sequence,
     content |-> call[o].content, reads |-> [p \in endorsers |-> seen[p]]]

\* proposal.commit: the transaction is broadcast, and the answer awaited.
Broadcast(o, e) ==
    /\ envelope' = [envelope EXCEPT ![o] = e]
    /\ broadcast' = broadcast \cup {e}
    /\ reply' = [reply EXCEPT ![o] = Pending]
    /\ UNCHANGED accepted
-----------------------------------------------------------------------------
\* The result handler throws, and stays on the proposal.  An endorser that is
\* out of reach may have done its work all the same.
ProposalFails(o) ==
    /\ pc[o] = "proposed"
    /\ \E results \in Responses(o) :
        /\ ~EndorseALL(results, handler[o])
        /\ IF call[o].kind = "install"
           THEN \E lost \in SUBSET {p \in EndorsersOf[o] : results[p] = SystemError} :
                    installed' = installed \cup lost
                        \cup Endorsing(o, results)
           ELSE UNCHANGED installed
    /\ Return(o, "error")
    /\ UNCHANGED <<call, object, ordering, ledger, seen>>

\* install: the handler lets the answers of all peers pass; returns, and drops
\* its handler.
Installed(o) ==
    /\ pc[o] = "proposed" /\ call[o].kind = "install"
    /\ \E results \in Responses(o) :
        /\ EndorseALL(results, handler[o])
        /\ installed' = installed \cup Endorsing(o, results)
    /\ handler' = [handler EXCEPT ![o] = {}]
    /\ Return(o, "installed")
    /\ UNCHANGED <<policy, parameter, asserting, call, ordering, ledger, seen>>

\* checkCommitReadiness and queryChaincodeDefinition: "undefined" when every
\* endorser knows no definition.
Queried(o) ==
    /\ pc[o] = "proposed" /\ call[o].kind \in {"readiness", "query", "list"}
    /\ \E results \in Responses(o) :
        /\ EndorseALL(results, handler[o])
        /\ Return(o, IF \A p \in EndorsersOf[o] : results[p] = NoDefinition
                     THEN "undefined" ELSE "read")
    /\ UNCHANGED <<call, object, ordering, network>>

\* approve: no endorser sees a change, and nothing is left to do.
NothingToApprove(o) ==
    /\ pc[o] = "proposed" /\ call[o].kind = "approve"
    /\ \E results \in Responses(o) :
        /\ EndorseALL(results, handler[o])
        /\ \A p \in EndorsersOf[o] : results[p] = NoChange(call[o].sequence)
    /\ Return(o, "unchanged")
    /\ UNCHANGED <<call, object, ordering, network>>

\* approve and commitChaincodeDefinition: the transaction is broadcast with the
\* endorsements that were given.  From approve on, the proposal does not assert
\* commit results any more.
Commit(o) ==
    /\ pc[o] = "proposed" /\ call[o].kind \in {"approve", "commit"}
    /\ \E results \in Responses(o) :
        /\ EndorseALL(results, handler[o])
        /\ \E p \in EndorsersOf[o] : results[p] # NoChange(call[o].sequence)
        /\ Broadcast(o, EnvelopeOf(o, Endorsing(o, results)))
    /\ asserting' = [asserting EXCEPT ![o] = @ /\ call[o].kind # "approve"]
    /\ pc' = [pc EXCEPT ![o] = "broadcast"]
    /\ UNCHANGED <<policy, parameter, handler, call, answer, network>>

\* approve without a Raft leader, told to wait for one: the same transaction
\* is broadcast again.
RetryCommit(o) ==
    /\ pc[o] = "broadcast" /\ call[o].kind = "approve"
    /\ reply[o] = NoRaftLeader
    /\ o \in WaitForConsensus
    /\ Broadcast(o, envelope[o])
    /\ UNCHANGED <<object, calling, network>>

\* The commit result is judged: by approve itself, by the assertion of the
\* proposal for commitChaincodeDefinition.
Accepts(o) ==
    \/ call[o].kind = "commit" /\ ~asserting[o]
    \/ CommitSuccess(reply[o])

CommitAccepted(o) ==
    /\ pc[o] = "broadcast"
    /\ reply[o] # Pending
    /\ Accepts(o)
    /\ pc' = [pc EXCEPT ![o] = "waiting"]
    /\ UNCHANGED <<call, answer, object, ordering, network>>

CommitRefused(o) ==
    /\ pc[o] = "broadcast"
    /\ reply[o] # Pending
    /\ ~Accepts(o)
    /\ ~(call[o].kind = "approve" /\ reply[o] = NoRaftLeader /\ o \in WaitForConsensus)
    /\ Return(o, "error")
    /\ UNCHANGED <<call, object, ordering, network>>

\* Mutant: the missing answer is taken for success.
CommitTimeoutIgnored(o) ==
    /\ pc[o] = "broadcast"
    /\ Return(o, "done")
    /\ UNCHANGED <<call, object, ordering, network>>

\* The orderer does not answer in time; the transaction may still get there.
CommitTimedOut(o) ==
    /\ pc[o] = "broadcast"
    /\ Return(o, "error")
    /\ UNCHANGED <<call, object, ordering, network>>

\* Mutant: the listener is registered for all transactions.
AnyTransactionSeen(o) ==
    /\ pc[o] = "waiting"
    /\ \E p \in EndorsersOf[o] : \E i \in 1..seen[p] :
           Return(o, IF ledger[i].valid THEN "done" ELSE "invalid")
    /\ UNCHANGED <<call, object, ordering, network>>

\* waitForTx, on the event hub of one of the endorsers.
TransactionSeen(o) ==
    /\ pc[o] = "waiting"
    /\ \E p \in EndorsersOf[o] : \E i \in 1..seen[p] :
        /\ ledger[i].op = o /\ ledger[i].id = call[o].id
        /\ Return(o, IF ledger[i].valid THEN "done" ELSE "invalid")
    /\ UNCHANGED <<call, object, ordering, network>>

WaitFails(o) ==
    /\ pc[o] = "waiting"
    /\ Return(o, "error")
    /\ UNCHANGED <<call, object, ordering, network>>
-----------------------------------------------------------------------------
\* The environment: orderer and peers.
OrdererAnswers(e, result) ==
    /\ e \in broadcast
    /\ broadcast' = broadcast \ {e}
    /\ accepted' = IF result = Success THEN accepted \cup {e} ELSE accepted
    /\ reply' = IF call[e.op].id = e.id /\ pc[e.op] = "broadcast"
                THEN [reply EXCEPT ![e.op] = result] ELSE reply
    /\ UNCHANGED <<object, calling, envelope, network>>

\* A transaction is valid only if what its endorsers read still holds.
CanBeValid(e) ==
    \A p \in DOMAIN e.reads : ReadAt(e.reads[p], e.kind, OrgOf[e.op], e.sequence)
                                 = ReadAt(Len(ledger), e.kind, OrgOf[e.op], e.sequence)

Order(e) ==
    /\ e \in accepted
    /\ \A p \in Peers : Len(ledger) - seen[p] < MaxLag
    /\ accepted' = accepted \ {e}
    /\ \E valid \in BOOLEAN :
        /\ valid => CanBeValid(e)
        /\ ledger' = Append(ledger, [op |-> e.op, id |-> e.id, kind |-> e.kind, valid |-> valid,
                                     sequence |-> e.sequence, content |-> e.content])
    /\ UNCHANGED <<object, calling, envelope, broadcast, reply, seen, installed>>

PeerCommits(p) ==
    /\ seen[p] < Len(ledger)
    /\ seen' = [seen EXCEPT ![p] = @ + 1]
    /\ UNCHANGED <<object, calling, ordering, ledger, installed>>

Operation(o) ==
    \/ \E p \in PoliciesOf[o] \cup {Default} : SetEndorsementPolicy(o, p)
    \/ Install(o) \/ QueryChaincodeDefinition(o) \/ QueryChaincodeDefinitions(o)
    \/ \E sequence \in 1..MaxSequence :
          Approve(o, sequence) \/ CheckCommitReadiness(o, sequence)
          \/ CommitChaincodeDefinition(o, sequence)
    \/ ProposalFails(o) \/ Installed(o) \/ Queried(o) \/ NothingToApprove(o)
    \/ Commit(o) \/ RetryCommit(o) \/ CommitAccepted(o) \/ CommitRefused(o)
    \/ CommitTimedOut(o) \/ TransactionSeen(o) \/ WaitFails(o)

Next ==
    \/ \E o \in Ops : Operation(o)
    \/ \E e \in broadcast, result \in {Success, NoRaftLeader, Rejected} : OrdererAnswers(e, result)
    \/ \E e \in accepted : Order(e)
    \/ \E p \in Peers : PeerCommits(p)

Spec == Init /\ [][Next]_vars
-----------------------------------------------------------------------------
Contents == Policies \cup {Default}
Calls == [kind : Kinds \cup {"none"}, id : Nat, sequence : Nat, content : Contents,
          wish : Contents]

TypeOK ==
    /\ policy \in [Ops -> Contents] /\ parameter \in [Ops -> Contents]
    /\ \A o \in Ops : \A r \in handler[o] : r.status # 200
    /\ asserting \in [Ops -> BOOLEAN]
    /\ call \in [Ops -> Calls]
    /\ pc \in [Ops -> {"idle", "proposed", "broadcast", "waiting"}]
    /\ answer \in [Ops -> {"none", "error", "installed", "read", "undefined",
                            "unchanged", "done", "invalid"}]
    /\ reply \in [Ops -> {Success, NoRaftLeader, Rejected, Pending}]
    /\ \A e \in broadcast \cup accepted : e.id <= call[e.op].id /\ e.kind \in {"approve", "commit"}
    /\ \A p \in Peers : seen[p] \in 0..Len(ledger)
    /\ installed \subseteq Peers

Recorded(o, kind, sequence, content) ==
    \E i \in 1..Len(ledger) :
        /\ ledger[i].kind = kind /\ ledger[i].valid
        /\ OrgOf[ledger[i].op] = OrgOf[o]
        /\ ledger[i].sequence = sequence /\ ledger[i].content = content

\* An approve that returned normally, whether it had something to do or found
\* nothing to do after an earlier try that seemed to fail, leaves the approval
\* of its organisation in the ledger, for the sequence it asked, and with the
\* policy that was set when it was called, if one was.  (Without one it has
\* what an earlier call left on the proposal.)
ApproveMeansApproved ==
    \A o \in Ops : call[o].kind = "approve" /\ answer[o] \in {"done", "unchanged"} =>
        /\ Recorded(o, "approve", call[o].sequence, call[o].content)
        /\ call[o].wish \in {Default, call[o].content}

\* The i-th transaction is the one that made a sequence the defined one.
Defines(i, sequence) ==
    ledger[i].kind = "commit" /\ ledger[i].valid /\ SequenceAt(i) = sequence

\* A commit that is told it is done defined the sequence it asked for, with a
\* content every organisation had approved then, although peers lag, approvals
\* change between endorsement and ordering, and calls that seemed to fail may
\* still be ordered.  Of commits that race for a sequence no other defines it.
DefinitionWasApproved ==
    \A o \in Ops : call[o].kind = "commit" /\ answer[o] = "done" =>
        \E i \in 1..Len(ledger) :
            /\ ledger[i].op = o /\ ledger[i].id = call[o].id
            /\ Defines(i, call[o].sequence)
            /\ \A org \in Orgs : call[o].content \in ApprovalAt(i, org, call[o].sequence)
            /\ \A j \in 1..Len(ledger) :
                  /\ ledger[j].kind = "commit" /\ ledger[j].valid
                  /\ ledger[j].sequence = call[o].sequence
                  => j = i

\* The result handler that an earlier call left on the proposal does not make
\* a later one accept a refusal: what is broadcast for a commit has the
\* endorsement of every endorser, and for an approve of one at least.
StaleHandlerHarmless ==
    \A o \in Ops : pc[o] \in {"broadcast", "waiting"} =>
        IF call[o].kind = "commit"
        THEN DOMAIN envelope[o].reads = EndorsersOf[o]
        ELSE DOMAIN envelope[o].reads # {}

\* install returns normally only when every endorser has the package, although
\* its handler passes over peers that had it, of which an earlier try that
\* failed elsewhere may be the reason, and peers refuse or are out of reach.
InstallIsEverywhere ==
    \A o \in Ops : answer[o] = "installed" => EndorsersOf[o] \subseteq installed
=============================================================================

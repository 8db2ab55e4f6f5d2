----------------------------- MODULE Transaction -----------------------------
(***************************************************************************)
(* nodejs/transaction.js: calls of Transaction.evaluate and                *)
(* Transaction.submit, with what they run through: ProposalManager.send    *)
(* and commit (nodejs/admin/proposal.js), EventHubQuery.waitForTx          *)
(* (nodejs/eventHub.js) on a new EventHub (nodejs/admin/eventHub.js).      *)
(*                                                                         *)
(* JavaScript runs each piece of code between two awaits without           *)
(* interruption, so a piece is an action.  Calls interleave at the awaits. *)
(* Calls on one Transaction object share its ProposalManager and its       *)
(* IdentityContext; all objects over the same peers share the peers'       *)
(* Eventers, each of which holds one deliver stream at most.               *)
(*                                                                         *)
(* The network is the environment: endorsers answer or cannot be reached,  *)
(* the orderer accepts or refuses an envelope and its answer may be lost,  *)
(* a peer validates what is ordered, other clients commit too.             *)
(***************************************************************************)
EXTENDS Integers, Sequences, FiniteSets, ResultInterceptors

CONSTANTS
    Calls,          \* calls of evaluate or submit
    Objects,        \* Transaction objects
    Eventers,       \* event endpoints of the peers
    Endorsers,      \* endorsement endpoints, the targets of every proposal
    TxIds,          \* transaction ids of the calls
    OtherTx,        \* the transaction of some other client
    NoTx,           \* no transaction
    ObjectOf,       \* the object a call is made on
    EventerOf,      \* the eventer eventSelector picks on an object
    TxId,           \* the id a call gets; calls given the same nonce share it
    Kind,           \* "evaluate", "submit" or "submitFinal"
    OfflineSigned,  \* the objects with a signingProcess
    OneAtATime,     \* callers await a call before the next one on the object
    MaxNoise        \* bound on the blocks of other clients

Kinds == {"evaluate", "submit", "submitFinal"}

ASSUME TransactionAssumption ==
    /\ ObjectOf \in [Calls -> Objects]
    /\ EventerOf \in [Objects -> Eventers]
    /\ TxId \in [Calls -> TxIds]
    /\ Kind \in [Calls -> Kinds]
    /\ OfflineSigned \subseteq Objects
    /\ OneAtATime \in BOOLEAN
    /\ Endorsers # {}
    /\ MaxNoise \in Nat
    /\ OtherTx \notin TxIds
    /\ NoTx \notin TxIds \cup {OtherTx}

VARIABLES
    pc,        \* where each call is
    answer,    \* what each call returned ("none" while it runs)
    proposal,  \* per object: the transaction its identity context and built
               \* payload name, and the collected endorsements: what was
               \* endorsed, and by whom
    sent,      \* per call: the transaction its proposal went out for, NoTx
               \* when the signature did not belong to the payload
    envelope,  \* per call: the envelope it broadcasts and how far that got
    ledger,    \* the peer's chain, one transaction to a block
    awaited,   \* per call: the transaction its event hub waits for
    conn,      \* per call: the deliver stream of its event hub
    next,      \* per call: the block that stream sends next (1 when none is open)
    verdict    \* per call: how the promise of waitForTx settled

hub == <<awaited, conn, next, verdict>>
vars == <<pc, answer, proposal, sent, envelope, ledger, hub>>

PCs == {"idle", "signing", "sent", "endorsed", "commitSigning", "broadcast",
        "committed", "waiting", "settled", "done"}
Verdicts == {"none", "valid", "invalid", "error"}
Answers == Verdicts \cup {"read", "sent"}

MaybeTx == TxIds \cup {NoTx}
Endorsements == MaybeTx \X Endorsers
Proposals == [tx : MaybeTx, endorsed : SUBSET Endorsements]
Stages == {"none", "built", "inflight", "accepted", "refused", "ordered"}
Envelopes == [tx : MaybeTx, endorsed : SUBSET Endorsements, stage : Stages]
Blocks == [tx : MaybeTx \cup {OtherTx}, valid : BOOLEAN]

Init ==
    /\ pc = [c \in Calls |-> "idle"]
    /\ answer = [c \in Calls |-> "none"]
    /\ proposal = [o \in Objects |-> [tx |-> NoTx, endorsed |-> {}]]
    /\ sent = [c \in Calls |-> NoTx]
    /\ envelope = [c \in Calls |-> [tx |-> NoTx, endorsed |-> {}, stage |-> "none"]]
    /\ ledger = <<[tx |-> OtherTx, valid |-> TRUE]>>  \* the genesis block
    /\ awaited = [c \in Calls |-> NoTx]
    /\ conn = [c \in Calls |-> "none"]
    /\ next = [c \in Calls |-> 1]
    /\ verdict = [c \in Calls |-> "none"]
-----------------------------------------------------------------------------
Running(c) == pc[c] \notin {"idle", "done"}

\* The caller may call now.
MayCall(c) ==
    /\ pc[c] = "idle"
    /\ OneAtATime => \A d \in Calls : ObjectOf[d] = ObjectOf[c] => ~Running(d)

Return(c, a) ==
    /\ pc' = [pc EXCEPT ![c] = "done"]
    /\ answer' = [answer EXCEPT ![c] = a]

\* Mutant: the endorsements of the previous call stay.
KeepEndorsements(c, tx, signed) ==
    /\ pc' = [pc EXCEPT ![c] = "sent"]
    /\ sent' = [sent EXCEPT ![c] = IF signed = tx THEN tx ELSE NoTx]
    /\ proposal' = [proposal EXCEPT ![ObjectOf[c]].tx = tx]

\* super.send: the payload of the transaction tx goes to the endorsers under a
\* signature of the payload of the transaction signed; the endorsements collected before are dropped.
SendToEndorsers(c, tx, signed) ==
    /\ pc' = [pc EXCEPT ![c] = "sent"]
    /\ sent' = [sent EXCEPT ![c] = IF signed = tx THEN tx ELSE NoTx]
    /\ proposal' = [proposal EXCEPT ![ObjectOf[c]] = [tx |-> tx, endorsed |-> {}]]

\* ProposalManager.send on an object that signs by itself: build, sign and
\* send without an await between them.
Send(c) ==
    /\ MayCall(c)
    /\ ObjectOf[c] \notin OfflineSigned
    /\ SendToEndorsers(c, TxId[c], TxId[c])
    /\ UNCHANGED <<answer, envelope, ledger, hub>>

\* ProposalManager.send with a signFunction: build, then await the signature.
BuildForSigning(c) ==
    /\ MayCall(c)
    /\ ObjectOf[c] \in OfflineSigned
    /\ pc' = [pc EXCEPT ![c] = "signing"]
    /\ proposal' = [proposal EXCEPT ![ObjectOf[c]].tx = TxId[c]]
    /\ UNCHANGED <<answer, sent, envelope, ledger, hub>>

\* The signature of the payload this call built arrives; the object's payload
\* of this moment is sent under it.
SignAndSend(c) ==
    /\ pc[c] = "signing"
    /\ SendToEndorsers(c, proposal[ObjectOf[c]].tx, TxId[c])
    /\ UNCHANGED <<answer, envelope, ledger, hub>>

\* The signFunction of the object rejects, for the proposal or for the commit:
\* nothing is sent under it and the call throws.
SignFails(c) ==
    /\ pc[c] \in {"signing", "commitSigning"}
    /\ Return(c, "error")
    /\ UNCHANGED <<proposal, sent, envelope, ledger, hub>>

Refusal == [status |-> 500, message |-> "refused"]

\* What the endorsers may answer: none accepts a signature not of the payload.
ProposalResults(tx) ==
    [Endorsers -> IF tx = NoTx THEN {Refusal, SystemError}
                               ELSE {Endorsed, Refusal, SystemError}]

Endorsing(results) == {e \in Endorsers : results[e] = Endorsed}

\* super.send returns: the endorsements are kept on the object, and EndorseALL,
\* the resultHandler of the constructor, judges the results.
Judge(c) ==
    /\ pc[c] = "sent"
    /\ \E results \in ProposalResults(sent[c]) :
        /\ proposal' = [proposal EXCEPT ![ObjectOf[c]].endorsed =
                            @ \cup {<<sent[c], e>> : e \in Endorsing(results)}]
        /\ IF ~EndorseALL(results, {}) THEN Return(c, "error")
           ELSE IF Kind[c] = "evaluate" THEN Return(c, "read")
           ELSE /\ pc' = [pc EXCEPT ![c] = "endorsed"]
                /\ UNCHANGED answer
    /\ UNCHANGED <<sent, envelope, ledger, hub>>

\* A Commit built from what the object holds now.
Build(c, stage) ==
    envelope' = [envelope EXCEPT ![c] = [tx       |-> proposal[ObjectOf[c]].tx,
                                         endorsed |-> proposal[ObjectOf[c]].endorsed,
                                         stage    |-> stage]]

\* ProposalManager.commit on an object that signs by itself: the commit is
\* built, signed and sent without an await between them.
Commit(c) ==
    /\ pc[c] = "endorsed"
    /\ ObjectOf[c] \notin OfflineSigned
    /\ pc' = [pc EXCEPT ![c] = "broadcast"]
    /\ Build(c, "inflight")
    /\ UNCHANGED <<answer, proposal, sent, ledger, hub>>

\* ProposalManager.commit with a signFunction: build, then await the signature
\* of this commit.
BuildCommit(c) ==
    /\ pc[c] = "endorsed"
    /\ ObjectOf[c] \in OfflineSigned
    /\ pc' = [pc EXCEPT ![c] = "commitSigning"]
    /\ Build(c, "built")
    /\ UNCHANGED <<answer, proposal, sent, ledger, hub>>

SignCommit(c) ==
    /\ pc[c] = "commitSigning"
    /\ pc' = [pc EXCEPT ![c] = "broadcast"]
    /\ envelope' = [envelope EXCEPT ![c].stage = "inflight"]
    /\ UNCHANGED <<answer, proposal, sent, ledger, hub>>

\* The orderer's answer, judged by CommitSuccess.  A submit without finality
\* returns here.
CommitAnswered(c) ==
    /\ pc[c] = "broadcast"
    /\ envelope[c].stage # "inflight"
    /\ LET result == [status |-> IF envelope[c].stage = "refused"
                                 THEN "SERVICE_UNAVAILABLE" ELSE "SUCCESS",
                      info   |-> IF envelope[c].stage = "refused"
                                 THEN "no Raft leader" ELSE ""]
       IN  IF ~CommitSuccess(result) THEN Return(c, "error")
           ELSE IF Kind[c] = "submit" THEN Return(c, "sent")
           ELSE /\ pc' = [pc EXCEPT ![c] = "committed"]
                /\ UNCHANGED answer
    /\ UNCHANGED <<proposal, sent, envelope, ledger, hub>>

\* Mutant: a timeout is taken for an acceptance.
CommitTimeoutIgnored(c) ==
    /\ pc[c] = "broadcast"
    /\ IF Kind[c] = "submit" THEN Return(c, "sent")
       ELSE pc' = [pc EXCEPT ![c] = "committed"] /\ UNCHANGED answer
    /\ UNCHANGED <<proposal, sent, envelope, ledger, hub>>

\* The orderer's answer did not come in time: commit.send throws, whatever
\* becomes of the envelope.
CommitTimedOut(c) ==
    /\ pc[c] = "broadcast"
    /\ Return(c, "error")
    /\ UNCHANGED <<proposal, sent, envelope, ledger, hub>>
-----------------------------------------------------------------------------
\* The deliver stream of the call's hub occupies the eventer.
Streaming(c) == conn[c] \in {"opening", "open"}

Busy(eventer) ==
    \E d \in Calls : EventerOf[ObjectOf[d]] = eventer /\ Streaming(d)

\* newEventHub, then waitForTx on it: the id is read from the identity context
\* of the object, the listener is registered and connect() is called but not
\* awaited.  When connect() fails nothing tells the listener: the eventer has a
\* stream already, or it is not connected.
WaitForTx(c) ==
    /\ pc[c] = "committed"
    /\ pc' = [pc EXCEPT ![c] = "waiting"]
    /\ awaited' = [awaited EXCEPT ![c] = proposal[ObjectOf[c]].tx]
    /\ \E outcome \in IF Busy(EventerOf[ObjectOf[c]]) THEN {"refused"}
                                                       ELSE {"opening", "refused"} :
         conn' = [conn EXCEPT ![c] = outcome]
    /\ UNCHANGED <<answer, proposal, sent, envelope, ledger, next, verdict>>

Close(c) ==
    /\ conn' = [conn EXCEPT ![c] = "closed"]
    /\ next' = [next EXCEPT ![c] = 1]

\* The listener's callback: the promise of waitForTx settles, once.
Settle(c, v) ==
    /\ pc' = [pc EXCEPT ![c] = "settled"]
    /\ verdict' = [verdict EXCEPT ![c] = v]

\* The block has the transaction the listener is registered for.
Notifies(c, block) == block.tx = awaited[c]

\* Mutant: the status of the event is not looked at.
AnyStatusIsValid(block) == "valid"

\* The callback of waitForTx rejects any status but VALID.
WaitVerdict(block) == IF block.valid THEN "valid" ELSE "invalid"

\* The peer sends the next block of the stream.  The listener is registered
\* with {unregister: true}: it is called once, for the transaction it names.
ReceiveBlock(c) ==
    /\ conn[c] = "open"
    /\ next[c] <= Len(ledger)
    /\ next' = [next EXCEPT ![c] = @ + 1]
    /\ LET block == ledger[next[c]]
       IN  IF pc[c] = "waiting" /\ Notifies(c, block)
           THEN Settle(c, WaitVerdict(block))
           ELSE UNCHANGED <<pc, verdict>>
    /\ UNCHANGED <<answer, proposal, sent, envelope, ledger, awaited, conn>>

\* The stream ends or fails: the EventService closes and calls the listener
\* that is still registered with an error.
StreamBroken(c) ==
    /\ Streaming(c)
    /\ Close(c)
    /\ IF pc[c] = "waiting" THEN Settle(c, "error") ELSE UNCHANGED <<pc, verdict>>
    /\ UNCHANGED <<answer, proposal, sent, envelope, ledger, awaited>>

\* Mutant: no finally, an error leaves the hub connected.
DisconnectOnSuccess(c) ==
    /\ pc[c] = "settled"
    /\ IF verdict[c] = "valid" THEN Close(c) ELSE UNCHANGED <<conn, next>>
    /\ Return(c, verdict[c])
    /\ UNCHANGED <<proposal, sent, envelope, ledger, awaited, verdict>>

\* The finally clause disconnects the hub, then submit returns or throws.
Disconnect(c) ==
    /\ pc[c] = "settled"
    /\ Close(c)
    /\ Return(c, verdict[c])
    /\ UNCHANGED <<proposal, sent, envelope, ledger, awaited, verdict>>
-----------------------------------------------------------------------------
\* The environment: orderer, peer and other clients.

\* The peer opens the stream at the newest block it has.
SeekNewest(c) ==
    /\ conn[c] = "opening"
    /\ conn' = [conn EXCEPT ![c] = "open"]
    /\ next' = [next EXCEPT ![c] = Len(ledger)]
    /\ UNCHANGED <<pc, answer, proposal, sent, envelope, ledger, awaited, verdict>>

OrdererTakes(c, stage) ==
    /\ envelope[c].stage = "inflight"
    /\ stage \in {"accepted", "refused"}
    /\ envelope' = [envelope EXCEPT ![c].stage = stage]
    /\ UNCHANGED <<pc, answer, proposal, sent, ledger, hub>>

\* A peer finds a transaction valid only if its endorsements are for it and
\* its id is new; even then its read set may be stale.
CanBeValid(e) ==
    /\ e.endorsed # {}
    /\ \A endorsement \in e.endorsed : endorsement[1] = e.tx
    /\ \A i \in 1..Len(ledger) : ~(ledger[i].tx = e.tx /\ ledger[i].valid)

Order(c) ==
    /\ envelope[c].stage = "accepted"
    /\ \E valid \in BOOLEAN :
        /\ valid => CanBeValid(envelope[c])
        /\ ledger' = Append(ledger, [tx |-> envelope[c].tx, valid |-> valid])
    /\ envelope' = [envelope EXCEPT ![c].stage = "ordered"]
    /\ UNCHANGED <<pc, answer, proposal, sent, hub>>

OtherBlock ==
    /\ Cardinality({i \in 1..Len(ledger) : ledger[i].tx = OtherTx}) <= MaxNoise
    /\ ledger' = Append(ledger, [tx |-> OtherTx, valid |-> TRUE])
    /\ UNCHANGED <<pc, answer, proposal, sent, envelope, hub>>

CallStep(c) ==
    \/ Send(c) \/ BuildForSigning(c) \/ SignAndSend(c) \/ SignFails(c) \/ Judge(c)
    \/ Commit(c) \/ BuildCommit(c) \/ SignCommit(c) \/ CommitAnswered(c) \/ CommitTimedOut(c)
    \/ WaitForTx(c) \/ ReceiveBlock(c) \/ StreamBroken(c) \/ Disconnect(c)

NetworkStep(c) ==
    \/ SeekNewest(c)
    \/ \E stage \in {"accepted", "refused"} : OrdererTakes(c, stage)
    \/ Order(c)

Next ==
    \/ \E c \in Calls : CallStep(c) \/ NetworkStep(c)
    \/ OtherBlock

Spec == Init /\ [][Next]_vars

(***************************************************************************)
(* The event loop runs every continuation that is ready; a signFunction    *)
(* resolves or rejects; endorsement and broadcast answer or time out       *)
(* (requestTimeout); the peer serves seeks and sends the blocks it has; an *)
(* accepted envelope gets into a block.  Nothing is assumed of callers,    *)
(* stream failures and other clients.                                      *)
(***************************************************************************)
Fairness ==
    \A c \in Calls :
        /\ WF_vars(SignAndSend(c) \/ SignCommit(c) \/ SignFails(c))
        /\ WF_vars(Judge(c)) /\ WF_vars(Commit(c) \/ BuildCommit(c))
        /\ WF_vars(CommitAnswered(c) \/ CommitTimedOut(c))
        /\ WF_vars(WaitForTx(c)) /\ WF_vars(ReceiveBlock(c)) /\ WF_vars(Disconnect(c))
        /\ WF_vars(SeekNewest(c)) /\ WF_vars(Order(c))

FairSpec == Spec /\ Fairness
-----------------------------------------------------------------------------
TypeOK ==
    /\ pc \in [Calls -> PCs]
    /\ answer \in [Calls -> Answers]
    /\ proposal \in [Objects -> Proposals]
    /\ sent \in [Calls -> MaybeTx]
    /\ envelope \in [Calls -> Envelopes]
    /\ ledger \in Seq(Blocks)
    /\ Len(ledger) > 0
    /\ awaited \in [Calls -> MaybeTx]
    /\ conn \in [Calls -> {"none", "opening", "open", "refused", "closed"}]
    /\ next \in [Calls -> Nat \ {0}]
    /\ verdict \in [Calls -> Verdicts]

Recorded(tx, valid) ==
    \E i \in 1..Len(ledger) : ledger[i].tx = tx /\ ledger[i].valid = valid

\* A submit with finality reports what the ledger says of the transaction the
\* call waited for: "valid" only when a peer has it as VALID, "invalid" only
\* when a peer recorded it as invalid.
FinalityIsReal ==
    \A c \in Calls :
        /\ answer[c] = "valid" => Recorded(awaited[c], TRUE)
        /\ answer[c] = "invalid" => Recorded(awaited[c], FALSE)

\* With callers that await a call before the next one on the same Transaction
\* object, a submit that returned normally has its own transaction in the
\* ledger as VALID, although id, payload, signature and endorsements live on
\* the object the calls share.
OwnTransactionCommitted ==
    \A c \in Calls : answer[c] = "valid" => Recorded(TxId[c], TRUE)

\* Whatever is built or broadcast for a call is that call's transaction, with
\* an endorsement of that transaction by each endorser and no other
\* endorsement, such as one an earlier call left on the object.
EnvelopeIsOwn ==
    \A c \in Calls : envelope[c].stage # "none" =>
        /\ envelope[c].tx = TxId[c]
        /\ envelope[c].endorsed = {TxId[c]} \X Endorsers

\* The stream was opened after the block of the awaited transaction: NEWEST
\* was past it, and no event of it will come.
Passed(c) ==
    /\ conn[c] = "open"
    /\ \E i \in 1..Len(ledger) : i < next[c] /\ ledger[i].tx = awaited[c]

\* Every call returns, but for two ways to wait for good: connect() failed
\* with nobody awaiting it, or the transaction was in a block older than the
\* newest one when the peer opened the stream.
EventuallyAnswered ==
    \A c \in Calls :
        Running(c) ~> \/ answer[c] # "none"
                      \/ conn[c] = "refused"
                      \/ pc[c] = "waiting" /\ Passed(c)

\* An eventer that has a stream gets rid of it, so that other calls can wait on
\* it, but for a call that waits for a block NEWEST was past: whatever way
\* the other calls end, they do not keep the eventer.
EventerFreed ==
    \A eventer \in Eventers :
        Busy(eventer) ~> \/ ~Busy(eventer)
                         \/ \E c \in Calls : /\ EventerOf[ObjectOf[c]] = eventer
                                             /\ pc[c] = "waiting" /\ Passed(c)
-----------------------------------------------------------------------------
\* With callers that await a call before the next one on the object, the whole
\* flow implements the contract: answers are final and about the caller's own
\* transaction, which the orderer took or the ledger records.
Contract == INSTANCE SubmitContract
                WITH taken  <- {envelope[c].tx : c \in
                                   {d \in Calls : envelope[d].stage \in {"accepted", "ordered"}}},
                     record <- {<<ledger[i].tx, ledger[i].valid>> : i \in 1..Len(ledger)}

ImplementsContract == Contract!Spec
=============================================================================

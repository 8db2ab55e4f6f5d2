------------------------------ MODULE GoFinality ------------------------------
(***************************************************************************)
(* The Go client: a transaction is broadcast with Committer.SendRecv       *)
(* (golang/committer.go) and awaited with TransactionListener.WaitForTx    *)
(* and Eventer.SendRecv (golang/event).  Both talk over a stream that they *)
(* keep.  Broadcasts and waits run in goroutines of their caller, in any   *)
(* order; a committer may be shared, and a listener may be used for one    *)
(* wait after the other.                                                   *)
(*                                                                         *)
(* The orderer, which answers the envelopes of a stream in their order,    *)
(* and the peer, which handles one seek of a stream at a time, are the     *)
(* environment.  Block number n is chain[n + 1].                           *)
(***************************************************************************)
EXTENDS Integers, Sequences, FiniteSets

CONSTANTS
    Txs,           \* transactions broadcast and awaited
    Committers, CommitterOf,
    Listeners, ListenerOf,
    FullBlock,     \* the listeners with NewBlockEventer
    MaxNoise       \* bound on other blocks

ASSUME GoFinalityAssumption ==
    /\ CommitterOf \in [Txs -> Committers]
    /\ ListenerOf \in [Txs -> Listeners]
    /\ FullBlock \subseteq Listeners
    /\ MaxNoise \in Nat

VARIABLES
    sending,   \* per transaction: where its broadcast is
    answer,    \* per transaction: the transaction its answer was given to
    queue,     \* per committer: envelopes sent, not yet read by the orderer
    replies,   \* per committer: the orderer's answers, not yet received
    broken,    \* the committers whose stream is over
    accepted,  \* transactions to be put into a block
    chain,     \* blocks [txs, odd]: the transactions, and whether the block
               \* holds something ParseTransaction panics at
    valid,     \* transactions that were found valid
    waiting,   \* per transaction: where its wait is
    verdict,   \* per transaction: what its wait returned
    stream,    \* per listener: whether the peer serves its seek
    next       \* per listener: the number of the block to come next

broadcasting == <<sending, answer, queue, replies, broken>>
ledger == <<accepted, chain, valid>>
listening == <<waiting, verdict, stream, next>>
vars == <<broadcasting, ledger, listening>>

Init ==
    /\ sending = [t \in Txs |-> "idle"]
    /\ answer = [t \in Txs |-> {}]
    /\ queue = [c \in Committers |-> <<>>]
    /\ replies = [c \in Committers |-> <<>>]
    /\ broken = {}
    /\ accepted = {}
    /\ chain = <<[txs |-> {}, odd |-> FALSE]>>
    /\ valid = {}
    /\ waiting = [t \in Txs |-> "idle"]
    /\ verdict = [t \in Txs |-> "none"]
    /\ stream = [l \in Listeners |-> "open"]
    /\ next = [l \in Listeners |-> 0]
-----------------------------------------------------------------------------
\* Mutant: an envelope is sent again without waiting for its answer.
SendTwice(t) ==
    LET c == CommitterOf[t]
    IN  /\ sending[t] = "idle" /\ c \notin broken
        /\ queue' = [queue EXCEPT ![c] = @ \o <<t, t>>]
        /\ sending' = [sending EXCEPT ![t] = "sent"]
        /\ UNCHANGED <<answer, replies, broken, ledger, listening>>

\* Committer.SendRecv: Send...
Send(t) ==
    LET c == CommitterOf[t]
    IN  /\ sending[t] = "idle" /\ c \notin broken
        /\ queue' = [queue EXCEPT ![c] = Append(@, t)]
        /\ sending' = [sending EXCEPT ![t] = "sent"]
        /\ UNCHANGED <<answer, replies, broken, ledger, listening>>

\* ... and Recv, which takes the first answer on the stream.
Recv(t) ==
    LET c == CommitterOf[t]
    IN  /\ sending[t] = "sent"
        /\ replies[c] # <<>>
        /\ answer' = [answer EXCEPT ![t] = {Head(replies[c])}]
        /\ replies' = [replies EXCEPT ![c] = Tail(@)]
        /\ sending' = [sending EXCEPT ![t] = "done"]
        /\ UNCHANGED <<queue, broken, ledger, listening>>

\* An error of Send or of Recv is returned; answers that came are received first.
BroadcastFails(t) ==
    LET c == CommitterOf[t]
    IN  /\ c \in broken
        /\ sending[t] = "idle" \/ (sending[t] = "sent" /\ replies[c] = <<>>)
        /\ sending' = [sending EXCEPT ![t] = "failed"]
        /\ UNCHANGED <<answer, queue, replies, broken, ledger, listening>>

\* The stream breaks, or the orderer ends it after an answer that is not
\* success: what it has not read is lost, and the answers still on their way.
BroadcastBreaks(c) ==
    /\ c \notin broken
    /\ broken' = broken \cup {c}
    /\ queue' = [queue EXCEPT ![c] = <<>>]
    /\ \E n \in 0..Len(replies[c]) : replies' = [replies EXCEPT ![c] = SubSeq(@, 1, n)]
    /\ UNCHANGED <<sending, answer, ledger, listening>>

OrdererReads(c, takes) ==
    /\ queue[c] # <<>>
    /\ queue' = [queue EXCEPT ![c] = Tail(@)]
    /\ replies' = [replies EXCEPT ![c] = Append(@, Head(queue[c]))]
    /\ accepted' = IF takes THEN accepted \cup {Head(queue[c])} ELSE accepted
    /\ UNCHANGED <<sending, answer, broken, chain, valid, listening>>

\* A block takes some of the accepted transactions; the peer validates them.
Order(txs) ==
    /\ txs \subseteq accepted /\ txs # {}
    /\ accepted' = accepted \ txs
    /\ chain' = Append(chain, [txs |-> txs, odd |-> FALSE])
    /\ \E good \in SUBSET txs : valid' = valid \cup good
    /\ UNCHANGED <<broadcasting, listening>>

OtherBlock(odd) ==
    /\ Cardinality({i \in 1..Len(chain) : chain[i].txs = {}}) <= MaxNoise
    /\ chain' = Append(chain, [txs |-> {}, odd |-> odd])
    /\ UNCHANGED <<accepted, valid, broadcasting, listening>>
-----------------------------------------------------------------------------
InUse(l) == \E t \in Txs : ListenerOf[t] = l /\ waiting[t] = "receiving"

\* WaitForTx sets what to look for, SendRecv sends the seek.  On a stream that
\* serves a seek to the end of time the peer never gets to another one.
WaitForTx(t) ==
    LET l == ListenerOf[t]
    IN  /\ waiting[t] = "idle"
        /\ stream[l] # "broken"
        /\ ~InUse(l)
        /\ waiting' = [waiting EXCEPT ![t] = "receiving"]
        /\ stream' = [stream EXCEPT ![l] = IF @ = "open" THEN "sought" ELSE @]
        /\ UNCHANGED <<broadcasting, ledger, verdict, next>>

SendFails(t) ==
    /\ waiting[t] = "idle"
    /\ stream[ListenerOf[t]] = "broken"
    /\ waiting' = [waiting EXCEPT ![t] = "panicked"]
    /\ UNCHANGED <<broadcasting, ledger, verdict, stream, next>>

\* GetSeekInfo: from the newest block of that moment on.
PeerSeeks(l) ==
    /\ stream[l] = "sought"
    /\ stream' = [stream EXCEPT ![l] = "serving"]
    /\ next' = [next EXCEPT ![l] = Len(chain) - 1]
    /\ UNCHANGED <<broadcasting, ledger, waiting, verdict>>

Block(n) == chain[n + 1]

\* A block comes to the wait that is receiving.
Comes(t) ==
    LET l == ListenerOf[t]
    IN  /\ waiting[t] = "receiving"
        /\ stream[l] = "serving" /\ next[l] < Len(chain)

\* Mutant: the validation code is that of the first transaction of the block.
FoundFirst(t, block) ==
    /\ t \in block.txs
    /\ waiting' = [waiting EXCEPT ![t] = "done"]
    /\ \E first \in block.txs :
           verdict' = [verdict EXCEPT ![t] = IF first \in valid THEN "valid" ELSE "invalid"]

\* The transaction is in the block: its validation code is returned.
Found(t, block) ==
    /\ t \in block.txs
    /\ waiting' = [waiting EXCEPT ![t] = "done"]
    /\ verdict' = [verdict EXCEPT ![t] = IF t \in valid THEN "valid" ELSE "invalid"]

\* FromFullBlock panics at what ParseTransaction does not know.
Panics(t, block) ==
    /\ ListenerOf[t] \in FullBlock /\ block.odd
    /\ waiting' = [waiting EXCEPT ![t] = "panicked"]
    /\ UNCHANGED verdict

Continues(t, block) ==
    /\ t \notin block.txs
    /\ ~(ListenerOf[t] \in FullBlock /\ block.odd)
    /\ UNCHANGED <<waiting, verdict>>

\* Mutant: a block is passed to the next wait when it had the transaction.
ReceivePast(t) ==
    LET l == ListenerOf[t]
        block == Block(next[l])
    IN  /\ Comes(t)
        /\ next' = [next EXCEPT ![l] = @ + 2]
        /\ Found(t, block) \/ Panics(t, block) \/ Continues(t, block)
        /\ UNCHANGED <<broadcasting, ledger, stream>>

Receive(t) ==
    LET l == ListenerOf[t]
        block == Block(next[l])
    IN  /\ Comes(t)
        /\ next' = [next EXCEPT ![l] = @ + 1]
        /\ Found(t, block) \/ Panics(t, block) \/ Continues(t, block)
        /\ UNCHANGED <<broadcasting, ledger, stream>>

\* A status other than success or not found, or a failure of the network.
StreamBreaks(l) ==
    /\ stream[l] \in {"sought", "serving"}
    /\ stream' = [stream EXCEPT ![l] = "broken"]
    /\ waiting' = [t \in Txs |-> IF ListenerOf[t] = l /\ waiting[t] = "receiving"
                                 THEN "panicked" ELSE waiting[t]]
    /\ UNCHANGED <<broadcasting, ledger, verdict, next>>

\* Status not found, or the end of the stream: SendRecv returns that status, or
\* nothing, in place of a validation code.  (Status success does not come, for
\* the seek has no end.)
StreamEnds(l) ==
    LET ended == {t \in Txs : ListenerOf[t] = l /\ waiting[t] = "receiving"}
    IN  /\ stream[l] \in {"sought", "serving"}
        /\ stream' = [stream EXCEPT ![l] = "broken"]
        /\ waiting' = [t \in Txs |-> IF t \in ended THEN "done" ELSE waiting[t]]
        /\ verdict' = [t \in Txs |-> IF t \in ended THEN "ended" ELSE verdict[t]]
        /\ UNCHANGED <<broadcasting, ledger, next>>

Next ==
    \/ \E t \in Txs : Send(t) \/ Recv(t) \/ BroadcastFails(t)
                      \/ WaitForTx(t) \/ SendFails(t) \/ Receive(t)
    \/ \E c \in Committers :
          BroadcastBreaks(c) \/ \E takes \in BOOLEAN : OrdererReads(c, takes)
    \/ \E txs \in SUBSET Txs : Order(txs)
    \/ \E odd \in BOOLEAN : OtherBlock(odd)
    \/ \E l \in Listeners : PeerSeeks(l) \/ StreamBreaks(l) \/ StreamEnds(l)

Spec == Init /\ [][Next]_vars

\* Answers and blocks that are there come, and seeks are served.
FairSpec ==
    /\ Spec
    /\ \A t \in Txs : WF_vars(Recv(t)) /\ WF_vars(Receive(t))
    /\ \A l \in Listeners : WF_vars(PeerSeeks(l))
    /\ \A c \in Committers : WF_vars(\E takes \in BOOLEAN : OrdererReads(c, takes))
-----------------------------------------------------------------------------
Ordered(t) == \E i \in 1..Len(chain) : t \in chain[i].txs
NumberOf(t) == CHOOSE n \in 0..(Len(chain) - 1) : t \in Block(n).txs

TypeOK ==
    /\ sending \in [Txs -> {"idle", "sent", "done", "failed"}]
    /\ answer \in [Txs -> SUBSET Txs]
    /\ queue \in [Committers -> Seq(Txs)] /\ replies \in [Committers -> Seq(Txs)]
    /\ broken \subseteq Committers
    /\ accepted \subseteq Txs /\ valid \subseteq Txs
    /\ chain \in Seq([txs : SUBSET Txs, odd : BOOLEAN])
    /\ waiting \in [Txs -> {"idle", "receiving", "done", "panicked"}]
    /\ verdict \in [Txs -> {"none", "valid", "invalid", "ended"}]
    /\ stream \in [Listeners -> {"open", "sought", "serving", "broken"}]
    /\ \A l \in Listeners : next[l] \in 0..Len(chain)

\* The validation code a wait returns is what the ledger records of its own
\* transaction, with other transactions in the same block (tx.go:17-33) and other
\* waits on the stream; and a wait returns without one only from a stream that
\* is over, whose later waits fail.
VerdictIsOwn ==
    \A t \in Txs : waiting[t] = "done" =>
        \/ /\ Ordered(t)
           /\ verdict[t] = IF t \in valid THEN "valid" ELSE "invalid"
        \/ verdict[t] = "ended" /\ stream[ListenerOf[t]] = "broken"

\* On a shared committer (committer.go:28-36 has no lock and no correlation) an
\* answer may be another call's, but every answer goes to one call, and while
\* the stream is up every call that sent its envelope has an answer to come.
AnswersAreEnough ==
    /\ \A s, t \in Txs : s # t => answer[s] \cap answer[t] = {}
    /\ \A c \in Committers \ broken :
           LET sent == {t \in Txs : CommitterOf[t] = c /\ sending[t] = "sent"}
           IN  Cardinality(sent) = Len(queue[c]) + Len(replies[c])

\* A wait whose stream still has the transaction's block to come ends
\* (eventer.go:70-103 reads on until then).  A wait that starts when newer blocks
\* have come, or on a stream that is past the block, need not end: GetSeekInfo
\* (tx.go:39-44) looks no further back than the newest block.
EventuallyFound ==
    \A t \in Txs :
        (/\ waiting[t] = "receiving" /\ stream[ListenerOf[t]] = "serving"
         /\ Ordered(t) /\ next[ListenerOf[t]] <= NumberOf(t))
            ~> waiting[t] # "receiving"
=============================================================================

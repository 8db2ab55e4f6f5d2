---------------------------- MODULE ChannelConfig ----------------------------
(***************************************************************************)
(* nodejs/channelConfig.js: ChannelConfig.setAnchorPeers.  A call reads    *)
(* the channel configuration from the orderer (getChannelConfigFromOrderer *)
(* of nodejs/channel.js, two blocks one after the other), computes an      *)
(* update, submits it (nodejs/admin/channelUpdate.js), and, when finality  *)
(* is required, waits for a block and reads the configuration again.       *)
(* Calls interleave at every await.                                        *)
(*                                                                         *)
(* The orderer is the environment.  It takes an update only if the values  *)
(* it changes still have the versions it was computed from, once more when *)
(* it comes to order it, and puts each into a block of its own.  Block     *)
(* number n is chain[n + 1].                                               *)
(***************************************************************************)
EXTENDS Integers, Sequences, FiniteSets

CONSTANTS
    Updates,   \* calls of setAnchorPeers
    Orgs,
    OrgOf,     \* the organisation a call is for
    Wanted,    \* per call: the anchor peers to set
    Finality,  \* the calls with finalityRequired
    Unset,     \* no anchor peers
    NoOne,     \* a block that is nobody's update
    MaxNoise   \* bound on other blocks

ASSUME ChannelConfigAssumption ==
    /\ OrgOf \in [Updates -> Orgs]
    /\ \A u \in Updates : Wanted[u] # Unset
    /\ Finality \subseteq Updates
    /\ NoOne \notin Updates
    /\ MaxNoise \in Nat

VARIABLES
    chain,      \* blocks [by, config, index]: index is the block number of
                \* the last configuration, and config is empty in other blocks
    pc, answer,
    lastIndex,  \* per call: the configuration block number it read
    config,     \* per call: the configuration it read
    seenAt,     \* per call: the number of the newest block at that time
    update,     \* per call: what it submits
    before,     \* per call: the block number getLastBlock got
    broadcast,  \* updates on their way to the orderer
    accepted    \* updates the orderer took

reading == <<lastIndex, config, seenAt>>
orderer == <<broadcast, accepted>>
vars == <<chain, pc, answer, reading, update, before, orderer>>

\* A configuration: per organisation its anchor peers and their version.
Genesis == [org \in Orgs |-> [anchors |-> Unset, version |-> 0]]
NoConfig == <<>>
NoUpdate == [anchors |-> Unset, version |-> 0]

Init ==
    /\ chain = <<[by |-> NoOne, config |-> Genesis, index |-> 0]>>
    /\ pc = [u \in Updates |-> "idle"]
    /\ answer = [u \in Updates |-> "none"]
    /\ lastIndex = [u \in Updates |-> 0]
    /\ config = [u \in Updates |-> NoConfig]
    /\ seenAt = [u \in Updates |-> 0]
    /\ update = [u \in Updates |-> NoUpdate]
    /\ before = [u \in Updates |-> 0]
    /\ broadcast = {}
    /\ accepted = {}
-----------------------------------------------------------------------------
Newest == Len(chain) - 1
Block(n) == chain[n + 1]

Goto(u, label) == pc' = [pc EXCEPT ![u] = label]

Return(u, a) ==
    /\ pc' = [pc EXCEPT ![u] = "done"]
    /\ answer' = [answer EXCEPT ![u] = a]

SetAnchorPeers(u) ==
    /\ pc[u] = "idle"
    /\ Goto(u, "newest")
    /\ UNCHANGED <<chain, answer, reading, update, before, orderer>>

\* getChannelConfigFromOrderer: the newest block, for the number of the last
\* configuration block...
ReadNewest(u) ==
    /\ pc[u] \in {"newest", "newestAgain"}
    /\ lastIndex' = [lastIndex EXCEPT ![u] = Block(Newest).index]
    /\ seenAt' = [seenAt EXCEPT ![u] = Newest]
    /\ Goto(u, IF pc[u] = "newest" THEN "config" ELSE "configAgain")
    /\ UNCHANGED <<chain, answer, config, update, before, orderer>>

\* Mutant: the configuration of the moment.
ReadCurrent(u) ==
    /\ pc[u] \in {"config", "configAgain"}
    /\ config' = [config EXCEPT ![u] = Block(Block(Newest).index).config]
    /\ Goto(u, IF pc[u] = "config" THEN "compute" ELSE "check")
    /\ UNCHANGED <<chain, answer, lastIndex, seenAt, update, before, orderer>>

\* ... and that block.
ReadConfig(u) ==
    /\ pc[u] \in {"config", "configAgain"}
    /\ config' = [config EXCEPT ![u] = Block(lastIndex[u]).config]
    /\ Goto(u, IF pc[u] = "config" THEN "compute" ELSE "check")
    /\ UNCHANGED <<chain, answer, lastIndex, seenAt, update, before, orderer>>

\* computeUpdate finds no difference: the call returns.
Skip(u) ==
    /\ pc[u] = "compute"
    /\ config[u][OrgOf[u]].anchors = Wanted[u]
    /\ Return(u, "unchanged")
    /\ UNCHANGED <<chain, reading, update, before, orderer>>

ComputeUpdate(u) ==
    /\ pc[u] = "compute"
    /\ config[u][OrgOf[u]].anchors # Wanted[u]
    /\ update' = [update EXCEPT ![u] =
                     [anchors |-> Wanted[u], version |-> config[u][OrgOf[u]].version + 1]]
    /\ Goto(u, IF u \in Finality THEN "last" ELSE "submit")
    /\ UNCHANGED <<chain, answer, reading, before, orderer>>

\* getLastBlock on the orderer's eventer, then the hub is disconnected.
GetLastBlock(u) ==
    /\ pc[u] = "last"
    /\ before' = [before EXCEPT ![u] = Newest]
    /\ Goto(u, "submit")
    /\ UNCHANGED <<chain, answer, reading, update, orderer>>

Submit(u) ==
    /\ pc[u] = "submit"
    /\ broadcast' = broadcast \cup {u}
    /\ Goto(u, "submitted")
    /\ UNCHANGED <<chain, answer, reading, update, before, accepted>>

\* A request fails or times out; what was submitted may still be ordered.
RequestFails(u) ==
    /\ pc[u] \notin {"idle", "compute", "check", "silent", "done"}
    /\ Return(u, "error")
    /\ UNCHANGED <<chain, reading, update, before, orderer>>

\* The binaries that decode, encode and compare configurations are not there
\* or fail.
Throws(u) ==
    /\ pc[u] \in {"compute", "check"}
    /\ Return(u, "error")
    /\ UNCHANGED <<chain, reading, update, before, orderer>>

\* The stream of a read ends without a status, which clears its timeout: the
\* read neither resolves nor rejects.
ReadGoesSilent(u) ==
    /\ pc[u] \in {"newest", "config", "newestAgain", "configAgain"}
    /\ Goto(u, "silent")
    /\ UNCHANGED <<chain, answer, reading, update, before, orderer>>

\* So does a wait on the event hub whose connect() is rejected.
WaitGoesSilent(u) ==
    /\ pc[u] \in {"last", "waiting"}
    /\ Goto(u, "silent")
    /\ UNCHANGED <<chain, answer, reading, update, before, orderer>>

\* Mutant: the wait is over at the block before.
BlockBeforeCame(u) ==
    /\ pc[u] = "waiting"
    /\ Newest >= before[u]
    /\ Goto(u, "newestAgain")
    /\ UNCHANGED <<chain, answer, reading, update, before, orderer>>

\* Mutant: the wait is for one block more.
BlockAfterCame(u) ==
    /\ pc[u] = "waiting"
    /\ Newest >= before[u] + 2
    /\ Goto(u, "newestAgain")
    /\ UNCHANGED <<chain, answer, reading, update, before, orderer>>

\* waitUntilBlock(beforeHeight + 1).
BlockCame(u) ==
    /\ pc[u] = "waiting"
    /\ Newest >= before[u] + 1
    /\ Goto(u, "newestAgain")
    /\ UNCHANGED <<chain, answer, reading, update, before, orderer>>

\* Mutant: the configuration is read again but not compared.
CheckNothing(u) ==
    /\ pc[u] = "check"
    /\ Return(u, "final")
    /\ UNCHANGED <<chain, reading, update, before, orderer>>

\* The configuration read again must have the anchor peers.
Check(u) ==
    /\ pc[u] = "check"
    /\ Return(u, IF config[u][OrgOf[u]].anchors = Wanted[u] THEN "final" ELSE "mismatch")
    /\ UNCHANGED <<chain, reading, update, before, orderer>>
-----------------------------------------------------------------------------
\* The orderer.
Current == Block(Block(Newest).index).config
Applies(u) == update[u].version = Current[OrgOf[u]].version + 1

\* Its answer: the call asserts success and, without finality, returns.
Answered(u, success) ==
    IF pc[u] # "submitted" THEN UNCHANGED <<pc, answer>>
    ELSE IF ~success THEN Return(u, "error")
    ELSE IF u \in Finality THEN Goto(u, "waiting") /\ UNCHANGED answer
    ELSE Return(u, "submitted")

OrdererAnswers(u) ==
    /\ u \in broadcast
    /\ broadcast' = broadcast \ {u}
    /\ accepted' = IF Applies(u) THEN accepted \cup {u} ELSE accepted
    /\ Answered(u, Applies(u))
    /\ UNCHANGED <<chain, reading, update, before>>

Order(u) ==
    /\ u \in accepted
    /\ accepted' = accepted \ {u}
    /\ chain' = IF Applies(u)
                THEN Append(chain, [by |-> u, index |-> Newest + 1,
                                    config |-> [Current EXCEPT ![OrgOf[u]] = update[u]]])
                ELSE chain
    /\ UNCHANGED <<pc, answer, reading, update, before, broadcast>>

OtherBlock ==
    /\ Cardinality({i \in 1..Len(chain) : chain[i].by = NoOne}) <= MaxNoise
    /\ chain' = Append(chain, [by |-> NoOne, config |-> NoConfig, index |-> Block(Newest).index])
    /\ UNCHANGED <<pc, answer, reading, update, before, orderer>>

Call(u) ==
    \/ SetAnchorPeers(u) \/ ReadNewest(u) \/ ReadConfig(u) \/ Skip(u)
    \/ ComputeUpdate(u) \/ GetLastBlock(u) \/ Submit(u) \/ BlockCame(u) \/ Check(u)

Next ==
    \/ \E u \in Updates :
          \/ Call(u) \/ RequestFails(u) \/ Throws(u)
          \/ ReadGoesSilent(u) \/ WaitGoesSilent(u)
          \/ OrdererAnswers(u) \/ Order(u)
    \/ OtherBlock

Spec == Init /\ [][Next]_vars

\* A read is answered, fails (its timeout is one way to), or goes silent; a wait
\* whose block comes ends, fails or goes silent; a broadcast is answered or its
\* timeout fails it; and the orderer orders what it accepted.
FairSpec ==
    Spec /\ \A u \in Updates : WF_vars(Call(u)) /\ WF_vars(OrdererAnswers(u)) /\ WF_vars(Order(u))
-----------------------------------------------------------------------------
Anchors == {Unset} \cup {Wanted[u] : u \in Updates}
Values == [anchors : Anchors, version : Nat]
Configs == [Orgs -> Values]
Blocks == [by : Updates \cup {NoOne}, config : Configs \cup {NoConfig}, index : Nat]
PCs == {"idle", "newest", "config", "compute", "last", "submit", "submitted",
        "waiting", "newestAgain", "configAgain", "check", "silent", "done"}

\* Every block points at a configuration block, itself or an older one.
ConfigAt(n) == chain[n + 1].index = n /\ chain[n + 1].config \in Configs

ChainOK ==
    /\ chain \in Seq(Blocks) /\ Len(chain) > 0
    /\ \A i \in 1..Len(chain) : chain[i].index < i /\ ConfigAt(chain[i].index)

CallsOK ==
    /\ pc \in [Updates -> PCs]
    /\ answer \in [Updates -> {"none", "unchanged", "submitted", "final", "mismatch", "error"}]
    /\ lastIndex \in [Updates -> Nat] /\ seenAt \in [Updates -> Nat]
    /\ config \in [Updates -> Configs \cup {NoConfig}]
    /\ update \in [Updates -> Values]
    /\ before \in [Updates -> Nat]
    /\ broadcast \subseteq Updates /\ accepted \subseteq Updates

\* What a call read is not ahead of the chain.
ReadsOK ==
    \A u \in Updates : lastIndex[u] <= seenAt[u] /\ seenAt[u] <= Newest /\ before[u] <= Newest

TypeOK == ChainOK /\ CallsOK /\ ReadsOK

\* The configuration a call reads in two steps is the one that held at the
\* newest block of the first step, whatever was ordered in between.
SnapshotRead ==
    \A u \in Updates : pc[u] \in {"compute", "check"} =>
        config[u] = Block(Block(seenAt[u]).index).config

InForce(u) ==
    \E i \in 1..Len(chain) :
        chain[i].index = i - 1 /\ chain[i].config[OrgOf[u]].anchors = Wanted[u]

\* A call that returned normally with finality, or found no difference, has
\* its anchor peers in a configuration of the channel.
ReturnMeansSet ==
    \A u \in Updates : answer[u] \in {"final", "unchanged"} => InForce(u)

\* A block that sets the anchor peers of a call's organisation to others.
ChangesFor(u, n) ==
    /\ Block(n).by \in Updates \ {u}
    /\ OrgOf[Block(n).by] = OrgOf[u] /\ Wanted[Block(n).by] # Wanted[u]

\* The assertion after the wait fails only when the call was overtaken: the
\* block it waited for is not its own, or between that block and the second
\* reading the organisation's anchor peers were set to others.
MismatchIsOvertaken ==
    \A u \in Updates : answer[u] = "mismatch" =>
        /\ before[u] < seenAt[u]
        /\ \/ Block(before[u] + 1).by # u
           \/ \E n \in (before[u] + 2)..seenAt[u] : ChangesFor(u, n)

\* No call goes on for good, but for one that waits for a block when its update
\* was dropped and nobody else makes a block, and one whose read or wait has
\* gone silent.
EventuallyReturns ==
    \A u \in Updates :
        \/ []<>(pc[u] \in {"idle", "done"})
        \/ <>[](pc[u] = "waiting" /\ Newest = before[u])
        \/ <>[](pc[u] = "silent")
=============================================================================

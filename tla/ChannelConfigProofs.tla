------------------------- MODULE ChannelConfigProofs -------------------------
(***************************************************************************)
(* Proofs about ChannelConfig, for any number of concurrent calls and of   *)
(* blocks: a configuration that is read in two steps is a snapshot, and a  *)
(* call that returns normally has its anchor peers in the channel.         *)
(***************************************************************************)
EXTENDS ChannelConfig, SequenceTheorems, TLAPS

\* The block number a call holds is the one its newest block pointed at.
IndexRead ==
    \A u \in Updates : pc[u] \in {"config", "configAgain"} => lastIndex[u] = Block(seenAt[u]).index

\* The inductive invariant: without the last two conjuncts a call could have
\* read a block that holds no configuration.
Inv == TypeOK /\ IndexRead /\ SnapshotRead

\* A block of the chain stays where it is when one is appended.
LEMMA AppendBlock ==
    ASSUME ChainOK, NEW block \in Blocks, chain' = Append(chain, block)
    PROVE  /\ chain' \in Seq(Blocks)
           /\ Len(chain') = Len(chain) + 1
           /\ \A i \in 1..Len(chain) : chain'[i] = chain[i]
           /\ chain'[Len(chain) + 1] = block
BY AppendProperties DEF ChainOK

\* The configuration in force is one, and the last block points at it.
LEMMA CurrentIsConfig ==
    ASSUME ChainOK
    PROVE  /\ Newest \in Nat /\ Len(chain) = Newest + 1
           /\ Block(Newest) \in Blocks
           /\ Block(Newest).index \in 0..Newest
           /\ ConfigAt(Block(Newest).index)
           /\ Current \in Configs
<1>1. Len(chain) \in Nat /\ Len(chain) \in 1..Len(chain) /\ Newest + 1 = Len(chain) /\ Newest \in Nat
  BY DEF ChainOK, Newest
<1>2. Block(Newest) = chain[Len(chain)] /\ chain[Len(chain)] \in Blocks
  <2>1. chain \in Seq(Blocks)
    BY DEF ChainOK
  <2>2. QED BY <1>1, <2>1, ElementOfSeq DEF Block
<1>3. chain[Len(chain)].index < Len(chain) /\ ConfigAt(chain[Len(chain)].index)
  BY <1>1 DEF ChainOK
<1>4. chain[Len(chain)].index \in Nat
  BY <1>2 DEF Blocks
<1>5. Block(Newest).index \in 0..Newest
  BY <1>1, <1>2, <1>3, <1>4
<1>6. Current \in Configs
  BY <1>2, <1>3 DEF ConfigAt, Current, Block
<1>7. QED BY <1>1, <1>2, <1>3, <1>5, <1>6

\* The configuration with one value changed.
LEMMA UpdatedConfig ==
    ASSUME TypeOK, NEW u \in Updates
    PROVE  [Current EXCEPT ![OrgOf[u]] = update[u]] \in Configs
<1>1. Current \in [Orgs -> Values]
  BY CurrentIsConfig DEF TypeOK, Configs
<1>2. update[u] \in Values
  BY DEF TypeOK, CallsOK
<1>3. QED BY <1>1, <1>2 DEF Configs

\* What a step may append: a configuration, or a block that points where the
\* last one does.
Follows(block) ==
    \/ /\ block.by \in accepted /\ block.index = Newest + 1 /\ block.config \in Configs
       /\ block.config = [Current EXCEPT ![OrgOf[block.by]] = update[block.by]]
    \/ block.by = NoOne /\ block.index = Block(Newest).index

LEMMA ChainStep ==
    ASSUME TypeOK, [Next]_vars
    PROVE  \/ chain' = chain
           \/ \E block \in Blocks : chain' = Append(chain, block) /\ Follows(block)
<1>1. ASSUME NEW u \in Updates, Order(u), chain' # chain
      PROVE  \E block \in Blocks : chain' = Append(chain, block) /\ Follows(block)
  <2> DEFINE updated == [Current EXCEPT ![OrgOf[u]] = update[u]]
             block == [by |-> u, index |-> Newest + 1, config |-> updated]
  <2>1. updated \in Configs /\ Newest + 1 \in Nat
    <3>1. Newest + 1 \in Nat
      BY CurrentIsConfig DEF TypeOK
    <3>2. QED BY <3>1, UpdatedConfig
  <2>2. chain' = Append(chain, block)
    BY <1>1 DEF Order
  <2> HIDE DEF updated
  <2>3. block \in Blocks /\ block.config = updated /\ block.index = Newest + 1 /\ block.by = u
    BY <2>1 DEF Blocks
  <2>4. u \in accepted /\ updated = [Current EXCEPT ![OrgOf[u]] = update[u]]
    BY <1>1 DEF Order, updated
  <2>5. QED BY <2>1, <2>2, <2>3, <2>4 DEF Follows
<1>2. ASSUME OtherBlock
      PROVE  \E block \in Blocks : chain' = Append(chain, block) /\ Follows(block)
  <2> DEFINE index == Block(Newest).index
             block == [by |-> NoOne, config |-> NoConfig, index |-> index]
  <2>1. index \in Nat
    BY CurrentIsConfig DEF TypeOK
  <2>2. chain' = Append(chain, block)
    BY <1>2 DEF OtherBlock
  <2>3. index = Block(Newest).index
    OBVIOUS
  <2> HIDE DEF index
  <2>4. block \in Blocks /\ block.index = index /\ block.by = NoOne
    BY <2>1 DEF Blocks
  <2>5. QED BY <2>2, <2>3, <2>4 DEF Follows
<1>3. CASE UNCHANGED vars
  BY <1>3 DEF vars
<1>4. ASSUME NEW u \in Updates, Call(u) \/ RequestFails(u) \/ Throws(u) \/ ReadGoesSilent(u) \/ WaitGoesSilent(u) \/ OrdererAnswers(u)
      PROVE  chain' = chain
  BY <1>4 DEF Call, SetAnchorPeers, ReadNewest, ReadConfig, Skip, ComputeUpdate, GetLastBlock,
              Submit, BlockCame, Check, RequestFails, Throws, ReadGoesSilent, WaitGoesSilent, OrdererAnswers
<1>5. QED BY <1>1, <1>2, <1>3, <1>4 DEF Next

\* The chain keeps its blocks, in number and in place.
LEMMA ChainKeeps ==
    ASSUME TypeOK, [Next]_vars
    PROVE  /\ ChainOK'
           /\ Newest <= Newest'
           /\ \A i \in 1..Len(chain) : chain'[i] = chain[i]
<1>1. /\ Newest \in Nat /\ Len(chain) = Newest + 1
      /\ ChainOK
  BY CurrentIsConfig DEF TypeOK
<1>2. CASE chain' = chain
  <2>1. ChainOK' /\ Newest' = Newest
    BY <1>1, <1>2 DEF ChainOK, ConfigAt, Newest
  <2>2. QED BY <1>1, <1>2, <2>1
<1>3. ASSUME NEW block \in Blocks, chain' = Append(chain, block), Follows(block)
      PROVE  /\ ChainOK'
             /\ Newest <= Newest'
             /\ \A i \in 1..Len(chain) : chain'[i] = chain[i]
  <2>1. /\ chain' \in Seq(Blocks) /\ Len(chain') = Len(chain) + 1
        /\ \A i \in 1..Len(chain) : chain'[i] = chain[i]
        /\ chain'[Len(chain) + 1] = block
    BY <1>1, <1>3, AppendBlock
  <2>2. ASSUME NEW n \in 0..Newest, ConfigAt(n) PROVE ConfigAt(n)'
    <3>1. n + 1 \in 1..Len(chain)
      BY <1>1
    <3>2. QED BY <2>1, <2>2, <3>1 DEF ConfigAt, Configs, Values, Anchors
  <2>3. ASSUME NEW i \in 1..Len(chain')
        PROVE  (chain[i].index < i /\ ConfigAt(chain[i].index))'
    <3>1. CASE i \in 1..Len(chain)
      <4>1. chain[i].index < i /\ ConfigAt(chain[i].index)
        BY <1>1, <3>1 DEF ChainOK
      <4>2. chain[i] \in Blocks
        BY <1>1, <3>1, ElementOfSeq DEF ChainOK
      <4>3. chain[i].index \in 0..Newest
        BY <4>1, <4>2, <3>1, <1>1 DEF Blocks
      <4>4. chain'[i] = chain[i]
        BY <2>1, <3>1
      <4>5. QED BY <4>1, <4>3, <4>4, <2>2
    <3>2. CASE i = Len(chain) + 1 /\ block.index = Newest + 1 /\ block.config \in Configs
      <4>1. chain'[i] = block /\ block.index + 1 = i /\ block.index < i
        BY <2>1, <3>2, <1>1
      <4>2. chain'[block.index + 1] = block
        BY <4>1
      <4>3. ConfigAt(block.index)'
        BY <4>2, <3>2 DEF ConfigAt, Configs, Values, Anchors
      <4>4. QED BY <4>1, <4>3
    <3>3. CASE i = Len(chain) + 1 /\ block.index = Block(Newest).index
      <4>1. block.index \in 0..Newest /\ ConfigAt(block.index)
        BY <1>1, <3>3, CurrentIsConfig
      <4>2. chain'[i] = block /\ block.index < i
        BY <2>1, <4>1, <3>3, <1>1
      <4>3. QED BY <4>1, <4>2, <2>2
    <3>4. i \in 1..Len(chain) \/ i = Len(chain) + 1
      BY <2>1, <1>1
    <3>5. QED BY <1>3, <3>1, <3>2, <3>3, <3>4 DEF Follows
  <2>4. Newest <= Newest' /\ Len(chain') > 0
    BY <2>1, <1>1 DEF Newest
  <2>5. ChainOK'
    BY <2>1, <2>3, <2>4 DEF ChainOK
  <2>6. QED BY <2>1, <2>4, <2>5
<1>4. QED BY <1>2, <1>3, ChainStep
\* A block a call has read is still there.
LEMMA ReadsInChain ==
    ASSUME TypeOK, NEW u \in Updates
    PROVE  Block(lastIndex[u]).config \in Configs \cup {NoConfig}
<1>1. Newest \in Nat /\ Len(chain) = Newest + 1
  BY CurrentIsConfig DEF TypeOK
<1>2. lastIndex[u] \in Nat /\ seenAt[u] \in Nat /\ lastIndex[u] <= seenAt[u] /\ seenAt[u] <= Newest
  BY DEF TypeOK, CallsOK, ReadsOK
<1>3. lastIndex[u] + 1 \in 1..Len(chain)
  BY <1>1, <1>2
<1>4. chain[lastIndex[u] + 1] \in Blocks
  BY <1>3, ElementOfSeq DEF TypeOK, ChainOK
<1>5. QED BY <1>4 DEF Block, Blocks

\* A call that is past its two reads holds a configuration.
LEMMA HoldsConfig ==
    ASSUME Inv, NEW u \in Updates, pc[u] \in {"compute", "check"}
    PROVE  config[u] \in Configs
<1>1. config[u] = Block(Block(seenAt[u]).index).config
  BY DEF Inv, SnapshotRead
<1>2. seenAt[u] \in Nat /\ seenAt[u] <= Newest
  BY DEF Inv, TypeOK, CallsOK, ReadsOK
<1>3. Newest \in Nat /\ Len(chain) = Newest + 1
  BY CurrentIsConfig DEF Inv, TypeOK
<1>4. seenAt[u] + 1 \in 1..Len(chain)
  BY <1>2, <1>3
<1>5. ConfigAt(Block(seenAt[u]).index)
  BY <1>4 DEF Inv, TypeOK, ChainOK, Block
<1>6. QED BY <1>1, <1>5 DEF ConfigAt, Block

\* What the calls hold keeps its shape.
LEMMA CallsStep ==
    ASSUME Inv, [Next]_vars
    PROVE  CallsOK'
<1> USE DEF Goto, Return, reading, orderer
<1>1. CallsOK /\ Newest \in Nat /\ Block(Newest).index \in Nat
  BY CurrentIsConfig DEF Inv, TypeOK
<1>2. CASE UNCHANGED vars
  BY <1>1, <1>2 DEF vars, CallsOK
<1>3. CASE OtherBlock
  BY <1>1, <1>3 DEF OtherBlock, CallsOK
<1>4. ASSUME NEW u \in Updates, SetAnchorPeers(u) PROVE CallsOK'
  BY <1>1, <1>4 DEF SetAnchorPeers, CallsOK, PCs
<1>5. ASSUME NEW u \in Updates, ReadNewest(u) PROVE CallsOK'
  BY <1>1, <1>5 DEF ReadNewest, CallsOK, PCs
<1>6. ASSUME NEW u \in Updates, ReadConfig(u) PROVE CallsOK'
  <2>1. Block(lastIndex[u]).config \in Configs \cup {NoConfig}
    BY ReadsInChain DEF Inv
  <2>2. config' \in [Updates -> Configs \cup {NoConfig}]
    BY <1>1, <1>6, <2>1 DEF ReadConfig, CallsOK
  <2>3. QED BY <1>1, <1>6, <2>2 DEF ReadConfig, CallsOK, PCs
<1>7. ASSUME NEW u \in Updates, Skip(u) PROVE CallsOK'
  BY <1>1, <1>7 DEF Skip, CallsOK, PCs
<1>8. ASSUME NEW u \in Updates, ComputeUpdate(u) PROVE CallsOK'
  <2> DEFINE value == [anchors |-> Wanted[u], version |-> config[u][OrgOf[u]].version + 1]
  <2>1. config[u] \in Configs
    BY <1>8, HoldsConfig DEF ComputeUpdate
  <2>2. config[u][OrgOf[u]].version \in Nat
    BY <2>1, ChannelConfigAssumption DEF Configs, Values
  <2>3. value \in Values
    BY <2>2 DEF Values, Anchors
  <2>4. update' = [update EXCEPT ![u] = value]
    BY <1>8 DEF ComputeUpdate
  <2> HIDE DEF value
  <2>5. update' \in [Updates -> Values]
    BY <1>1, <2>3, <2>4 DEF CallsOK
  <2>6. QED BY <1>1, <1>8, <2>5 DEF ComputeUpdate, CallsOK, PCs
<1>9. ASSUME NEW u \in Updates, GetLastBlock(u) PROVE CallsOK'
  BY <1>1, <1>9 DEF GetLastBlock, CallsOK, PCs
<1>10. ASSUME NEW u \in Updates, Submit(u) PROVE CallsOK'
  BY <1>1, <1>10 DEF Submit, CallsOK, PCs
<1>11. ASSUME NEW u \in Updates, BlockCame(u) PROVE CallsOK'
  BY <1>1, <1>11 DEF BlockCame, CallsOK, PCs
<1>12. ASSUME NEW u \in Updates, Check(u) PROVE CallsOK'
  BY <1>1, <1>12 DEF Check, CallsOK, PCs
<1>13. ASSUME NEW u \in Updates, RequestFails(u) \/ Throws(u) \/ ReadGoesSilent(u) \/ WaitGoesSilent(u) PROVE CallsOK'
  BY <1>1, <1>13 DEF RequestFails, Throws, ReadGoesSilent, WaitGoesSilent, CallsOK, PCs
<1>14. ASSUME NEW u \in Updates, OrdererAnswers(u) PROVE CallsOK'
  BY <1>1, <1>14 DEF OrdererAnswers, Answered, CallsOK, PCs
<1>15. ASSUME NEW u \in Updates, Order(u) PROVE CallsOK'
  BY <1>1, <1>15 DEF Order, CallsOK
<1>16. QED
  BY <1>2, <1>3, <1>4, <1>5, <1>6, <1>7, <1>8, <1>9, <1>10, <1>11, <1>12, <1>13, <1>14, <1>15
  DEF Next, Call

\* What the calls read stays behind the chain.
LEMMA ReadsStep ==
    ASSUME TypeOK, [Next]_vars
    PROVE  ReadsOK'
<1>1. CallsOK /\ ReadsOK /\ Newest \in Nat /\ Newest <= Newest' /\ Newest' \in Nat
  <2>1. Newest \in Nat /\ Newest <= Newest' /\ ChainOK'
    BY CurrentIsConfig, ChainKeeps DEF TypeOK
  <2>2. Newest' \in Nat
    BY <2>1 DEF ChainOK, Newest
  <2>3. QED BY <2>1, <2>2 DEF TypeOK
<1>2. ASSUME NEW u \in Updates
      PROVE  \/ lastIndex'[u] = lastIndex[u] /\ seenAt'[u] = seenAt[u]
             \/ lastIndex'[u] = Block(Newest).index /\ seenAt'[u] = Newest
  BY <1>1 DEF Next, vars, reading, orderer, CallsOK, Call, SetAnchorPeers, ReadNewest, ReadConfig,
              Skip, ComputeUpdate, GetLastBlock, Submit, BlockCame, Check, RequestFails, Throws, ReadGoesSilent, WaitGoesSilent,
              OrdererAnswers, Order, OtherBlock
<1>3. ASSUME NEW u \in Updates
      PROVE  before'[u] = before[u] \/ before'[u] = Newest
  BY <1>1 DEF Next, vars, reading, orderer, CallsOK, Call, SetAnchorPeers, ReadNewest, ReadConfig,
              Skip, ComputeUpdate, GetLastBlock, Submit, BlockCame, Check, RequestFails, Throws, ReadGoesSilent, WaitGoesSilent,
              OrdererAnswers, Order, OtherBlock
<1>4. Block(Newest).index \in Nat /\ Block(Newest).index <= Newest
  BY CurrentIsConfig DEF TypeOK
<1>5. ASSUME NEW u \in Updates
      PROVE  lastIndex'[u] <= seenAt'[u] /\ seenAt'[u] <= Newest' /\ before'[u] <= Newest'
  <2>1. lastIndex[u] \in Nat /\ seenAt[u] \in Nat /\ before[u] \in Nat
    BY <1>1 DEF CallsOK
  <2>2. lastIndex[u] <= seenAt[u] /\ seenAt[u] <= Newest /\ before[u] <= Newest
    BY <1>1 DEF ReadsOK
  <2>3. QED BY <1>1, <1>2, <1>3, <1>4, <2>1, <2>2
<1>6. QED BY <1>5 DEF ReadsOK

\* What a step does to a call that is reading.
LEMMA ReadingStep ==
    ASSUME TypeOK, [Next]_vars, NEW u \in Updates
    PROVE  /\ pc'[u] \in {"config", "configAgain"} =>
                 \/ lastIndex'[u] = Block(Newest).index /\ seenAt'[u] = Newest
                 \/ pc[u] = pc'[u] /\ lastIndex'[u] = lastIndex[u] /\ seenAt'[u] = seenAt[u]
           /\ pc'[u] \in {"compute", "check"} =>
                 \/ /\ pc[u] \in {"config", "configAgain"} /\ seenAt'[u] = seenAt[u]
                    /\ config'[u] = Block(lastIndex[u]).config
                 \/ pc[u] = pc'[u] /\ config'[u] = config[u] /\ seenAt'[u] = seenAt[u]
<1> USE DEF Goto, Return, reading, orderer
<1>1. CallsOK
  BY DEF TypeOK
<1>2. CASE UNCHANGED vars \/ OtherBlock
  BY <1>2 DEF vars, OtherBlock
<1>3. ASSUME NEW v \in Updates, SetAnchorPeers(v) \/ ReadNewest(v)
      PROVE  /\ pc'[u] \in {"config", "configAgain"} =>
                   \/ lastIndex'[u] = Block(Newest).index /\ seenAt'[u] = Newest
                   \/ pc[u] = pc'[u] /\ lastIndex'[u] = lastIndex[u] /\ seenAt'[u] = seenAt[u]
             /\ pc'[u] \in {"compute", "check"} =>
                   pc[u] = pc'[u] /\ config'[u] = config[u] /\ seenAt'[u] = seenAt[u]
  BY <1>1, <1>3 DEF SetAnchorPeers, ReadNewest, CallsOK
<1>4. ASSUME NEW v \in Updates, ReadConfig(v)
      PROVE  /\ pc'[u] \in {"config", "configAgain"} =>
                   pc[u] = pc'[u] /\ lastIndex'[u] = lastIndex[u] /\ seenAt'[u] = seenAt[u]
             /\ pc'[u] \in {"compute", "check"} =>
                   \/ /\ pc[u] \in {"config", "configAgain"} /\ seenAt'[u] = seenAt[u]
                      /\ config'[u] = Block(lastIndex[u]).config
                   \/ pc[u] = pc'[u] /\ config'[u] = config[u] /\ seenAt'[u] = seenAt[u]
  BY <1>1, <1>4 DEF ReadConfig, CallsOK
<1>5. ASSUME NEW v \in Updates,
             \/ Skip(v) \/ ComputeUpdate(v) \/ GetLastBlock(v) \/ Submit(v) \/ BlockCame(v)
             \/ Check(v) \/ RequestFails(v) \/ Throws(v) \/ ReadGoesSilent(v) \/ WaitGoesSilent(v) \/ OrdererAnswers(v) \/ Order(v)
      PROVE  pc'[u] \in {"config", "configAgain", "compute", "check"} =>
                 /\ pc[u] = pc'[u] /\ config'[u] = config[u]
                 /\ lastIndex'[u] = lastIndex[u] /\ seenAt'[u] = seenAt[u]
  BY <1>1, <1>5 DEF Skip, ComputeUpdate, GetLastBlock, Submit, BlockCame, Check, RequestFails, Throws, ReadGoesSilent, WaitGoesSilent,
                    OrdererAnswers, Answered, Order, CallsOK
<1>6. QED BY <1>2, <1>3, <1>4, <1>5 DEF Next, Call

\* The blocks a call has seen are the same after a step.
LEMMA SeenStays ==
    ASSUME TypeOK, [Next]_vars, NEW n \in 0..Newest
    PROVE  /\ Block(n)' = Block(n)
           /\ Block(Block(n).index)' = Block(Block(n).index)
<1>1. Newest \in Nat /\ Len(chain) = Newest + 1
  BY CurrentIsConfig DEF TypeOK
<1>2. \A i \in 1..Len(chain) : chain'[i] = chain[i]
  BY ChainKeeps
<1>3. n + 1 \in 1..Len(chain)
  BY <1>1
<1>4. chain[n + 1].index < n + 1 /\ chain[n + 1].index \in Nat
  <2>1. chain[n + 1] \in Blocks
    BY <1>3, ElementOfSeq DEF TypeOK, ChainOK
  <2>2. QED BY <1>3, <2>1 DEF TypeOK, ChainOK, Blocks
<1>5. chain[n + 1].index + 1 \in 1..Len(chain)
  BY <1>1, <1>4
<1>6. chain'[n + 1] = chain[n + 1]
  BY <1>2, <1>3
<1>7. QED BY <1>2, <1>5, <1>6 DEF Block

LEMMA SnapshotStep ==
    ASSUME Inv, [Next]_vars
    PROVE  IndexRead' /\ SnapshotRead'
<1>1. TypeOK /\ Newest \in Nat
  BY CurrentIsConfig DEF Inv, TypeOK
<1>2. ASSUME NEW u \in Updates
      PROVE  seenAt[u] \in 0..Newest
  BY <1>1 DEF TypeOK, CallsOK, ReadsOK
<1>3. ASSUME NEW u \in Updates, pc'[u] \in {"config", "configAgain"}
      PROVE  lastIndex'[u] = Block(seenAt[u])'.index
  <2>1. CASE lastIndex'[u] = Block(Newest).index /\ seenAt'[u] = Newest
    BY <1>1, <2>1, SeenStays DEF Block
  <2>2. CASE pc[u] = pc'[u] /\ lastIndex'[u] = lastIndex[u] /\ seenAt'[u] = seenAt[u]
    <3>1. lastIndex[u] = Block(seenAt[u]).index
      BY <1>3, <2>2 DEF Inv, IndexRead
    <3>2. chain'[seenAt[u] + 1] = chain[seenAt[u] + 1]
      BY <1>1, <1>2, SeenStays DEF Block
    <3>3. QED BY <2>2, <3>1, <3>2 DEF Block
  <2>3. QED BY <1>1, <1>3, <2>1, <2>2, ReadingStep
<1>4. ASSUME NEW u \in Updates, pc'[u] \in {"compute", "check"}
      PROVE  config'[u] = Block(Block(seenAt[u]).index)'.config
  <2>1. seenAt'[u] = seenAt[u] /\ config'[u] = Block(Block(seenAt[u]).index).config
    <3>1. CASE /\ pc[u] \in {"config", "configAgain"} /\ seenAt'[u] = seenAt[u]
               /\ config'[u] = Block(lastIndex[u]).config
      BY <3>1 DEF Inv, IndexRead
    <3>2. CASE pc[u] = pc'[u] /\ config'[u] = config[u] /\ seenAt'[u] = seenAt[u]
      BY <1>4, <3>2 DEF Inv, SnapshotRead
    <3>3. QED BY <1>1, <1>4, <3>1, <3>2, ReadingStep
  <2>2. /\ chain'[seenAt[u] + 1] = chain[seenAt[u] + 1]
        /\ chain'[chain[seenAt[u] + 1].index + 1] = chain[chain[seenAt[u] + 1].index + 1]
    <3>1. chain'[seenAt[u] + 1] = chain[seenAt[u] + 1]
      BY <1>1, <1>2, SeenStays DEF Block
    <3>2. chain'[chain'[seenAt[u] + 1].index + 1] = chain[chain[seenAt[u] + 1].index + 1]
      BY <1>1, <1>2, SeenStays DEF Block
    <3>3. QED BY <3>1, <3>2
  <2>3. QED BY <2>1, <2>2 DEF Block
<1>5. QED BY <1>3, <1>4 DEF IndexRead, SnapshotRead

LEMMA Invariant == Spec => []Inv
<1>1. Init => Inv
  <2> SUFFICES ASSUME Init PROVE Inv
    OBVIOUS
  <2> DEFINE genesis == [by |-> NoOne, config |-> Genesis, index |-> 0]
  <2>1. Genesis \in Configs
    BY DEF Genesis, Configs, Values, Anchors
  <2>2. genesis \in Blocks /\ genesis.index = 0 /\ genesis.config = Genesis
    BY <2>1 DEF Blocks
  <2>3. chain = <<genesis>>
    BY Zenon DEF Init
  <2> HIDE DEF genesis
  <2>4. chain \in Seq(Blocks) /\ Len(chain) = 1 /\ chain[1] = genesis
    BY <2>2, <2>3
  <2>5. ConfigAt(0)
    BY <2>1, <2>2, <2>4 DEF ConfigAt
  <2>6. ChainOK
    BY <2>2, <2>4, <2>5 DEF ChainOK
  <2>7. NoUpdate \in Values
    BY DEF NoUpdate, Values, Anchors
  <2>8. CallsOK
    BY <2>7 DEF Init, CallsOK, PCs
  <2>9. ReadsOK
    BY <2>4 DEF Init, ReadsOK, Newest
  <2>10. IndexRead /\ SnapshotRead
    BY DEF Init, IndexRead, SnapshotRead
  <2>11. QED BY <2>6, <2>8, <2>9, <2>10 DEF Inv, TypeOK
<1>2. Inv /\ [Next]_vars => Inv'
  BY ChainKeeps, CallsStep, ReadsStep, SnapshotStep DEF Inv, TypeOK
<1>3. QED BY <1>1, <1>2, PTL DEF Spec
-----------------------------------------------------------------------------
\* Chain, requests and what each call holds keep their shape: above all, every
\* block points at a configuration block.
THEOREM TypeCorrect == Spec => []TypeOK
BY Invariant, PTL DEF Inv

\* The configuration a call reads in two requests is the one of the newest
\* block it saw, whatever the orderer orders between the two.
THEOREM SnapshotIsRead == Spec => []SnapshotRead
BY Invariant, PTL DEF Inv
-----------------------------------------------------------------------------
\* Anchor peers a call has read are in force at the block it read.
LEMMA ReadInForce ==
    ASSUME Inv, NEW u \in Updates, pc[u] \in {"compute", "check"},
           config[u][OrgOf[u]].anchors = Wanted[u]
    PROVE  InForce(u)
<1>1. Newest \in Nat /\ Len(chain) = Newest + 1
  BY CurrentIsConfig DEF Inv, TypeOK
<1>2. seenAt[u] + 1 \in 1..Len(chain)
  BY <1>1 DEF Inv, TypeOK, CallsOK, ReadsOK
<1> DEFINE n == chain[seenAt[u] + 1].index
<1>3. n < seenAt[u] + 1 /\ ConfigAt(n) /\ n \in Nat
  <2>1. chain[seenAt[u] + 1] \in Blocks
    BY <1>2, ElementOfSeq DEF Inv, TypeOK, ChainOK
  <2>2. QED BY <1>2, <2>1 DEF Inv, TypeOK, ChainOK, Blocks
<1>4. n + 1 \in 1..Len(chain)
  BY <1>1, <1>2, <1>3
<1>5. config[u] = chain[n + 1].config /\ chain[n + 1].index = n
  BY <1>3 DEF Inv, SnapshotRead, Block, ConfigAt
<1>6. QED BY <1>3, <1>4, <1>5 DEF InForce

\* The configurations of the past stay in the chain.
LEMMA InForceStays ==
    ASSUME TypeOK, [Next]_vars, NEW u \in Updates, InForce(u)
    PROVE  InForce(u)'
<1>1. ChainOK' /\ Newest <= Newest' /\ Newest \in Nat /\ Len(chain) = Newest + 1
  BY ChainKeeps, CurrentIsConfig DEF TypeOK
<1>2. Len(chain) \in Nat /\ Len(chain') \in Nat /\ Len(chain) <= Len(chain')
  BY <1>1 DEF ChainOK, Newest
<1>3. \A i \in 1..Len(chain) : chain'[i] = chain[i]
  BY ChainKeeps
<1>4. \A i \in 1..Len(chain) : i \in 1..Len(chain')
  BY <1>2
<1>5. PICK i \in 1..Len(chain) :
          chain[i].index = i - 1 /\ chain[i].config[OrgOf[u]].anchors = Wanted[u]
  BY DEF InForce
<1>6. i \in 1..Len(chain') /\ chain'[i] = chain[i]
  BY <1>3, <1>4
<1>7. QED BY <1>5, <1>6 DEF InForce

\* Only a call that has just read its anchor peers returns so.
LEMMA AnswerStep ==
    ASSUME TypeOK, [Next]_vars, NEW u \in Updates, answer'[u] \in {"final", "unchanged"}
    PROVE  \/ answer[u] = answer'[u]
           \/ pc[u] \in {"compute", "check"} /\ config[u][OrgOf[u]].anchors = Wanted[u]
<1> USE DEF Return, Goto, reading, orderer
<1>1. CallsOK
  BY DEF TypeOK
<1>2. CASE UNCHANGED vars \/ OtherBlock
  BY <1>2 DEF vars, OtherBlock
<1>3. ASSUME NEW v \in Updates,
             \/ SetAnchorPeers(v) \/ ReadNewest(v) \/ ReadConfig(v) \/ ComputeUpdate(v)
             \/ GetLastBlock(v) \/ Submit(v) \/ BlockCame(v) \/ Order(v)
      PROVE  answer' = answer
  BY <1>3 DEF SetAnchorPeers, ReadNewest, ReadConfig, ComputeUpdate, GetLastBlock, Submit,
              BlockCame, Order
<1>4. ASSUME NEW v \in Updates, RequestFails(v) \/ Throws(v) \/ ReadGoesSilent(v) \/ WaitGoesSilent(v) \/ OrdererAnswers(v)
      PROVE  answer[u] = answer'[u]
  BY <1>1, <1>4 DEF RequestFails, Throws, ReadGoesSilent, WaitGoesSilent, OrdererAnswers, Answered, CallsOK
<1>5. ASSUME NEW v \in Updates, Skip(v) \/ Check(v)
      PROVE  \/ answer[u] = answer'[u]
             \/ pc[u] \in {"compute", "check"} /\ config[u][OrgOf[u]].anchors = Wanted[u]
  BY <1>1, <1>5 DEF Skip, Check, CallsOK
<1>6. QED BY <1>2, <1>3, <1>4, <1>5 DEF Next, Call

\* A call that returned normally with finality, or that found nothing to do,
\* has its anchor peers in a configuration of the channel.
THEOREM ReturnIsSet == Spec => []ReturnMeansSet
<1>1. Init => ReturnMeansSet
  BY DEF Init, ReturnMeansSet
<1>2. Inv /\ ReturnMeansSet /\ [Next]_vars => ReturnMeansSet'
  <2> SUFFICES ASSUME Inv, ReturnMeansSet, [Next]_vars,
                      NEW u \in Updates, answer'[u] \in {"final", "unchanged"}
               PROVE  InForce(u)'
    BY DEF ReturnMeansSet
  <2>1. TypeOK
    BY DEF Inv
  <2>2. InForce(u)
    BY <2>1, AnswerStep, ReadInForce DEF ReturnMeansSet
  <2>3. QED BY <2>1, <2>2, InForceStays
<1>3. QED BY <1>1, <1>2, Invariant, PTL DEF Spec
-----------------------------------------------------------------------------
\* The anchor peers in force at a block, of a call's organisation.
AnchorsAt(j, u) == Block(chain[j].index).config[OrgOf[u]].anchors

\* Between two blocks somebody set them to others.
Changed(u, i, j) == \E k \in (i + 1)..j : ChangesFor(u, k - 1)

\* From its own block on, a call's anchor peers are in force unless somebody
\* changed them since.
OwnHolds(u) ==
    \A i, j \in 1..Len(chain) :
        chain[i].by = u /\ i <= j => AnchorsAt(j, u) = Wanted[u] \/ Changed(u, i, j)

\* What is submitted sets what is wanted.
SubmitsWanted(u) ==
    pc[u] \in {"last", "submit"} \/ u \in broadcast \cup accepted => update[u].anchors = Wanted[u]

\* A call with finality reads again what is newer than the block before.
ReadsAfter(u) ==
    /\ pc[u] = "newestAgain" => before[u] < Newest
    /\ pc[u] \in {"configAgain", "check"} => before[u] < seenAt[u]
    /\ answer[u] # "none" => pc[u] = "done"

OwnInv == Inv /\ \A u \in Updates : SubmitsWanted(u) /\ ReadsAfter(u) /\ OwnHolds(u)

\* What a step does to a call's update, and to where it has got to.
LEMMA SubmitsStep ==
    ASSUME Inv, [Next]_vars, NEW u \in Updates, SubmitsWanted(u)
    PROVE  SubmitsWanted(u)'
<1> USE DEF Goto, Return, reading, orderer
<1>1. CallsOK
  BY DEF Inv, TypeOK
<1>2. CASE UNCHANGED vars \/ OtherBlock
  BY <1>2 DEF vars, OtherBlock, SubmitsWanted
<1>3. ASSUME NEW v \in Updates, ComputeUpdate(v) PROVE SubmitsWanted(u)'
  <2> DEFINE value == [anchors |-> Wanted[v], version |-> config[v][OrgOf[v]].version + 1]
  <2>1. update' = [update EXCEPT ![v] = value] /\ value.anchors = Wanted[v]
    BY <1>3 DEF ComputeUpdate
  <2> HIDE DEF value
  <2>2. (u # v => update'[u] = update[u]) /\ (u = v => update'[u] = value)
    BY <1>1, <2>1 DEF CallsOK
  <2>3. CASE u = v
    BY <2>1, <2>2, <2>3 DEF SubmitsWanted
  <2>4. CASE u # v
    BY <1>1, <1>3, <2>2, <2>4 DEF ComputeUpdate, SubmitsWanted, CallsOK
  <2>5. QED BY <1>1, <2>1, <2>3, <2>4 DEF CallsOK
<1>4. ASSUME NEW v \in Updates,
             \/ SetAnchorPeers(v) \/ ReadNewest(v) \/ ReadConfig(v) \/ Skip(v) \/ GetLastBlock(v)
             \/ Submit(v) \/ BlockCame(v) \/ Check(v) \/ RequestFails(v) \/ Throws(v) \/ ReadGoesSilent(v) \/ WaitGoesSilent(v)
      PROVE  SubmitsWanted(u)'
  BY <1>1, <1>4 DEF SetAnchorPeers, ReadNewest, ReadConfig, Skip, GetLastBlock, Submit, BlockCame,
                    Check, RequestFails, Throws, ReadGoesSilent, WaitGoesSilent, CallsOK, SubmitsWanted
<1>5. ASSUME NEW v \in Updates, OrdererAnswers(v) \/ Order(v)
      PROVE  SubmitsWanted(u)'
  BY <1>1, <1>5 DEF OrdererAnswers, Answered, Order, CallsOK, SubmitsWanted
<1>6. QED BY <1>2, <1>3, <1>4, <1>5 DEF Next, Call

LEMMA ReadsAfterStep ==
    ASSUME Inv, [Next]_vars, NEW u \in Updates, ReadsAfter(u)
    PROVE  ReadsAfter(u)'
<1> USE DEF Goto, Return, reading, orderer
<1>1. CallsOK /\ Newest \in Nat /\ Newest' \in Nat /\ Newest <= Newest' /\ before[u] \in Nat
  <2>1. CallsOK /\ Newest \in Nat /\ Newest <= Newest' /\ ChainOK'
    BY CurrentIsConfig, ChainKeeps DEF Inv, TypeOK
  <2>2. Newest' \in Nat
    BY <2>1 DEF ChainOK, Newest
  <2>3. QED BY <2>1, <2>2 DEF CallsOK
<1>2. CASE UNCHANGED vars \/ OtherBlock
  BY <1>1, <1>2 DEF vars, OtherBlock, ReadsAfter
<1>3. ASSUME NEW v \in Updates, SetAnchorPeers(v) \/ ReadNewest(v) \/ ReadConfig(v)
      PROVE  ReadsAfter(u)'
  BY <1>1, <1>3 DEF SetAnchorPeers, ReadNewest, ReadConfig, CallsOK, ReadsAfter
<1>4. ASSUME NEW v \in Updates, BlockCame(v)
      PROVE  ReadsAfter(u)'
  BY <1>1, <1>4 DEF BlockCame, CallsOK, ReadsAfter
<1>5. ASSUME NEW v \in Updates,
             \/ Skip(v) \/ ComputeUpdate(v) \/ GetLastBlock(v) \/ Submit(v) \/ Check(v)
             \/ RequestFails(v) \/ Throws(v) \/ ReadGoesSilent(v) \/ WaitGoesSilent(v) \/ OrdererAnswers(v) \/ Order(v)
      PROVE  ReadsAfter(u)'
  BY <1>1, <1>5 DEF Skip, ComputeUpdate, GetLastBlock, Submit, Check, RequestFails, Throws, ReadGoesSilent, WaitGoesSilent,
                    OrdererAnswers, Answered, Order, CallsOK, ReadsAfter
<1>6. QED BY <1>2, <1>3, <1>4, <1>5 DEF Next, Call

LEMMA ChangedStays ==
    ASSUME TypeOK, [Next]_vars, NEW u \in Updates, NEW i \in 1..Len(chain),
           NEW j \in 1..Len(chain), Changed(u, i, j)
    PROVE  Changed(u, i, j)'
<1>1. Newest \in Nat /\ Len(chain) = Newest + 1
  BY CurrentIsConfig DEF TypeOK
<1>2. PICK k \in (i + 1)..j : ChangesFor(u, k - 1)
  BY DEF Changed
<1>3. (k - 1) + 1 \in 1..Len(chain)
  BY <1>1
<1>4. chain'[(k - 1) + 1] = chain[(k - 1) + 1]
  BY <1>3, ChainKeeps
<1>5. ChangesFor(u, k - 1)'
  BY <1>2, <1>4 DEF ChangesFor, Block
<1>6. QED BY <1>5 DEF Changed

\* The anchor peers at a block of the chain stay those they were.
LEMMA AnchorsStay ==
    ASSUME TypeOK, [Next]_vars, NEW u \in Updates, NEW j \in 1..Len(chain)
    PROVE  chain'[chain'[j].index + 1].config[OrgOf[u]].anchors = AnchorsAt(j, u)
<1>1. Newest \in Nat /\ Len(chain) = Newest + 1
  BY CurrentIsConfig DEF TypeOK
<1>2. j - 1 \in 0..Newest /\ (j - 1) + 1 = j
  BY <1>1
<1>3. chain'[chain'[(j - 1) + 1].index + 1] = chain[chain[(j - 1) + 1].index + 1]
  BY <1>2, SeenStays DEF Block
<1>4. QED BY <1>2, <1>3 DEF AnchorsAt, Block

\* What the newest block does to a call: it is an update for its organisation
\* with what that one wants, or leaves the organisation's anchor peers.
LEMMA NewestAnchors ==
    ASSUME Inv, NEW u \in Updates, \A v \in Updates : SubmitsWanted(v), NEW block \in Blocks,
           chain' = Append(chain, block), Follows(block), NEW n \in Nat, n = Len(chain) + 1
    PROVE  \/ /\ block.by \in Updates /\ OrgOf[block.by] = OrgOf[u]
              /\ chain'[chain'[n].index + 1].config[OrgOf[u]].anchors = Wanted[block.by]
           \/ /\ block.by # u
              /\ chain'[chain'[n].index + 1].config[OrgOf[u]].anchors = AnchorsAt(Len(chain), u)
<1> DEFINE at == chain'[chain'[n].index + 1].config[OrgOf[u]].anchors
<1>1. /\ ChainOK /\ Newest \in Nat /\ Len(chain) = Newest + 1 /\ Current \in Configs
      /\ Block(Newest).index \in 0..Newest
  BY CurrentIsConfig DEF Inv, TypeOK
<1>2. chain'[n] = block /\ \A i \in 1..Len(chain) : chain'[i] = chain[i]
  BY <1>1, AppendBlock
<1>3. AnchorsAt(Len(chain), u) = Current[OrgOf[u]].anchors
  <2>1. Block(Newest) = chain[Len(chain)]
    BY <1>1 DEF Block
  <2>2. QED BY <2>1 DEF AnchorsAt, Current
<1>4. CASE block.by = NoOne /\ block.index = Block(Newest).index
  <2>1. block.index + 1 \in 1..Len(chain)
    BY <1>1, <1>4
  <2>2. chain'[block.index + 1] = Block(Block(Newest).index)
    BY <1>2, <1>4, <2>1 DEF Block
  <2>3. at = AnchorsAt(Len(chain), u)
    BY <1>2, <1>3, <2>2 DEF Current
  <2>4. block.by # u
    BY <1>4, ChannelConfigAssumption
  <2>5. QED BY <2>3, <2>4
<1>5. CASE /\ block.by \in accepted /\ block.index = Newest + 1 /\ block.config \in Configs
           /\ block.config = [Current EXCEPT ![OrgOf[block.by]] = update[block.by]]
  <2>1. at = block.config[OrgOf[u]].anchors
    BY <1>1, <1>2, <1>5
  <2>2. block.by \in Updates /\ OrgOf[u] \in Orgs /\ Current \in [Orgs -> Values]
    BY <1>1, <1>5, ChannelConfigAssumption DEF Inv, TypeOK, CallsOK, Configs
  <2>3. CASE OrgOf[block.by] = OrgOf[u]
    <3>1. block.config[OrgOf[u]] = update[block.by]
      BY <1>5, <2>2, <2>3
    <3>2. update[block.by].anchors = Wanted[block.by]
      BY <1>5, <2>2 DEF SubmitsWanted
    <3>3. QED BY <2>1, <2>2, <2>3, <3>1, <3>2
  <2>4. CASE OrgOf[block.by] # OrgOf[u]
    <3>1. block.config[OrgOf[u]] = Current[OrgOf[u]]
      BY <1>5, <2>2, <2>4
    <3>2. QED BY <1>3, <2>1, <2>4, <3>1
  <2>5. QED BY <2>3, <2>4
<1>6. QED BY <1>4, <1>5 DEF Follows

LEMMA OwnHoldsStep ==
    ASSUME Inv, [Next]_vars, NEW u \in Updates, \A v \in Updates : SubmitsWanted(v), OwnHolds(u)
    PROVE  OwnHolds(u)'
<1>1. TypeOK /\ Newest \in Nat /\ Len(chain) = Newest + 1
  BY CurrentIsConfig DEF Inv, TypeOK
<1>2. CASE chain' = chain
  BY <1>2 DEF OwnHolds, Changed, ChangesFor, AnchorsAt, Block
<1>3. ASSUME NEW block \in Blocks, chain' = Append(chain, block), Follows(block)
      PROVE  OwnHolds(u)'
  <2>1. PICK n \in Nat : n = Len(chain) + 1
    BY <1>1
  <2>2. /\ chain'[n] = block /\ Len(chain') = n
        /\ \A i \in 1..Len(chain) : chain'[i] = chain[i]
    BY <1>1, <1>3, <2>1, AppendBlock DEF TypeOK
  <2> DEFINE at(j) == chain'[chain'[j].index + 1].config[OrgOf[u]].anchors
  <2>3. \/ block.by \in Updates /\ OrgOf[block.by] = OrgOf[u] /\ at(n) = Wanted[block.by]
        \/ block.by # u /\ at(n) = AnchorsAt(Len(chain), u)
    <3>1. Inv /\ n = Len(chain) + 1 /\ chain' = Append(chain, block) /\ Follows(block)
      BY <1>3, <2>1
    <3>2. QED BY <3>1, NewestAnchors
  <2>4. ASSUME NEW i \in 1..Len(chain), NEW j \in 1..Len(chain), chain'[i].by = u, i <= j
        PROVE  at(j) = Wanted[u] \/ Changed(u, i, j)'
    <3>1. AnchorsAt(j, u) = Wanted[u] \/ Changed(u, i, j)
      BY <2>2, <2>4 DEF OwnHolds
    <3>2. at(j) = AnchorsAt(j, u)
      BY <1>1, AnchorsStay
    <3>3. QED BY <1>1, <3>1, <3>2, ChangedStays
  <2>5. ASSUME NEW i \in 1..n, chain'[i].by = u
        PROVE  at(n) = Wanted[u] \/ Changed(u, i, n)'
    <3>1. CASE block.by = u
      BY <2>3, <3>1
    <3>2. CASE /\ block.by \in Updates \ {u} /\ OrgOf[block.by] = OrgOf[u]
               /\ at(n) = Wanted[block.by]
      <4>1. CASE Wanted[block.by] = Wanted[u]
        BY <3>2, <4>1
      <4>2. CASE Wanted[block.by] # Wanted[u]
        <5>1. i # n
          BY <2>2, <2>5, <3>2
        <5>2. n \in (i + 1)..n /\ (n - 1) + 1 = n
          BY <5>1
        <5>3. ChangesFor(u, n - 1)'
          BY <2>2, <3>2, <4>2, <5>2 DEF ChangesFor, Block
        <5>4. QED BY <5>2, <5>3 DEF Changed
      <4>3. QED BY <4>1, <4>2
    <3>3. CASE block.by # u /\ at(n) = AnchorsAt(Len(chain), u)
      <4>1. i # n
        BY <2>2, <2>5, <3>3
      <4>2. PICK m \in Nat : m = Len(chain)
        BY <1>1
      <4>3. i \in 1..Len(chain) /\ m \in 1..Len(chain) /\ i <= m /\ n = m + 1
        BY <1>1, <2>1, <4>1, <4>2
      <4>4. at(m) = Wanted[u] \/ Changed(u, i, m)'
        BY <2>4, <2>5, <4>3
      <4>5. at(n) = at(m)
        BY <1>1, <3>3, <4>2, <4>3, AnchorsStay
      <4>6. (i + 1)..m \subseteq (i + 1)..n
        BY <4>3
      <4>7. Changed(u, i, m)' => Changed(u, i, n)'
        BY <4>6 DEF Changed
      <4>8. QED BY <4>4, <4>5, <4>7
    <3>4. QED BY <2>3, <3>1, <3>2, <3>3
  <2>6. ASSUME NEW i \in 1..n, NEW j \in 1..n, chain'[i].by = u, i <= j
        PROVE  at(j) = Wanted[u] \/ Changed(u, i, j)'
    <3>1. CASE j = n
      BY <2>5, <2>6, <3>1
    <3>2. CASE j # n
      <4>1. i \in 1..Len(chain) /\ j \in 1..Len(chain)
        BY <1>1, <2>1, <2>6, <3>2
      <4>2. QED BY <2>4, <2>6, <4>1
    <3>3. QED BY <3>1, <3>2
  <2>7. QED BY <2>2, <2>6 DEF OwnHolds, AnchorsAt, Block
<1>4. QED BY <1>1, <1>2, <1>3, ChainStep

LEMMA OwnInvariant == Spec => []OwnInv
<1>1. Inv /\ Init => OwnInv
  <2> SUFFICES ASSUME Inv, Init, NEW u \in Updates
               PROVE  SubmitsWanted(u) /\ ReadsAfter(u) /\ OwnHolds(u)
    BY DEF OwnInv
  <2>1. SubmitsWanted(u) /\ ReadsAfter(u)
    BY DEF Init, SubmitsWanted, ReadsAfter
  <2>2. Len(chain) = 1 /\ chain[1].by # u
    BY ChannelConfigAssumption DEF Init
  <2>3. OwnHolds(u)
    BY <2>2 DEF OwnHolds
  <2>4. QED BY <2>1, <2>3
<1>2. Inv' /\ OwnInv /\ [Next]_vars => OwnInv'
  BY SubmitsStep, ReadsAfterStep, OwnHoldsStep DEF OwnInv
<1>3. QED BY <1>1, <1>2, Invariant, PTL DEF Spec

Overtaken(u) ==
    /\ before[u] < seenAt[u]
    /\ \/ Block(before[u] + 1).by # u
       \/ \E n \in (before[u] + 2)..seenAt[u] : ChangesFor(u, n)

\* A call that is about to find another's anchor peers was overtaken.
LEMMA CheckFinds ==
    ASSUME OwnInv, NEW u \in Updates, Check(u), config[u][OrgOf[u]].anchors # Wanted[u]
    PROVE  Overtaken(u)
<1>1. /\ Newest \in Nat /\ Len(chain) = Newest + 1 /\ seenAt[u] \in Nat /\ seenAt[u] <= Newest
      /\ before[u] \in Nat /\ before[u] < seenAt[u]
  BY CurrentIsConfig DEF OwnInv, Inv, TypeOK, CallsOK, ReadsOK, ReadsAfter, Check
<1>2. /\ before[u] + 2 \in 1..Len(chain) /\ seenAt[u] + 1 \in 1..Len(chain)
      /\ before[u] + 2 <= seenAt[u] + 1 /\ (before[u] + 1) + 1 = before[u] + 2
  BY <1>1
<1>3. AnchorsAt(seenAt[u] + 1, u) = config[u][OrgOf[u]].anchors
  BY DEF OwnInv, Inv, SnapshotRead, Check, AnchorsAt, Block
<1>4. chain[before[u] + 2].by # u \/ Changed(u, before[u] + 2, seenAt[u] + 1)
  BY <1>2, <1>3 DEF OwnInv, OwnHolds
<1>5. ASSUME Changed(u, before[u] + 2, seenAt[u] + 1)
      PROVE  \E n \in (before[u] + 2)..seenAt[u] : ChangesFor(u, n)
  <2>1. PICK k \in ((before[u] + 2) + 1)..(seenAt[u] + 1) : ChangesFor(u, k - 1)
    BY <1>5 DEF Changed
  <2>2. k - 1 \in (before[u] + 2)..seenAt[u]
    BY <1>1
  <2>3. QED BY <2>1, <2>2
<1>6. QED BY <1>1, <1>2, <1>4, <1>5 DEF Block, Overtaken

\* What a call that has its mismatch was told stays true.
LEMMA MismatchStep ==
    ASSUME OwnInv, MismatchIsOvertaken, [Next]_vars, NEW u \in Updates, answer'[u] = "mismatch"
    PROVE  Overtaken(u)
<1> USE DEF Return, Goto, reading, orderer
<1>1. CallsOK
  BY DEF OwnInv, Inv, TypeOK
<1>2. CASE answer[u] = "mismatch"
  BY <1>2 DEF MismatchIsOvertaken, Overtaken
<1>3. CASE answer[u] # "mismatch"
  <2>1. Check(u) /\ config[u][OrgOf[u]].anchors # Wanted[u]
    BY <1>1, <1>3 DEF Next, vars, Call, SetAnchorPeers, ReadNewest, ReadConfig, Skip, ComputeUpdate,
                      GetLastBlock, Submit, BlockCame, Check, RequestFails, Throws, ReadGoesSilent,
                      WaitGoesSilent, OrdererAnswers, Answered, Order, OtherBlock, CallsOK
  <2>2. QED BY <2>1, CheckFinds
<1>4. QED BY <1>2, <1>3

LEMMA BeforeStays ==
    ASSUME OwnInv, [Next]_vars, NEW u \in Updates, answer'[u] = "mismatch"
    PROVE  before'[u] = before[u] /\ seenAt'[u] = seenAt[u]
<1> USE DEF reading
<1>1. CallsOK /\ ReadsAfter(u)
  BY DEF OwnInv, Inv, TypeOK
<1>2. ASSUME NEW v \in Updates, GetLastBlock(v) \/ ReadNewest(v)
      PROVE  before'[u] = before[u] /\ seenAt'[u] = seenAt[u]
  BY <1>1, <1>2 DEF GetLastBlock, ReadNewest, Goto, CallsOK, ReadsAfter
<1>3. ASSUME ~\E v \in Updates : GetLastBlock(v) \/ ReadNewest(v)
      PROVE  before' = before /\ seenAt' = seenAt
  BY <1>3 DEF Next, vars, Call, SetAnchorPeers, ReadConfig, Skip, ComputeUpdate, Submit, BlockCame,
              Check, RequestFails, Throws, ReadGoesSilent, WaitGoesSilent, OrdererAnswers, Order,
              OtherBlock
<1>4. QED BY <1>2, <1>3

LEMMA OvertakenStays ==
    ASSUME TypeOK, [Next]_vars, NEW u \in Updates, Overtaken(u),
           before'[u] = before[u], seenAt'[u] = seenAt[u]
    PROVE  Overtaken(u)'
<1>1. /\ Newest \in Nat /\ Len(chain) = Newest + 1
      /\ before[u] \in Nat /\ seenAt[u] \in Nat /\ seenAt[u] <= Newest
      /\ before[u] < seenAt[u]
  BY CurrentIsConfig DEF TypeOK, CallsOK, ReadsOK, Overtaken
<1>2. ASSUME NEW n \in Nat, n <= seenAt[u]
      PROVE  chain'[n + 1] = chain[n + 1]
  BY <1>1, <1>2, ChainKeeps
<1>3. before[u] + 1 \in Nat /\ before[u] + 1 <= seenAt[u]
  BY <1>1
<1>4. CASE Block(before[u] + 1).by # u
  <2>1. chain'[(before[u] + 1) + 1].by # u
    BY <1>2, <1>3, <1>4 DEF Block
  <2>2. QED BY <1>1, <2>1 DEF Overtaken, Block
<1>5. ASSUME NEW n \in (before[u] + 2)..seenAt[u], ChangesFor(u, n)
      PROVE  Overtaken(u)'
  <2>1. chain'[n + 1] = chain[n + 1]
    BY <1>1, <1>2
  <2>2. ChangesFor(u, n)'
    BY <1>5, <2>1 DEF ChangesFor, Block
  <2>3. QED BY <1>1, <2>2 DEF Overtaken
<1>6. QED BY <1>4, <1>5 DEF Overtaken

\* The assertion after the wait of setAnchorPeers, that the configuration read
\* again has the anchor peers, fails only for a call that was overtaken: the one
\* block it waited for is not its own, or a later block it read past, of another
\* call, set the organisation's anchor peers to others.
THEOREM MismatchMeansOvertaken == Spec => []MismatchIsOvertaken
<1>1. Init => MismatchIsOvertaken
  BY DEF Init, MismatchIsOvertaken
<1>2. OwnInv /\ MismatchIsOvertaken /\ [Next]_vars => MismatchIsOvertaken'
  <2> SUFFICES ASSUME OwnInv, MismatchIsOvertaken, [Next]_vars, NEW u \in Updates, answer'[u] = "mismatch"
               PROVE  Overtaken(u)'
    BY DEF MismatchIsOvertaken, Overtaken
  <2>1. Overtaken(u)
    BY MismatchStep
  <2>2. QED BY <2>1, BeforeStays, OvertakenStays DEF OwnInv, Inv
<1>3. QED BY <1>1, <1>2, OwnInvariant, PTL DEF Spec
=============================================================================

-------------------------- MODULE TransactionProofs --------------------------
(***************************************************************************)
(* Proofs about Transaction, for every set of calls, objects, peers and    *)
(* transaction ids.                                                        *)
(***************************************************************************)
EXTENDS Transaction, SequenceTheorems, TLAPS

\* A block appended to the chain leaves a chain, one block longer.
LEMMA ChainGrows ==
    ASSUME TypeOK, NEW block \in Blocks, ledger' = Append(ledger, block)
    PROVE  /\ ledger' \in Seq(Blocks)
           /\ Len(ledger') = Len(ledger) + 1
           /\ \A i \in 1..Len(ledger) : ledger'[i] = ledger[i]
           /\ ledger'[Len(ledger) + 1] = block
BY AppendProperties DEF TypeOK

\* Every value keeps its shape.
THEOREM TypeCorrect == Spec => []TypeOK
<1>1. Init => TypeOK
  <2>1. [tx |-> OtherTx, valid |-> TRUE] \in Blocks
    BY DEF Blocks
  <2>2. Init => ledger \in Seq(Blocks) /\ Len(ledger) > 0
    BY <2>1 DEF Init
  <2>3. QED
    BY <2>2 DEF Init, TypeOK, PCs, Answers, Verdicts, MaybeTx, Endorsements, Proposals, Envelopes, Stages
<1>2. TypeOK /\ [Next]_vars => TypeOK'
  <2> SUFFICES ASSUME TypeOK, [Next]_vars PROVE TypeOK'
    OBVIOUS
  <2> USE TransactionAssumption DEF PCs, Answers, Verdicts, Streaming
  <2>1. CASE UNCHANGED vars
    BY <2>1 DEF vars, hub, TypeOK
  <2>2. CASE OtherBlock
    <3>1. [tx |-> OtherTx, valid |-> TRUE] \in Blocks
      BY DEF Blocks
    <3>2. QED BY <2>2, <3>1, ChainGrows DEF OtherBlock, hub, TypeOK
  <2>3. ASSUME NEW c \in Calls, CallStep(c) \/ NetworkStep(c) PROVE TypeOK'
    <3>1. CASE Send(c)
      BY <3>1 DEF Send, SendToEndorsers, MayCall, TypeOK, Proposals, MaybeTx, hub
    <3>2. CASE BuildForSigning(c)
      BY <3>2 DEF BuildForSigning, MayCall, TypeOK, Proposals, MaybeTx, hub
    <3>3. CASE SignAndSend(c)
      BY <3>3 DEF SignAndSend, SendToEndorsers, TypeOK, Proposals, MaybeTx, hub
    <3>4. CASE Judge(c)
      <4>1. proposal' \in [Objects -> Proposals]
        <5>1. PICK results \in ProposalResults(sent[c]) :
                proposal' = [proposal EXCEPT ![ObjectOf[c]].endorsed =
                                @ \cup {<<sent[c], e>> : e \in Endorsing(results)}]
          BY <3>4, Zenon DEF Judge
        <5>2. {<<sent[c], e>> : e \in Endorsing(results)} \in SUBSET Endorsements
          BY DEF TypeOK, Endorsing, Endorsements
        <5>3. QED BY <5>1, <5>2 DEF TypeOK, Proposals
      <4>2. pc' \in [Calls -> PCs] /\ answer' \in [Calls -> Answers]
        BY <3>4 DEF Judge, Return, TypeOK
      <4>3. QED BY <3>4, <4>1, <4>2 DEF Judge, TypeOK, hub
    <3>5. CASE Commit(c) \/ BuildCommit(c)
      <4>1. PICK stage \in Stages : Build(c, stage)
        BY <3>5 DEF Commit, BuildCommit, Stages
      <4>2. envelope' \in [Calls -> Envelopes]
        BY <4>1 DEF Build, TypeOK, Proposals, Envelopes
      <4>3. QED BY <3>5, <4>2 DEF Commit, BuildCommit, TypeOK, hub
    <3>6. CASE CommitAnswered(c)
      BY <3>6 DEF CommitAnswered, Return, TypeOK, hub
    <3>7. CASE CommitTimedOut(c) \/ SignFails(c)
      BY <3>7 DEF CommitTimedOut, SignFails, Return, TypeOK, hub
    <3>8. CASE WaitForTx(c)
      BY <3>8 DEF WaitForTx, TypeOK, Proposals
    <3>9. CASE ReceiveBlock(c)
      <4>1. next' \in [Calls -> Nat \ {0}]
        BY <3>9 DEF ReceiveBlock, TypeOK
      <4>2. pc' \in [Calls -> PCs] /\ verdict' \in [Calls -> Verdicts]
        BY <3>9 DEF ReceiveBlock, Settle, WaitVerdict, Notifies, TypeOK
      <4>3. QED BY <3>9, <4>1, <4>2 DEF ReceiveBlock, TypeOK
    <3>10. CASE StreamBroken(c)
      BY <3>10 DEF StreamBroken, Close, Settle, TypeOK
    <3>11. CASE Disconnect(c)
      BY <3>11 DEF Disconnect, Close, Return, TypeOK
    <3>12. CASE SeekNewest(c)
      BY <3>12 DEF SeekNewest, TypeOK
    <3>13. ASSUME SignCommit(c) \/ \E stage \in {"accepted", "refused"} : OrdererTakes(c, stage)
           PROVE  TypeOK'
      <4>1. PICK stage \in Stages : envelope' = [envelope EXCEPT ![c].stage = stage]
        BY <3>13 DEF SignCommit, OrdererTakes, Stages
      <4>3. envelope' \in [Calls -> Envelopes]
        BY <4>1 DEF TypeOK, Envelopes
      <4>2. QED BY <3>13, <4>3 DEF SignCommit, OrdererTakes, TypeOK, hub
    <3>14. CASE Order(c)
      <4>1. PICK valid \in BOOLEAN : ledger' = Append(ledger, [tx |-> envelope[c].tx, valid |-> valid])
        BY <3>14 DEF Order
      <4>2. [tx |-> envelope[c].tx, valid |-> valid] \in Blocks
        BY DEF TypeOK, Envelopes, Blocks
      <4>3. ledger' \in Seq(Blocks) /\ Len(ledger') > 0
        BY <4>1, <4>2, ChainGrows DEF TypeOK
      <4>4. envelope' \in [Calls -> Envelopes]
        BY <3>14 DEF Order, TypeOK, Envelopes, Stages
      <4>5. QED BY <3>14, <4>3, <4>4 DEF Order, TypeOK, hub
    <3>15. QED
      BY <2>3, <3>1, <3>2, <3>3, <3>4, <3>5, <3>6, <3>7, <3>8, <3>9, <3>10, <3>11,
         <3>12, <3>13, <3>14 DEF CallStep, NetworkStep
  <2>4. QED BY <2>1, <2>2, <2>3 DEF Next
<1>3. QED BY <1>1, <1>2, PTL DEF Spec
-----------------------------------------------------------------------------
\* Where a call is tells what it holds.
CallShape ==
    \A c \in Calls :
        /\ answer[c] # "none" => pc[c] = "done"
        /\ Streaming(c) => pc[c] \in {"waiting", "settled"}
        /\ verdict[c] # "none" => pc[c] \in {"settled", "done"}
        /\ pc[c] = "settled" => verdict[c] # "none"
        /\ answer[c] \in {"valid", "invalid"} => verdict[c] = answer[c]
        /\ pc[c] \in {"idle", "signing", "sent", "endorsed"} => envelope[c].stage = "none"
        /\ pc[c] = "commitSigning" => envelope[c].stage = "built"
        /\ pc[c] = "broadcast" => envelope[c].stage \notin {"none", "built"}

\* A verdict is what the ledger records of the awaited transaction.
VerdictIsReal ==
    \A c \in Calls :
        /\ verdict[c] = "valid" => Recorded(awaited[c], TRUE)
        /\ verdict[c] = "invalid" => Recorded(awaited[c], FALSE)

\* An eventer has one stream.
StreamsApart ==
    \A c, d \in Calls :
        c # d /\ Streaming(c) /\ Streaming(d)
           => EventerOf[ObjectOf[c]] # EventerOf[ObjectOf[d]]

FinalityInv == TypeOK /\ CallShape /\ VerdictIsReal /\ StreamsApart

\* The chain is only appended to, so what it records stays recorded.
LEMMA ChainStep ==
    ASSUME TypeOK, [Next]_vars
    PROVE  ledger' = ledger \/ \E block \in Blocks : ledger' = Append(ledger, block)
<1>1. CASE OtherBlock
  <2>1. [tx |-> OtherTx, valid |-> TRUE] \in Blocks
    BY DEF Blocks
  <2>2. QED BY <1>1, <2>1 DEF OtherBlock
<1>2. ASSUME NEW c \in Calls, Order(c)
      PROVE  \E block \in Blocks : ledger' = Append(ledger, block)
  <2>1. PICK valid \in BOOLEAN : ledger' = Append(ledger, [tx |-> envelope[c].tx, valid |-> valid])
    BY <1>2 DEF Order
  <2>2. [tx |-> envelope[c].tx, valid |-> valid] \in Blocks
    BY DEF TypeOK, Envelopes, Blocks
  <2>3. QED BY <2>1, <2>2
<1>3. ASSUME NEW c \in Calls, CallStep(c) PROVE ledger' = ledger
  BY <1>3 DEF CallStep, Send, SendToEndorsers, BuildForSigning, SignAndSend, SignFails, Judge, Commit,
     BuildCommit, SignCommit, CommitAnswered, CommitTimedOut, WaitForTx, ReceiveBlock, StreamBroken, Disconnect
<1>4. ASSUME NEW c \in Calls, NetworkStep(c), ~Order(c) PROVE ledger' = ledger
  BY <1>4 DEF NetworkStep, SeekNewest, OrdererTakes
<1>5. QED BY <1>1, <1>2, <1>3, <1>4 DEF Next, vars

LEMMA CallShapeStep == TypeOK /\ CallShape /\ [Next]_vars => CallShape'
<1> SUFFICES ASSUME TypeOK, CallShape, [Next]_vars PROVE CallShape'
  OBVIOUS
<1> USE DEF CallShape, TypeOK, Streaming, Answers, Verdicts
<1>1. CASE UNCHANGED vars
  BY <1>1 DEF vars, hub
<1>2. CASE OtherBlock
  BY <1>2 DEF OtherBlock, hub
<1>3. ASSUME NEW c \in Calls, CallStep(c) PROVE CallShape'
  <2>1. CASE Send(c)
    BY <2>1 DEF Send, SendToEndorsers, MayCall, hub
  <2>2. CASE BuildForSigning(c)
    BY <2>2 DEF BuildForSigning, MayCall, hub
  <2>3. CASE SignAndSend(c)
    BY <2>3 DEF SignAndSend, SendToEndorsers, hub
  <2>4. CASE Judge(c)
    BY <2>4 DEF Judge, Return, hub
  <2>5. CASE Commit(c) \/ BuildCommit(c) \/ SignCommit(c)
    BY <2>5 DEF Commit, BuildCommit, Build, SignCommit, Envelopes, hub
  <2>6. CASE CommitAnswered(c)
    <3>1. \/ \E a \in {"error", "sent"} : Return(c, a)
          \/ pc' = [pc EXCEPT ![c] = "committed"] /\ answer' = answer
      BY <2>6 DEF CommitAnswered
    <3>2. pc[c] = "broadcast" /\ UNCHANGED <<envelope, hub>>
      BY <2>6 DEF CommitAnswered
    <3>3. QED BY <3>1, <3>2 DEF Return, hub
  <2>7. CASE CommitTimedOut(c) \/ SignFails(c)
    BY <2>7 DEF CommitTimedOut, SignFails, Return, hub
  <2>8. CASE WaitForTx(c)
    BY <2>8 DEF WaitForTx
  <2>9. CASE ReceiveBlock(c)
    BY <2>9 DEF ReceiveBlock, Settle, WaitVerdict
  <2>10. CASE StreamBroken(c)
    BY <2>10 DEF StreamBroken, Close, Settle
  <2>11. CASE Disconnect(c)
    BY <2>11 DEF Disconnect, Close, Return
  <2>12. QED BY <1>3, <2>1, <2>2, <2>3, <2>4, <2>5, <2>6, <2>7, <2>8, <2>9, <2>10, <2>11 DEF CallStep
<1>4. ASSUME NEW c \in Calls, NetworkStep(c) PROVE CallShape'
  <2>1. CASE SeekNewest(c)
    BY <2>1 DEF SeekNewest
  <2>2. ASSUME Order(c) \/ \E stage \in {"accepted", "refused"} : OrdererTakes(c, stage)
        PROVE  CallShape'
    <3>1. PICK stage \in Stages \ {"none", "built"} :
            /\ envelope' = [envelope EXCEPT ![c].stage = stage]
            /\ envelope[c].stage \notin {"none", "built"}
      BY <2>2 DEF OrdererTakes, Order, Stages
    <3>2. \A d \in Calls : d # c => envelope'[d].stage = envelope[d].stage
      BY <3>1
    <3>3. envelope'[c].stage \notin {"none", "built"}
      BY <3>1 DEF Envelopes
    <3>4. UNCHANGED <<pc, answer, hub>>
      BY <2>2 DEF OrdererTakes, Order
    <3>5. QED BY <3>1, <3>2, <3>3, <3>4 DEF hub
  <2>3. QED BY <1>4, <2>1, <2>2 DEF NetworkStep
<1>5. QED BY <1>1, <1>2, <1>3, <1>4 DEF Next

\* Only a block settles a wait with "valid" or "invalid", and it is the block
\* of the awaited transaction.
LEMMA VerdictStep == TypeOK /\ CallShape /\ VerdictIsReal /\ [Next]_vars => VerdictIsReal'
<1> SUFFICES ASSUME TypeOK, CallShape, VerdictIsReal, [Next]_vars, NEW c \in Calls
             PROVE  /\ verdict'[c] = "valid" => Recorded(awaited[c], TRUE)'
                    /\ verdict'[c] = "invalid" => Recorded(awaited[c], FALSE)'
  BY DEF VerdictIsReal
<1>1. CASE awaited'[c] = awaited[c] /\ verdict'[c] = verdict[c]
  <2>1. \A v \in BOOLEAN : Recorded(awaited[c], v) => Recorded(awaited[c], v)'
    <3> SUFFICES ASSUME NEW v \in BOOLEAN, Recorded(awaited[c], v)
                 PROVE  \E i \in 1..Len(ledger') : ledger'[i].tx = awaited[c] /\ ledger'[i].valid = v
      BY <1>1 DEF Recorded
    <3>1. CASE ledger' = ledger
      BY <3>1 DEF Recorded
    <3>2. ASSUME NEW block \in Blocks, ledger' = Append(ledger, block)
          PROVE \E i \in 1..Len(ledger') : ledger'[i].tx = awaited[c] /\ ledger'[i].valid = v
      <4>1. Len(ledger) \in Nat
        BY DEF TypeOK
      <4>2. QED BY <3>2, <4>1, ChainGrows DEF Recorded
    <3>3. QED BY <3>1, <3>2, ChainStep
  <2>2. QED BY <1>1, <2>1 DEF VerdictIsReal
<1>2. ASSUME NEW d \in Calls, ReceiveBlock(d) PROVE verdict'[c] = verdict[c] \/ 
                 (/\ ledger' = ledger
                  /\ awaited' = awaited
                  /\ next[c] \in 1..Len(ledger)
                  /\ ledger[next[c]].tx = awaited[c]
                  /\ verdict'[c] = IF ledger[next[c]].valid THEN "valid" ELSE "invalid")
  BY <1>2 DEF ReceiveBlock, Settle, WaitVerdict, Notifies, TypeOK
<1>3. ASSUME NEW d \in Calls, ReceiveBlock(d), verdict'[c] # verdict[c]
      PROVE  /\ verdict'[c] = "valid" => Recorded(awaited[c], TRUE)'
             /\ verdict'[c] = "invalid" => Recorded(awaited[c], FALSE)'
  <2>1. ledger[next[c]] \in Blocks
    BY <1>2, <1>3 DEF TypeOK
  <2>2. ledger[next[c]].valid \in BOOLEAN
    BY <2>1 DEF Blocks
  <2>3. QED BY <1>2, <1>3, <2>2 DEF Recorded
<1>4. ASSUME NEW d \in Calls, StreamBroken(d)
      PROVE  awaited' = awaited /\ verdict'[c] \in {verdict[c], "error"}
  BY <1>4 DEF StreamBroken, Settle, TypeOK
<1>5. ASSUME NEW d \in Calls, WaitForTx(d)
      PROVE  verdict' = verdict /\ (awaited'[c] = awaited[c] \/ verdict[c] = "none")
  BY <1>5 DEF WaitForTx, TypeOK, CallShape
<1>6. (\E d \in Calls : ReceiveBlock(d) \/ StreamBroken(d) \/ WaitForTx(d)) \/ UNCHANGED <<awaited, verdict>>
  BY DEF Next, CallStep, NetworkStep, vars, hub, Send, SendToEndorsers, BuildForSigning, SignAndSend,
     SignFails, Judge, Commit, BuildCommit, SignCommit, CommitAnswered, CommitTimedOut, Disconnect, SeekNewest, OrdererTakes, Order, OtherBlock
<1>7. ASSUME NEW d \in Calls, ReceiveBlock(d) PROVE awaited' = awaited
  BY <1>7 DEF ReceiveBlock
<1>8. CASE \E d \in Calls : ReceiveBlock(d)
  BY <1>1, <1>3, <1>7, <1>8
<1>9. CASE \E d \in Calls : StreamBroken(d)
  BY <1>1, <1>4, <1>9
<1>10. CASE \E d \in Calls : WaitForTx(d)
  BY <1>1, <1>5, <1>10
<1>11. CASE UNCHANGED <<awaited, verdict>>
  BY <1>1, <1>11
<1>12. QED BY <1>6, <1>8, <1>9, <1>10, <1>11

\* Only WaitForTx opens a stream, and only on an eventer without one.
LEMMA StreamsStep == TypeOK /\ StreamsApart /\ [Next]_vars => StreamsApart'
<1> SUFFICES ASSUME TypeOK, StreamsApart, [Next]_vars PROVE StreamsApart'
  OBVIOUS
<1>1. ASSUME NEW c \in Calls, WaitForTx(c) PROVE StreamsApart'
  BY <1>1 DEF WaitForTx, Busy, Streaming, StreamsApart, TypeOK
<1>2. ASSUME NEW c \in Calls, StreamBroken(c) \/ Disconnect(c) \/ SeekNewest(c) PROVE StreamsApart'
  BY <1>2 DEF StreamBroken, Disconnect, Close, SeekNewest, Streaming, StreamsApart, TypeOK
<1>3. (\E c \in Calls : WaitForTx(c) \/ StreamBroken(c) \/ Disconnect(c) \/ SeekNewest(c)) \/ conn' = conn
  BY DEF Next, CallStep, NetworkStep, vars, hub, Send, SendToEndorsers, BuildForSigning, SignAndSend,
     SignFails, Judge, Commit, BuildCommit, SignCommit, CommitAnswered, CommitTimedOut, ReceiveBlock, OrdererTakes, Order, OtherBlock
<1>4. QED BY <1>1, <1>2, <1>3 DEF StreamsApart, Streaming

LEMMA FinalityInvariant == Spec => []FinalityInv
<1>1. Init => CallShape /\ VerdictIsReal /\ StreamsApart
  BY DEF Init, CallShape, VerdictIsReal, StreamsApart, Streaming
<1>2. TypeOK /\ CallShape /\ VerdictIsReal /\ StreamsApart /\ [Next]_vars
         => CallShape' /\ VerdictIsReal' /\ StreamsApart'
  BY CallShapeStep, VerdictStep, StreamsStep
<1>3. QED BY <1>1, <1>2, TypeCorrect, PTL DEF Spec, FinalityInv

\* What submit reports of finality is what the ledger records, also when calls
\* overlap on one Transaction object.
THEOREM FinalityReal == Spec => []FinalityIsReal
<1>1. FinalityInv => FinalityIsReal
  BY DEF FinalityInv, CallShape, VerdictIsReal, FinalityIsReal
<1>2. QED BY <1>1, FinalityInvariant, PTL

EventerExclusive ==
    StreamsApart /\ \A c \in Calls : answer[c] # "none" => ~Streaming(c)

\* No eventer has two streams, and no stream outlives the call that opened it.
THEOREM EventersExclusive == Spec => []EventerExclusive
<1>1. FinalityInv => EventerExclusive
  BY DEF FinalityInv, CallShape, StreamsApart, EventerExclusive
<1>2. QED BY <1>1, FinalityInvariant, PTL
-----------------------------------------------------------------------------
\* With OneAtATime, what a call finds on the object it is made on is its own.

\* One call runs on an object.
OneRunning ==
    \A c, d \in Calls :
        Running(c) /\ Running(d) /\ ObjectOf[c] = ObjectOf[d] => c = d

HoldsOwn(c) ==
    LET object == proposal[ObjectOf[c]]
    IN  /\ pc[c] \in {"signing", "sent", "endorsed", "commitSigning", "broadcast", "committed"}
              => object.tx = TxId[c]
        /\ pc[c] = "sent" => sent[c] = TxId[c] /\ object.endorsed = {}
        /\ pc[c] = "endorsed" => object.endorsed = {TxId[c]} \X Endorsers
        /\ envelope[c].stage # "none"
              => envelope[c].tx = TxId[c] /\ envelope[c].endorsed = {TxId[c]} \X Endorsers
        /\ pc[c] \in {"waiting", "settled"} => awaited[c] = TxId[c]
        /\ answer[c] \in {"valid", "invalid"} => awaited[c] = TxId[c]

OwnInv == OneRunning /\ \A c \in Calls : HoldsOwn(c)

LEMMA OneRunningStep == OneAtATime /\ TypeOK /\ OneRunning /\ [Next]_vars => OneRunning'
<1> SUFFICES ASSUME OneAtATime, TypeOK, OneRunning, [Next]_vars PROVE OneRunning'
  OBVIOUS
<1>1. ASSUME NEW c \in Calls, Send(c) \/ BuildForSigning(c) PROVE OneRunning'
  <2>1. \A d \in Calls : d # c => pc'[d] = pc[d]
    BY <1>1 DEF Send, SendToEndorsers, BuildForSigning, TypeOK
  <2>2. \A d \in Calls : ObjectOf[d] = ObjectOf[c] => ~Running(d)
    BY <1>1 DEF Send, BuildForSigning, MayCall
  <2>3. QED BY <2>1, <2>2 DEF OneRunning, Running
<1>2. ASSUME NEW c \in Calls, CallStep(c), ~Send(c), ~BuildForSigning(c)
      PROVE  \A d \in Calls : Running(d)' => Running(d)
  <2>1. pc[c] \notin {"idle", "done"} \/ pc' = pc
    BY <1>2 DEF CallStep, SignAndSend, SignFails, Judge, Commit, BuildCommit, SignCommit, CommitAnswered, CommitTimedOut, WaitForTx,
       ReceiveBlock, StreamBroken, Disconnect
  <2>2. \A d \in Calls : d # c => pc'[d] = pc[d]
    BY <1>2 DEF CallStep, SignAndSend, SendToEndorsers, SignFails, Judge, Commit, BuildCommit, SignCommit, CommitAnswered,
       CommitTimedOut, WaitForTx, ReceiveBlock, StreamBroken, Disconnect, Return, Settle, TypeOK
  <2>3. QED BY <2>1, <2>2 DEF Running
<1>3. ASSUME NEW c \in Calls, NetworkStep(c) PROVE pc' = pc
  BY <1>3 DEF NetworkStep, SeekNewest, OrdererTakes, Order
<1>4. OtherBlock \/ UNCHANGED vars => pc' = pc
  BY DEF OtherBlock, vars
<1>5. QED BY <1>1, <1>2, <1>3, <1>4 DEF Next, OneRunning, Running

LEMMA OwnStep ==
    OneAtATime /\ TypeOK /\ CallShape /\ OwnInv /\ [Next]_vars => \A c \in Calls : HoldsOwn(c)'
<1> SUFFICES ASSUME OneAtATime, TypeOK, CallShape, OwnInv, [Next]_vars
             PROVE  \A c \in Calls : HoldsOwn(c)'
  OBVIOUS
<1> USE TransactionAssumption DEF TypeOK
<1>1. CASE UNCHANGED vars
  BY <1>1 DEF vars, hub, OwnInv, HoldsOwn
<1>2. CASE OtherBlock
  BY <1>2 DEF OtherBlock, hub, OwnInv, HoldsOwn
<1>3. ASSUME NEW c \in Calls, CallStep(c) PROVE \A d \in Calls : HoldsOwn(d)'
  <2>0. \A d \in Calls : d # c /\ ObjectOf[d] = ObjectOf[c] /\ Running(c) => ~Running(d)
    BY DEF OwnInv, OneRunning
  <2> USE DEF Running, OneRunning, OwnInv, HoldsOwn
  <2>1. CASE Send(c)
    BY <2>1 DEF Send, SendToEndorsers, MayCall, Proposals, hub, CallShape
  <2>2. CASE BuildForSigning(c)
    BY <2>2 DEF BuildForSigning, MayCall, Proposals, hub, CallShape
  <2>3. CASE SignAndSend(c)
    <3>1. pc[c] = "signing" /\ proposal[ObjectOf[c]].tx = TxId[c]
      BY <2>3 DEF SignAndSend
    <3>2. HoldsOwn(c)'
      BY <2>3, <3>1 DEF SignAndSend, SendToEndorsers, hub, CallShape
    <3>3. ASSUME NEW d \in Calls, d # c PROVE HoldsOwn(d)'
      <4>1. /\ pc'[d] = pc[d] /\ sent'[d] = sent[d]
            /\ UNCHANGED <<answer, envelope, hub>>
        BY <2>3, <3>3 DEF SignAndSend, SendToEndorsers
      <4>2. CASE ObjectOf[d] = ObjectOf[c]
        <5>1. ~Running(d)
          BY <2>0, <3>1, <3>3, <4>2
        <5>2. QED BY <4>1, <5>1 DEF hub
      <4>3. CASE ObjectOf[d] # ObjectOf[c]
        <5>1. proposal'[ObjectOf[d]] = proposal[ObjectOf[d]]
          BY <2>3, <4>3 DEF SignAndSend, SendToEndorsers
        <5>2. QED BY <4>1, <5>1 DEF hub
      <4>4. QED BY <4>2, <4>3
    <3>4. QED BY <3>2, <3>3
  <2>4. CASE Judge(c)
    <3>1. PICK results \in ProposalResults(sent[c]) :
            /\ proposal' = [proposal EXCEPT ![ObjectOf[c]].endorsed =
                              @ \cup {<<sent[c], e>> : e \in Endorsing(results)}]
            /\ pc'[c] = "endorsed" => EndorseALL(results, {})
      BY <2>4, Zenon DEF Judge, Return
    <3>2. sent[c] = TxId[c] /\ proposal[ObjectOf[c]].endorsed = {}
      BY <2>4 DEF Judge
    <3>3. EndorseALL(results, {}) => \A e \in Endorsers : results[e] = Endorsed
      BY DEF ProposalResults, EndorseALL, Unreachable, SanCheck, SystemError, Endorsed, Refusal
    <3>4. EndorseALL(results, {}) => {<<sent[c], e>> : e \in Endorsing(results)}
                                       = {TxId[c]} \X Endorsers
      BY <3>2, <3>3 DEF Endorsing
    <3>5. /\ pc[c] = "sent"
          /\ pc'[c] \in {"endorsed", "done"}
          /\ answer'[c] \in {"none", "error", "read"}
          /\ \A d \in Calls : d # c => pc'[d] = pc[d] /\ answer'[d] = answer[d]
          /\ UNCHANGED <<sent, envelope, hub>>
      BY <2>4 DEF Judge, Return, CallShape
    <3>6. HoldsOwn(c)'
      BY <3>1, <3>2, <3>4, <3>5 DEF Proposals, hub
    <3>7. ASSUME NEW d \in Calls, d # c PROVE HoldsOwn(d)'
      <4>1. CASE ObjectOf[d] = ObjectOf[c]
        <5>1. ~Running(d)
          BY <2>0, <3>5, <3>7, <4>1
        <5>2. QED BY <3>5, <3>7, <5>1 DEF hub
      <4>2. CASE ObjectOf[d] # ObjectOf[c]
        <5>1. proposal'[ObjectOf[d]] = proposal[ObjectOf[d]]
          BY <3>1, <4>2
        <5>2. QED BY <3>5, <3>7, <5>1 DEF hub
      <4>3. QED BY <4>1, <4>2
    <3>8. QED BY <3>6, <3>7
  <2>5. CASE Commit(c) \/ BuildCommit(c)
    <3>1. PICK stage \in Stages \ {"none"} : Build(c, stage)
      BY <2>5 DEF Commit, BuildCommit, Stages
    <3>2. QED BY <2>5, <3>1 DEF Commit, BuildCommit, Build, Envelopes, hub, CallShape
  <2>13. CASE SignCommit(c)
    BY <2>13 DEF SignCommit, Envelopes, hub, CallShape
  <2>6. CASE CommitAnswered(c)
    <3>1. \/ \E a \in {"error", "sent"} : Return(c, a)
          \/ pc' = [pc EXCEPT ![c] = "committed"] /\ answer' = answer
      BY <2>6 DEF CommitAnswered
    <3>2. pc[c] = "broadcast" /\ UNCHANGED <<proposal, sent, envelope, ledger, hub>>
      BY <2>6 DEF CommitAnswered
    <3>3. QED BY <3>1, <3>2 DEF Return, hub, CallShape
  <2>7. CASE CommitTimedOut(c) \/ SignFails(c)
    BY <2>7 DEF CommitTimedOut, SignFails, Return, hub, CallShape
  <2>8. CASE WaitForTx(c)
    BY <2>8 DEF WaitForTx, CallShape
  <2>9. CASE ReceiveBlock(c)
    BY <2>9 DEF ReceiveBlock, Settle, CallShape
  <2>10. CASE StreamBroken(c)
    BY <2>10 DEF StreamBroken, Settle, CallShape
  <2>11. CASE Disconnect(c)
    BY <2>11 DEF Disconnect, Return, CallShape
  <2>12. QED
    BY <1>3, <2>1, <2>2, <2>3, <2>4, <2>5, <2>6, <2>7, <2>8, <2>9, <2>10, <2>11, <2>13 DEF CallStep
<1>4. ASSUME NEW c \in Calls, NetworkStep(c) PROVE \A d \in Calls : HoldsOwn(d)'
  <2>1. UNCHANGED <<pc, answer, proposal, sent, awaited>>
    BY <1>4 DEF NetworkStep, SeekNewest, OrdererTakes, Order, hub
  <2>2. \A d \in Calls : /\ envelope'[d].tx = envelope[d].tx
                         /\ envelope'[d].endorsed = envelope[d].endorsed
                         /\ envelope'[d].stage # "none" <=> envelope[d].stage # "none"
    <3>1. \/ envelope' = envelope
          \/ \E stage \in Stages :
                /\ envelope[c].stage # "none" /\ stage # "none"
                /\ envelope' = [envelope EXCEPT ![c].stage = stage]
      BY <1>4 DEF NetworkStep, SeekNewest, OrdererTakes, Order, Stages
    <3>2. ASSUME NEW stage \in Stages, envelope[c].stage # "none", stage # "none",
                 envelope' = [envelope EXCEPT ![c].stage = stage], NEW d \in Calls
          PROVE  /\ envelope'[d].tx = envelope[d].tx
                 /\ envelope'[d].endorsed = envelope[d].endorsed
                 /\ envelope'[d].stage # "none" <=> envelope[d].stage # "none"
      <4>1. CASE d = c
        BY <3>2, <4>1 DEF Envelopes
      <4>2. CASE d # c
        BY <3>2, <4>2
      <4>3. QED BY <4>1, <4>2
    <3>3. QED BY <3>1, <3>2
  <2>3. QED BY <2>1, <2>2 DEF OwnInv, HoldsOwn
<1>5. QED BY <1>1, <1>2, <1>3, <1>4 DEF Next

LEMMA OwnInvariant == ASSUME OneAtATime PROVE Spec => []OwnInv
<1>1. Init => OwnInv
  BY DEF Init, OwnInv, OneRunning, Running, HoldsOwn
<1>2. TypeOK /\ CallShape /\ OwnInv /\ [Next]_vars => OwnInv'
  BY OneRunningStep, OwnStep DEF OwnInv
<1>3. QED BY <1>1, <1>2, FinalityInvariant, PTL DEF Spec, FinalityInv

\* What is built or broadcast for a call is its own transaction, with an
\* endorsement of it by each endorser and no other.
THEOREM EnvelopesOwn == ASSUME OneAtATime PROVE Spec => []EnvelopeIsOwn
<1>1. OwnInv => EnvelopeIsOwn
  BY DEF OwnInv, HoldsOwn, EnvelopeIsOwn
<1>2. QED BY <1>1, OwnInvariant, PTL

\* A submit that returned normally has its own transaction committed.
THEOREM OwnCommitted == ASSUME OneAtATime PROVE Spec => []OwnTransactionCommitted
<1>1. OwnInv /\ FinalityIsReal => OwnTransactionCommitted
  BY DEF OwnInv, HoldsOwn, FinalityIsReal, OwnTransactionCommitted
<1>2. QED BY <1>1, OwnInvariant, FinalityReal, PTL
-----------------------------------------------------------------------------
\* The refinement of SubmitContract.
Taken == {envelope[c].tx : c \in {d \in Calls : envelope[d].stage \in {"accepted", "ordered"}}}
Outcomes == {<<ledger[i].tx, ledger[i].valid>> : i \in 1..Len(ledger)}

\* A block adds its transaction and outcome to what the ledger records.
LEMMA BlockRecorded ==
    ASSUME TypeOK, NEW block \in Blocks, ledger' = Append(ledger, block)
    PROVE  Outcomes' = Outcomes \cup {<<block.tx, block.valid>>}
<1>1. Len(ledger) \in Nat
  BY DEF TypeOK
<1>2. 1..Len(ledger') = 1..Len(ledger) \cup {Len(ledger) + 1}
  BY <1>1, ChainGrows
<1>3. QED BY <1>2, ChainGrows DEF Outcomes

\* A call that returns answers once, and answers what is recorded.
LEMMA ReturnIsAnswer ==
    ASSUME TypeOK, CallShape, OwnInv, FinalityIsReal', ledger' = ledger, Taken' = Taken,
           NEW c \in Calls, NEW a \in Answers \ {"none"}, Return(c, a),
           pc[c] # "done",
           a = "sent" => TxId[c] \in Taken,
           a \in {"valid", "invalid"} => awaited'[c] = TxId[c]
    PROVE  Contract!Answer(c, a)
<1>1. answer[c] = "none"
  BY DEF CallShape
<1>2. answer'[c] = a
  BY DEF Return, TypeOK
<1>3. ASSUME a = "valid" PROVE <<TxId[c], TRUE>> \in Outcomes
  <2>1. PICK i \in 1..Len(ledger) : ledger[i].tx = TxId[c] /\ ledger[i].valid = TRUE
    BY <1>2, <1>3 DEF FinalityIsReal, Recorded
  <2>2. <<TxId[c], TRUE>> = <<ledger[i].tx, ledger[i].valid>>
    BY <2>1
  <2>3. QED BY <2>2 DEF Outcomes
<1>4. ASSUME a = "invalid" PROVE <<TxId[c], FALSE>> \in Outcomes
  <2>1. PICK i \in 1..Len(ledger) : ledger[i].tx = TxId[c] /\ ledger[i].valid = FALSE
    BY <1>2, <1>4 DEF FinalityIsReal, Recorded
  <2>2. <<TxId[c], FALSE>> = <<ledger[i].tx, ledger[i].valid>>
    BY <2>1
  <2>3. QED BY <2>2 DEF Outcomes
<1>5. QED BY <1>1, <1>3, <1>4 DEF Contract!Answer, Return, Outcomes, Taken

\* What was taken stays taken, and nothing is but by the orderer.
LEMMA TakenStep ==
    ASSUME TypeOK, CallShape, NEW c \in Calls,
           CallStep(c) \/ Order(c) \/ OrdererTakes(c, "refused") \/ SeekNewest(c)
    PROVE  Taken' = Taken
<1> SUFFICES ASSUME envelope' # envelope PROVE Taken' = Taken
  BY DEF Taken
<1>1. \/ (Commit(c) \/ BuildCommit(c)) /\ \E stage \in {"built", "inflight"} : Build(c, stage)
      \/ SignCommit(c)
      \/ Order(c)
      \/ OrdererTakes(c, "refused")
  BY DEF CallStep, hub, Send, SendToEndorsers, BuildForSigning, SignAndSend, SignFails, Judge,
     Commit, BuildCommit, CommitAnswered, CommitTimedOut, WaitForTx, ReceiveBlock, StreamBroken,
     Disconnect, SeekNewest
<1>2. \A d \in Calls : d # c => envelope'[d] = envelope[d]
  BY <1>1 DEF Build, SignCommit, Order, OrdererTakes, TypeOK
<1>3. (envelope'[c].stage \in {"accepted", "ordered"}) <=> (envelope[c].stage \in {"accepted", "ordered"})
  BY <1>1 DEF Commit, BuildCommit, Build, SignCommit, Order, OrdererTakes, TypeOK, CallShape, Envelopes
<1>4. envelope[c].stage \in {"accepted", "ordered"} => envelope'[c].tx = envelope[c].tx
  BY <1>1 DEF Commit, BuildCommit, Build, SignCommit, Order, OrdererTakes, TypeOK, CallShape, Envelopes
<1>5. QED BY <1>2, <1>3, <1>4 DEF Taken

LEMMA StepRefines ==
    ASSUME TypeOK, CallShape, OwnInv, FinalityIsReal', [Next]_vars
    PROVE  [Contract!Next]_(Contract!vars)
<1> USE DEF Contract!Next, Contract!vars
<1>1. CASE UNCHANGED vars
  BY <1>1 DEF vars
<1>2. CASE OtherBlock
  <2> DEFINE block == [tx |-> OtherTx, valid |-> TRUE]
  <2>1. block \in Blocks /\ ledger' = Append(ledger, block) /\ UNCHANGED <<answer, envelope>>
    BY <1>2 DEF OtherBlock, Blocks
  <2>2. Outcomes' = Outcomes \cup {<<OtherTx, TRUE>>}
    BY <2>1, BlockRecorded
  <2>3. Contract!Record(OtherTx, TRUE)
    BY <2>1, <2>2 DEF Contract!Record, Outcomes
  <2>4. QED BY <2>3
<1>3. ASSUME NEW c \in Calls, Order(c) PROVE Contract!Next
  <2>1. PICK valid \in BOOLEAN : ledger' = Append(ledger, [tx |-> envelope[c].tx, valid |-> valid])
    BY <1>3 DEF Order
  <2>2. [tx |-> envelope[c].tx, valid |-> valid] \in Blocks
    BY DEF TypeOK, Envelopes, Blocks
  <2>3. Outcomes' = Outcomes \cup {<<envelope[c].tx, valid>>}
    BY <2>1, <2>2, BlockRecorded
  <2>4. envelope[c].tx \in TxIds
    BY <1>3, TransactionAssumption DEF Order, OwnInv, HoldsOwn
  <2>5. envelope[c].tx \in Taken
    BY <1>3 DEF Order, Taken
  <2>6. Taken' = Taken
    BY <1>3, TakenStep
  <2>7. Contract!Record(envelope[c].tx, valid)
    BY <1>3, <2>3, <2>5, <2>6 DEF Order, Contract!Record, Outcomes, Taken
  <2>8. QED BY <2>4, <2>7
<1>4. ASSUME NEW c \in Calls, CallStep(c)
      PROVE  Contract!Next \/ UNCHANGED Contract!vars
  <2>1. \/ UNCHANGED <<answer, ledger>>
        \/ \E a \in {"error", "read"} :
              Return(c, a) /\ ledger' = ledger /\ pc[c] # "done"
        \/ CommitAnswered(c) /\ Return(c, "sent") /\ ledger' = ledger
        \/ Disconnect(c)
    BY <1>4 DEF CallStep, Send, SendToEndorsers, BuildForSigning, SignAndSend, SignFails, Judge, Commit,
       BuildCommit, SignCommit, CommitAnswered, CommitTimedOut, WaitForTx, ReceiveBlock, StreamBroken
  <2>0. Taken' = Taken
    BY <1>4, TakenStep
  <2>2. ASSUME NEW a \in {"error", "read"}, Return(c, a), ledger' = ledger, pc[c] # "done"
        PROVE  Contract!Next
    <3>1. Contract!Answer(c, a)
      BY <2>0, <2>2, ReturnIsAnswer DEF Answers, Verdicts
    <3>2. QED BY <3>1
  <2>3. ASSUME Disconnect(c) PROVE Contract!Next
    <3>1. verdict[c] \in {"valid", "invalid", "error"} /\ awaited[c] = TxId[c]
      BY <2>3 DEF Disconnect, CallShape, OwnInv, HoldsOwn, TypeOK, Verdicts
    <3>2. Contract!Answer(c, verdict[c])
      BY <2>0, <2>3, <3>1, ReturnIsAnswer DEF Disconnect, Answers, Verdicts
    <3>3. QED BY <3>1, <3>2
  <2>4. ASSUME CommitAnswered(c), Return(c, "sent"), ledger' = ledger PROVE Contract!Next
    <3>1. envelope[c].stage \in {"accepted", "ordered"}
      <4>1. envelope[c].stage # "refused"
        BY <2>4 DEF CommitAnswered, CommitSuccess, Return, TypeOK
      <4>2. QED BY <2>4, <4>1 DEF CommitAnswered, CallShape, TypeOK, Envelopes, Stages
    <3>2. TxId[c] \in Taken
      BY <3>1 DEF Taken, OwnInv, HoldsOwn
    <3>3. pc[c] # "done"
      BY <2>4 DEF CommitAnswered
    <3>4. Contract!Answer(c, "sent")
      BY <2>0, <2>4, <3>2, <3>3, ReturnIsAnswer DEF Answers, Verdicts
    <3>5. QED BY <3>4
  <2>5. QED BY <2>0, <2>1, <2>2, <2>3, <2>4 DEF Taken
<1>5. ASSUME NEW c \in Calls, SeekNewest(c) \/ OrdererTakes(c, "refused")
      PROVE  UNCHANGED Contract!vars
  BY <1>5, TakenStep DEF SeekNewest, OrdererTakes, Taken
<1>6. ASSUME NEW c \in Calls, OrdererTakes(c, "accepted") PROVE Contract!Next
  <2>1. envelope' = [envelope EXCEPT ![c].stage = "accepted"] /\ envelope[c].stage = "inflight"
    BY <1>6 DEF OrdererTakes
  <2>2. Taken' = Taken \cup {envelope[c].tx}
    BY <2>1 DEF Taken, TypeOK, Envelopes
  <2>3. envelope[c].tx \in TxIds
    BY <2>1, TransactionAssumption DEF OwnInv, HoldsOwn
  <2>4. Contract!Take(envelope[c].tx)
    BY <1>6, <2>2 DEF OrdererTakes, Contract!Take, Taken
  <2>5. QED BY <2>3, <2>4 DEF Contract!Take
<1>7. QED BY <1>1, <1>2, <1>3, <1>4, <1>5, <1>6 DEF Next, NetworkStep

\* The flow of evaluate and submit implements the contract of its callers.
THEOREM Refinement == ASSUME OneAtATime PROVE Spec => ImplementsContract
<1>1. ASSUME Init PROVE Contract!Init
  <2>1. Len(ledger) = 1 /\ ledger[1].tx = OtherTx /\ ledger[1].valid = TRUE
    BY <1>1 DEF Init
  <2>2. Outcomes = {<<OtherTx, TRUE>>}
    <3>1. 1..Len(ledger) = {1}
      BY <2>1
    <3>2. Outcomes = {<<ledger[1].tx, ledger[1].valid>>}
      BY <3>1 DEF Outcomes
    <3>3. QED BY <2>1, <3>2
  <2>3. QED BY <1>1, <2>2 DEF Init, Contract!Init, Outcomes
<1>2. TypeOK /\ CallShape /\ OwnInv /\ FinalityIsReal' /\ [Next]_vars
         => [Contract!Next]_(Contract!vars)
  BY StepRefines
<1>3. QED
  BY <1>1, <1>2, FinalityInvariant, OwnInvariant, FinalityReal, PTL
     DEF Spec, FinalityInv, ImplementsContract, Contract!Spec
=============================================================================

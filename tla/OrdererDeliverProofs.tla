------------------------ MODULE OrdererDeliverProofs ------------------------
(***************************************************************************)
(* Proofs about OrdererDeliver, for any calls, positions and number of     *)
(* blocks.                                                                 *)
(***************************************************************************)
EXTENDS OrdererDeliver, SequenceTheorems, TLAPS

\* The blocks that may answer a call: those of its contract.
Blocks(c) == Contract!Blocks(c)

IsBlock(e) == e.type = "block"
IsSuccess(e) == e.type = "status" /\ e.status = "SUCCESS"

\* A call begins with the newest block of its time, and has no attempt before.
Begun(c) ==
    /\ asked[c] <= height
    /\ pc[c] = "idle" => stream[c] = "none" /\ server[c] = "none"
    /\ pc[c] # "done" => answer[c] = NoAnswer

\* What came, and what is on its way, is a block that was asked for; it comes
\* first, and a success after it.
InOrder(c) ==
    /\ \A i \in 1..Len(responses[c]) : responses[c][i] \in Blocks(c)
    /\ \A i \in 1..Len(wire[c]) :
          /\ IsBlock(wire[c][i]) => i = 1 /\ Len(responses[c]) = 0 /\ wire[c][i].block \in Blocks(c)
          /\ IsSuccess(wire[c][i]) => Len(responses[c]) + i = 2 /\ (i = 2 => IsBlock(wire[c][1]))

\* How much the orderer has sent, by where it is.
Sent(c) ==
    /\ server[c] \in {"none", "reading"} => Len(wire[c]) = 0 /\ Len(responses[c]) = 0
    /\ server[c] = "sending" =>
          /\ Len(wire[c]) + Len(responses[c]) = 1
          /\ Len(wire[c]) = 1 => IsBlock(wire[c][1])

\* An attempt that waits has not closed its side, and if the orderer is done
\* with it, a status is to come or the stream ended without one.
StatusToCome(c) ==
    pc[c] = "waiting" =>
        /\ stream[c] \in {"open", "cancelled"}
        /\ server[c] = "over" /\ ~silent[c] => \E i \in 1..Len(wire[c]) : ~IsBlock(wire[c][i])

Guarded(c) ==
    /\ pc[c] = "waiting" => timer[c] \/ (silent[c] /\ stream[c] = "cancelled")
    /\ pc[c] \in {"sleeping", "done"} => stream[c] # "open"

CallInv(c) == Begun(c) /\ InOrder(c) /\ Sent(c) /\ StatusToCome(c) /\ Guarded(c)

Inv == TypeOK /\ \A c \in Calls : CallInv(c)
-----------------------------------------------------------------------------
LEMMA CallOf ==
    ASSUME Inv, NEW c \in Calls
    PROVE  TypeOK /\ Begun(c) /\ InOrder(c) /\ Sent(c) /\ StatusToCome(c) /\ Guarded(c)
BY DEF Inv, CallInv

LEMMA BlocksAre ==
    ASSUME NEW c \in Calls
    PROVE  Blocks(c) = IF Wanted[c] = Newest THEN asked[c]..height ELSE {Wanted[c]} \cap 0..height
BY DEF Blocks, Contract!Blocks

\* The state of one call.
Same(c) ==
    /\ pc'[c] = pc[c] /\ answer'[c] = answer[c] /\ asked'[c] = asked[c]
    /\ timer'[c] = timer[c] /\ stream'[c] = stream[c] /\ responses'[c] = responses[c]
    /\ wire'[c] = wire[c] /\ server'[c] = server[c] /\ silent'[c] = silent[c]

\* What other calls do, or the orderer between them, leaves a call as it is.
LEMMA Undisturbed ==
    ASSUME TypeOK, NEW c \in Calls, CallInv(c), Same(c), height' \in Nat, height' >= height
    PROVE  CallInv(c)'
<1>1. asked[c] \in Nat /\ height \in Nat
  BY OrdererDeliverAssumption DEF TypeOK, BlockNumbers
<1>2. Blocks(c) \subseteq Blocks(c)'
  BY <1>1, BlocksAre DEF Same, Blocks, Contract!Blocks
<1>3. Begun(c)'
  BY <1>1 DEF CallInv, Begun, Same
<1>4. InOrder(c)'
  BY <1>2 DEF CallInv, InOrder, Same
<1>5. Sent(c)' /\ StatusToCome(c)' /\ Guarded(c)'
  BY DEF CallInv, Sent, StatusToCome, Guarded, Same
<1>6. QED BY <1>3, <1>4, <1>5 DEF CallInv

\* A step of one call.
LEMMA StepOf ==
    ASSUME Inv, NEW c \in Calls, \A d \in Calls \ {c} : Same(d), height' = height,
           TypeOK', CallInv(c)'
    PROVE  Inv'
<1>1. height' \in Nat /\ height' >= height
  BY DEF Inv, TypeOK, BlockNumbers
<1>2. \A d \in Calls \ {c} : CallInv(d)'
  BY <1>1, Undisturbed DEF Inv
<1>3. QED BY <1>2 DEF Inv

LEMMA SendDeliverStep ==
    ASSUME Inv, NEW c \in Calls, GetSpecificBlock(c) \/ SendTry(c)
    PROVE  Inv'
<1>1. /\ pc[c] \in {"idle", "sleeping"} /\ SendDeliver(c)
      /\ asked' = asked \/ asked' = [asked EXCEPT ![c] = height]
  BY DEF GetSpecificBlock, SendTry
<1>2. /\ pc'[c] = "waiting" /\ timer'[c] = TRUE /\ stream'[c] = "open" /\ responses'[c] = <<>>
      /\ wire'[c] = <<>> /\ server'[c] = "reading" /\ answer' = answer
      /\ asked'[c] \in {asked[c], height} /\ height' = height
  BY <1>1 DEF Inv, TypeOK, SendDeliver, orderer
<1>3. \A d \in Calls \ {c} : Same(d)
  BY <1>1 DEF Inv, TypeOK, SendDeliver, Same
<1>4. TypeOK'
  <2>1. asked' \in [Calls -> BlockNumbers]
    BY <1>1 DEF Inv, TypeOK
  <2>2. /\ responses' \in [Calls -> Seq(BlockNumbers)] /\ wire' \in [Calls -> Seq(Events)]
        /\ pc' \in [Calls -> {"idle", "waiting", "sleeping", "done"}]
        /\ timer' \in [Calls -> BOOLEAN] /\ silent' \in [Calls -> BOOLEAN]
    BY <1>1 DEF Inv, TypeOK, SendDeliver
  <2>3. /\ stream' \in [Calls -> {"none", "open", "ended", "cancelled"}]
        /\ server' \in [Calls -> {"none", "reading", "sending", "served", "broken", "over"}]
    BY <1>1 DEF Inv, TypeOK, SendDeliver
  <2>4. \A d \in Calls \ {c} : Len(wire'[d]) + Len(responses'[d]) <= 2
    BY <1>3 DEF Inv, TypeOK, Same
  <2>5. Len(wire'[c]) + Len(responses'[c]) <= 2
    BY <1>2
  <2>6. QED BY <1>1, <1>2, <2>1, <2>2, <2>3, <2>4, <2>5 DEF Inv, TypeOK, SendDeliver, orderer
<1>5. Begun(c)'
  BY <1>1, <1>2 DEF Inv, CallInv, Begun, TypeOK, BlockNumbers
<1>6. InOrder(c)' /\ Sent(c)' /\ StatusToCome(c)' /\ Guarded(c)'
  BY <1>2 DEF InOrder, Sent, StatusToCome, Guarded
<1>7. QED BY <1>2, <1>3, <1>4, <1>5, <1>6, StepOf DEF CallInv

\* The next event of the wire, and those after it.
LEMMA Next1 ==
    ASSUME TypeOK, NEW c \in Calls, wire[c] # <<>>
    PROVE  /\ Head(wire[c]) = wire[c][1] /\ wire[c][1] \in Events /\ 1 \in 1..Len(wire[c])
           /\ Tail(wire[c]) \in Seq(Events) /\ Len(Tail(wire[c])) = Len(wire[c]) - 1
           /\ \A i \in 1..Len(Tail(wire[c])) : i + 1 \in 1..Len(wire[c]) /\ Tail(wire[c])[i] = wire[c][i + 1]
<1>1. wire[c] \in Seq(Events)
  BY DEF TypeOK
<1>2. QED BY <1>1, HeadTailProperties, ElementOfSeq

\* An event has been taken from the wire.
LEMMA Taken ==
    ASSUME TypeOK, NEW c \in Calls, wire[c] # <<>>, wire' = [wire EXCEPT ![c] = Tail(wire[c])]
    PROVE  /\ Len(wire'[c]) = Len(wire[c]) - 1 /\ Len(wire[c]) \in 1..2
           /\ wire' \in [Calls -> Seq(Events)]
           /\ \A i \in 1..Len(wire'[c]) : i + 1 \in 1..Len(wire[c]) /\ wire'[c][i] = wire[c][i + 1]
<1>1. wire'[c] = Tail(wire[c]) /\ wire' \in [Calls -> Seq(Events)]
  BY Next1 DEF TypeOK
<1>2. Len(wire[c]) \in 1..2
  <2> DEFINE w == Len(wire[c])
             r == Len(responses[c])
  <2>1. w \in Nat /\ w >= 1 /\ r \in Nat /\ w + r <= 2
    BY Next1, LenProperties DEF TypeOK
  <2> HIDE DEF w, r
  <2>2. w \in 1..2
    BY <2>1
  <2>3. QED BY <2>2 DEF w
<1>3. QED BY <1>1, <1>2, Next1

LEMMA OnBlockStep ==
    ASSUME Inv, NEW c \in Calls, OnBlock(c)
    PROVE  Inv'
<1> DEFINE b == Head(wire[c]).block
<1>1. /\ wire[c] # <<>> /\ Head(wire[c]).type = "block"
      /\ responses' = [responses EXCEPT ![c] = Append(responses[c], b)]
      /\ wire' = [wire EXCEPT ![c] = Tail(wire[c])]
      /\ UNCHANGED <<orderer, calling, timer, stream, server, silent>>
  BY DEF OnBlock, Comes, Received
<1>2. IsBlock(wire[c][1]) /\ b = wire[c][1].block /\ b \in Blocks(c) /\ Len(responses[c]) = 0
  BY <1>1, Next1 DEF Inv, CallInv, InOrder, IsBlock
<1>3. responses[c] \in Seq(BlockNumbers) /\ b \in BlockNumbers
  BY <1>1, <1>2, Next1 DEF Inv, TypeOK, Events, IsBlock
<1>4. /\ Append(responses[c], b) \in Seq(BlockNumbers) /\ Len(Append(responses[c], b)) = 1
      /\ Append(responses[c], b)[1] = b
  BY <1>2, <1>3, AppendProperties
<1> HIDE DEF b
<1>5. /\ Len(responses'[c]) = 1 /\ responses'[c][1] = b
      /\ Len(wire'[c]) = Len(wire[c]) - 1 /\ Len(wire[c]) \in 1..2
      /\ \A i \in 1..Len(wire'[c]) : i + 1 \in 1..Len(wire[c]) /\ wire'[c][i] = wire[c][i + 1]
  <2>1. responses'[c] = Append(responses[c], b)
    BY <1>1 DEF Inv, TypeOK
  <2>2. QED BY <1>1, <1>4, <2>1, Taken DEF Inv
<1>6. \A d \in Calls \ {c} : Same(d)
  BY <1>1 DEF Inv, TypeOK, Same, calling
<1>7. TypeOK'
  <2>1. wire' \in [Calls -> Seq(Events)] /\ responses' \in [Calls -> Seq(BlockNumbers)]
    BY <1>1, <1>4, Next1 DEF Inv, TypeOK
  <2>2. Len(wire'[c]) + Len(responses'[c]) <= 2
    <3> DEFINE w == Len(wire[c])
               v == Len(wire'[c])
               r == Len(responses'[c])
    <3>1. w \in 1..2 /\ v = w - 1 /\ r = 1
      BY <1>5
    <3> HIDE DEF w, v, r
    <3>2. v + r <= 2
      BY <3>1
    <3>3. QED BY <3>2 DEF v, r
  <2>3. \A d \in Calls \ {c} : Len(wire'[d]) + Len(responses'[d]) <= 2
    BY <1>6 DEF Inv, TypeOK, Same
  <2>4. QED BY <1>1, <2>1, <2>2, <2>3 DEF Inv, TypeOK, orderer, calling
<1>8. Blocks(c)' = Blocks(c)
  BY <1>1 DEF Blocks, Contract!Blocks, orderer, calling
<1>9. InOrder(c)'
  BY <1>2, <1>5, <1>8 DEF Inv, CallInv, InOrder
<1>10. Begun(c)' /\ Guarded(c)'
  BY <1>1 DEF Inv, CallInv, Begun, Guarded, orderer, calling
<1>11. Sent(c)'
  <2>1. server'[c] = server[c] /\ server[c] \notin {"none", "reading"}
    <3>1. Len(wire[c]) # 0
      BY <1>5
    <3>2. server[c] \notin {"none", "reading"}
      BY <3>1, CallOf DEF Sent
    <3>3. QED BY <1>1, <3>2
  <2>2. CASE server[c] = "sending"
    <3>1. Len(wire[c]) = 1
      <4>1. Len(wire[c]) + Len(responses[c]) = 1
        BY <2>2, CallOf DEF Sent
      <4>2. QED BY <1>2, <1>5, <4>1
    <3>2. Len(wire'[c]) = 0
      BY <3>1, <1>5
    <3>3. QED BY <1>5, <2>1, <3>2 DEF Sent
  <2>3. QED BY <2>1, <2>2 DEF Sent
<1>12. StatusToCome(c)'
  <2> SUFFICES ASSUME pc[c] = "waiting", server[c] = "over", ~silent[c]
               PROVE  \E i \in 1..Len(wire'[c]) : ~IsBlock(wire'[c][i])
    BY <1>1 DEF Inv, CallInv, StatusToCome, calling
  <2>1. PICK i \in 1..Len(wire[c]) : ~IsBlock(wire[c][i])
    BY DEF Inv, CallInv, StatusToCome
  <2>2. i - 1 \in 1..Len(wire'[c]) /\ wire'[c][i - 1] = wire[c][i]
    BY <1>2, <1>5, <2>1
  <2>3. QED BY <2>1, <2>2
<1>13. QED
  BY <1>1, <1>6, <1>7, <1>9, <1>10, <1>11, <1>12, StepOf DEF CallInv, orderer

\* A call that waited no longer does; one that did not stays as it is.
Leaves(c) ==
    /\ pc' \in [Calls -> {"idle", "waiting", "sleeping", "done"}]
    /\ answer' \in [Calls -> BlockNumbers \cup {NoAnswer, Failed}]
    /\ \A d \in Calls \ {c} : pc'[d] = pc[d] /\ answer'[d] = answer[d]
    /\ IF pc[c] = "waiting" THEN pc'[c] \in {"sleeping", "done"} ELSE pc'[c] = pc[c]
    /\ (pc[c] = "waiting" /\ pc'[c] = "done") \/ answer'[c] = answer[c]

LEMMA Settles ==
    ASSUME Inv, NEW c \in Calls, NEW a \in BlockNumbers \cup {Failed}, Settle(c, a)
    PROVE  Leaves(c)
<1>1. CASE pc[c] = "waiting"
  <2>1. pc' = [pc EXCEPT ![c] = "done"] /\ answer' = [answer EXCEPT ![c] = a]
    BY <1>1 DEF Settle
  <2>2. a \in BlockNumbers \cup {NoAnswer, Failed}
    OBVIOUS
  <2>3. answer' \in [Calls -> BlockNumbers \cup {NoAnswer, Failed}]
    BY <2>1, <2>2 DEF Inv, TypeOK
  <2>4. /\ pc' \in [Calls -> {"idle", "waiting", "sleeping", "done"}] /\ pc'[c] = "done"
        /\ \A d \in Calls \ {c} : pc'[d] = pc[d] /\ answer'[d] = answer[d]
    BY <2>1 DEF Inv, TypeOK
  <2>5. QED BY <1>1, <2>3, <2>4 DEF Leaves
<1>2. CASE pc[c] # "waiting"
  BY <1>2 DEF Inv, TypeOK, Settle, Leaves
<1>3. QED BY <1>1, <1>2

LEMMA Sleeps ==
    ASSUME Inv, NEW c \in Calls, pc[c] = "waiting", pc' = [pc EXCEPT ![c] = "sleeping"], answer' = answer
    PROVE  Leaves(c)
BY DEF Inv, TypeOK, Leaves

\* Its side of the stream is closed.
Closes(c) ==
    /\ stream' \in [Calls -> {"none", "open", "ended", "cancelled"}]
    /\ \A d \in Calls \ {c} : stream'[d] = stream[d]
    /\ stream'[c] # "open" /\ (stream[c] = "none" => stream'[c] = "none")

LEMMA Ends ==
    ASSUME Inv, NEW c \in Calls, End(c)
    PROVE  Closes(c)
BY DEF Inv, TypeOK, End, Closes

\* Whatever makes a call leave, and closes its stream.
LEMMA LeavesGuarded ==
    ASSUME Inv, NEW c \in Calls, Leaves(c), Closes(c), UNCHANGED <<orderer, asked>>,
           pc[c] = "idle" => server'[c] = server[c]
    PROVE  Begun(c)' /\ StatusToCome(c)' /\ Guarded(c)'
<1>1. height' = height /\ asked' = asked /\ pc'[c] # "waiting"
  BY DEF orderer, Leaves
<1>2. Begun(c)'
  BY <1>1, CallOf DEF Begun, Leaves, Closes
<1>3. StatusToCome(c)' /\ Guarded(c)'
  BY <1>1 DEF StatusToCome, Guarded, Closes
<1>4. QED BY <1>2, <1>3

\* A success comes when a block has.
LEMMA SuccessAfterBlock ==
    ASSUME Inv, NEW c \in Calls, Comes(c, "status"), Head(wire[c]).status = "SUCCESS"
    PROVE  /\ responses[c] # <<>> /\ Head(responses[c]) \in BlockNumbers
           /\ Head(responses[c]) \in Blocks(c)
<1>1. IsSuccess(wire[c][1]) /\ 1 \in 1..Len(wire[c])
  BY Next1 DEF Inv, IsSuccess, Comes
<1>2. Len(responses[c]) + 1 = 2
  BY <1>1, CallOf DEF InOrder
<1>3. responses[c] \in Seq(BlockNumbers) /\ Len(responses[c]) \in Nat
  BY LenProperties DEF Inv, TypeOK
<1>4. Len(responses[c]) = 1
  <2> DEFINE r == Len(responses[c])
  <2>1. r \in Nat /\ r + 1 = 2
    BY <1>2, <1>3
  <2> HIDE DEF r
  <2>2. r = 1
    BY <2>1
  <2>3. QED BY <2>2 DEF r
<1>5. responses[c] # <<>>
  <2>1. responses[c] = <<>> => Len(responses[c]) = 0
    OBVIOUS
  <2>2. QED BY <1>4, <2>1
<1>6. Head(responses[c]) = responses[c][1] /\ Head(responses[c]) \in BlockNumbers
  BY <1>3, <1>5, HeadTailProperties
<1>7. responses[c][1] \in Blocks(c)
  BY <1>4, CallOf DEF InOrder
<1>8. QED BY <1>5, <1>6, <1>7

LEMMA OnStatusStep ==
    ASSUME Inv, NEW c \in Calls, OnStatus(c)
    PROVE  Inv'
<1>1. /\ wire[c] # <<>> /\ Head(wire[c]).type = "status"
      /\ wire' = [wire EXCEPT ![c] = Tail(wire[c])]
      /\ UNCHANGED <<orderer, asked, timer, responses, server, silent>> /\ End(c)
  BY DEF OnStatus, Comes, Received
<1>2. ~IsBlock(wire[c][1]) /\ Head(wire[c]) = wire[c][1] /\ wire[c][1].type = "status"
  BY <1>1, Next1 DEF Inv, IsBlock
<1>3. Leaves(c)
  <2>1. CASE Head(wire[c]).status = "SUCCESS"
    <3>1. responses[c] # <<>> /\ Head(responses[c]) \in BlockNumbers
      BY <2>1, SuccessAfterBlock DEF OnStatus
    <3>2. Settle(c, Head(responses[c]))
      BY <2>1, <3>1 DEF OnStatus
    <3>3. QED BY <3>1, <3>2, Settles
  <2>2. CASE Head(wire[c]).status # "SUCCESS" /\ Settle(c, Failed)
    BY <2>2, Settles
  <2>3. CASE pc[c] = "waiting" /\ pc' = [pc EXCEPT ![c] = "sleeping"] /\ answer' = answer
    BY <2>3, Sleeps
  <2>4. QED BY <2>1, <2>2, <2>3 DEF OnStatus
<1>4. Closes(c)
  BY <1>1, Ends
<1>5. \A d \in Calls \ {c} : Same(d)
  BY <1>1, <1>3, <1>4 DEF Inv, TypeOK, Same, Leaves, Closes
<1>6. /\ Len(wire'[c]) = Len(wire[c]) - 1 /\ Len(wire[c]) \in 1..2
      /\ wire' \in [Calls -> Seq(Events)]
      /\ \A i \in 1..Len(wire'[c]) : i + 1 \in 1..Len(wire[c]) /\ wire'[c][i] = wire[c][i + 1]
  BY <1>1, Taken DEF Inv
<1>7. TypeOK'
  <2>1. Len(wire'[c]) + Len(responses'[c]) <= 2
    <3> DEFINE w == Len(wire[c])
               v == Len(wire'[c])
               r == Len(responses[c])
    <3>1. w \in 1..2 /\ v = w - 1 /\ r \in Nat /\ w + r <= 2
      BY <1>6, LenProperties DEF Inv, TypeOK
    <3> HIDE DEF w, v, r
    <3>2. v + r <= 2
      BY <3>1
    <3>3. QED BY <1>1, <3>2 DEF v, r
  <2>2. \A d \in Calls \ {c} : Len(wire'[d]) + Len(responses'[d]) <= 2
    BY <1>5 DEF Inv, TypeOK, Same
  <2>3. QED BY <1>1, <1>3, <1>4, <1>6, <2>1, <2>2 DEF Inv, TypeOK, Leaves, Closes, orderer
<1>8. Blocks(c)' = Blocks(c)
  BY <1>1 DEF Blocks, Contract!Blocks, orderer
<1>9. InOrder(c)'
  <2>1. \A i \in 1..Len(wire'[c]) : ~IsBlock(wire[c][i + 1]) /\ ~IsSuccess(wire[c][i + 1])
    <3> SUFFICES ASSUME NEW i \in 1..Len(wire'[c])
                 PROVE  ~IsBlock(wire[c][i + 1]) /\ ~IsSuccess(wire[c][i + 1])
      OBVIOUS
    <3>1. i + 1 \in 1..Len(wire[c]) /\ i \in Nat /\ i >= 1 /\ i + 1 = 2
      BY <1>6
    <3>2. i + 1 # 1
      BY <3>1
    <3>3. QED BY <1>2, <3>1, <3>2, CallOf DEF InOrder
  <2>2. QED BY <1>1, <1>6, <1>8, <2>1, CallOf DEF InOrder
<1>10. Sent(c)'
  <2>1. Len(wire[c]) # 0
    BY <1>6
  <2>2. server[c] \notin {"none", "reading"}
    BY <2>1, CallOf DEF Sent
  <2>3. server[c] # "sending"
    <3> SUFFICES ASSUME server[c] = "sending" PROVE FALSE
      OBVIOUS
    <3> DEFINE w == Len(wire[c])
               r == Len(responses[c])
    <3>1. w \in 1..2 /\ w + r = 1 /\ r \in Nat /\ w # 1
      BY <1>2, <1>6, CallOf, LenProperties DEF Sent, TypeOK
    <3> HIDE DEF w, r
    <3>2. QED BY <3>1
  <2>4. QED BY <1>1, <2>2, <2>3 DEF Sent
<1>11. QED
  BY <1>1, <1>3, <1>4, <1>5, <1>7, <1>9, <1>10, LeavesGuarded, StepOf DEF CallInv, orderer

LEMMA OnEndStep ==
    ASSUME Inv, NEW c \in Calls, OnEnd(c)
    PROVE  Inv'
<1>1. /\ wire[c] = <<>> /\ server[c] = "over" /\ stream[c] # "none"
      /\ timer' = [timer EXCEPT ![c] = FALSE] /\ stream' = [stream EXCEPT ![c] = "cancelled"]
      /\ UNCHANGED <<orderer, calling, responses, wire, server, silent>>
  BY DEF OnEnd
<1>2. \A d \in Calls \ {c} : Same(d)
  BY <1>1 DEF Inv, TypeOK, Same, calling
<1>3. TypeOK'
  BY <1>1 DEF Inv, TypeOK, orderer, calling
<1>4. stream'[c] = "cancelled" /\ pc[c] # "idle"
  BY <1>1, CallOf DEF TypeOK, Begun
<1>5. Begun(c)'
  BY <1>1, <1>4, CallOf DEF Begun, orderer, calling
<1>6. InOrder(c)' /\ Sent(c)'
  BY <1>1, CallOf DEF InOrder, Sent, Blocks, Contract!Blocks, orderer, calling
<1>7. StatusToCome(c)'
  BY <1>1, <1>4, CallOf DEF StatusToCome, calling
<1>8. Guarded(c)'
  <2>1. pc[c] = "waiting" => silent[c]
    <3> SUFFICES ASSUME pc[c] = "waiting", ~silent[c] PROVE FALSE
      OBVIOUS
    <3>1. PICK i \in 1..Len(wire[c]) : ~IsBlock(wire[c][i])
      BY <1>1, CallOf DEF StatusToCome
    <3>2. Len(wire[c]) = 0
      BY <1>1
    <3>3. QED BY <3>1, <3>2
  <2>2. QED BY <1>1, <1>4, <2>1 DEF Guarded, calling
<1>9. QED
  BY <1>1, <1>2, <1>3, <1>5, <1>6, <1>7, <1>8, StepOf DEF CallInv, orderer

\* Whatever fails a call, with its stream.
LEMMA FailStep ==
    ASSUME Inv, NEW c \in Calls, NEW t \in BOOLEAN, NEW s \in {server[c], "over"},
           pc[c] = "idle" => s = server[c],
           UNCHANGED <<orderer, asked, responses, wire, silent>>, Settle(c, Failed), End(c),
           timer' = [timer EXCEPT ![c] = t], server' = [server EXCEPT ![c] = s]
    PROVE  Inv'
<1>1. Leaves(c) /\ Closes(c)
  BY Settles, Ends
<1>2. \A d \in Calls \ {c} : Same(d)
  BY <1>1 DEF Inv, TypeOK, Same, Leaves, Closes
<1>3. TypeOK'
  <2>1. /\ timer' \in [Calls -> BOOLEAN]
        /\ server' \in [Calls -> {"none", "reading", "sending", "served", "broken", "over"}]
    BY DEF Inv, TypeOK
  <2>2. QED BY <1>1, <2>1 DEF Inv, TypeOK, Leaves, Closes, orderer
<1>4. server'[c] = s
  BY DEF Inv, TypeOK
<1>5. InOrder(c)'
  BY CallOf DEF InOrder, Blocks, Contract!Blocks, orderer
<1>6. Sent(c)'
  BY <1>4, CallOf DEF Sent
<1>7. QED
  BY <1>1, <1>2, <1>3, <1>4, <1>5, <1>6, LeavesGuarded, StepOf DEF CallInv, orderer

LEMMA OnErrorStep ==
    ASSUME Inv, NEW c \in Calls, OnError(c)
    PROVE  Inv'
<1>1. pc[c] # "idle"
  BY CallOf DEF OnError, Begun
<1>2. timer' = [timer EXCEPT ![c] = timer[c]] /\ timer[c] \in BOOLEAN
  BY DEF Inv, TypeOK, OnError
<1>3. QED BY <1>1, <1>2, FailStep DEF OnError

LEMMA OnTimeoutStep ==
    ASSUME Inv, NEW c \in Calls, OnTimeout(c)
    PROVE  Inv'
<1>1. server' = [server EXCEPT ![c] = server[c]]
  BY DEF Inv, TypeOK, OnTimeout
<1>2. QED BY <1>1, FailStep DEF OnTimeout
-----------------------------------------------------------------------------
\* The orderer.

\* An event has been put on the wire.
LEMMA Put ==
    ASSUME TypeOK, NEW c \in Calls, NEW e \in Events, Sends(c, e)
    PROVE  /\ Len(wire'[c]) = Len(wire[c]) + 1 /\ Len(wire[c]) \in Nat
           /\ wire' \in [Calls -> Seq(Events)] /\ \A d \in Calls \ {c} : wire'[d] = wire[d]
           /\ wire'[c][Len(wire[c]) + 1] = e
           /\ \A i \in 1..Len(wire[c]) : wire'[c][i] = wire[c][i]
<1>1. wire[c] \in Seq(Events)
  BY DEF TypeOK
<1>2. wire' = [wire EXCEPT ![c] = Append(wire[c], e)]
  BY DEF Sends
<1> DEFINE s == Append(wire[c], e)
<1>3. /\ s \in Seq(Events) /\ Len(s) = Len(wire[c]) + 1 /\ Len(wire[c]) \in Nat
      /\ s[Len(wire[c]) + 1] = e /\ \A i \in 1..Len(wire[c]) : s[i] = wire[c][i]
  BY <1>1, AppendProperties, LenProperties
<1> HIDE DEF s
<1>4. wire' = [wire EXCEPT ![c] = s]
  BY <1>2 DEF s
<1>5. wire'[c] = s /\ wire' \in [Calls -> Seq(Events)] /\ \A d \in Calls \ {c} : wire'[d] = wire[d]
  BY <1>3, <1>4 DEF TypeOK
<1>6. QED BY <1>3, <1>5

\* A step of the orderer for an attempt that has begun.
LEMMA OrdererStep ==
    ASSUME Inv, NEW c \in Calls, pc[c] # "idle",
           NEW s \in {"none", "reading", "sending", "served", "broken", "over"},
           server' = [server EXCEPT ![c] = s],
           UNCHANGED <<orderer, calling, timer, stream, responses>>,
           wire' \in [Calls -> Seq(Events)], silent' \in [Calls -> BOOLEAN],
           \A d \in Calls \ {c} : wire'[d] = wire[d] /\ silent'[d] = silent[d],
           silent[c] => silent'[c], Len(wire'[c]) + Len(responses[c]) <= 2,
           server'[c] = s => InOrder(c)' /\ Sent(c)' /\ StatusToCome(c)'
    PROVE  Inv'
<1>1. server'[c] = s /\ server' \in [Calls -> {"none", "reading", "sending", "served", "broken", "over"}]
  BY DEF Inv, TypeOK
<1>2. \A d \in Calls \ {c} : Same(d)
  BY DEF Inv, TypeOK, Same, calling
<1>3. TypeOK'
  <2>1. \A d \in Calls \ {c} : Len(wire'[d]) + Len(responses'[d]) <= 2
    BY <1>2 DEF Inv, TypeOK, Same
  <2>2. QED BY <1>1, <2>1 DEF Inv, TypeOK, orderer, calling
<1>4. Begun(c)' /\ Guarded(c)'
  BY CallOf DEF Begun, Guarded, orderer, calling
<1>5. QED
  BY <1>1, <1>2, <1>3, <1>4, StepOf DEF CallInv, orderer

LEMMA SeekStep ==
    ASSUME Inv, NEW c \in Calls, Seek(c)
    PROVE  Inv'
<1> DEFINE e == [type |-> "block", block |-> Position(c)]
<1>1. pc[c] # "idle" /\ server[c] = "reading"
  BY CallOf DEF Seek, Begun
<1>2. /\ Sends(c, e) /\ server' = [server EXCEPT ![c] = "sending"]
      /\ UNCHANGED <<orderer, calling, timer, stream, responses, silent>>
  BY DEF Seek
<1>3. Position(c) \in BlockNumbers /\ Position(c) \in Blocks(c)
  <2>1. /\ height \in BlockNumbers /\ asked[c] \in BlockNumbers /\ asked[c] <= height
        /\ Position(c) <= height
    BY CallOf DEF TypeOK, Begun, Seek, Serves
  <2>2. CASE Wanted[c] = Newest
    BY <2>1, <2>2, BlocksAre DEF Position, BlockNumbers
  <2>3. CASE Wanted[c] # Newest
    <3>1. Wanted[c] \in Nat /\ Position(c) = Wanted[c]
      BY <2>3, OrdererDeliverAssumption DEF Position
    <3>2. QED BY <2>1, <2>3, <3>1, BlocksAre, OrdererDeliverAssumption DEF BlockNumbers
  <2>4. QED BY <2>2, <2>3
<1>4. e \in Events /\ IsBlock(e) /\ ~IsSuccess(e) /\ e.block \in Blocks(c)
  BY <1>3 DEF Events, IsBlock, IsSuccess
<1> HIDE DEF e
<1>5. /\ wire' \in [Calls -> Seq(Events)] /\ \A d \in Calls \ {c} : wire'[d] = wire[d]
      /\ Len(wire'[c]) = 1 /\ wire'[c][1] = e /\ Len(responses[c]) = 0
  <2>1. Len(wire[c]) = 0 /\ Len(responses[c]) = 0
    BY <1>1, CallOf DEF Sent
  <2>2. /\ Len(wire'[c]) = Len(wire[c]) + 1 /\ wire'[c][Len(wire[c]) + 1] = e
        /\ wire' \in [Calls -> Seq(Events)] /\ \A d \in Calls \ {c} : wire'[d] = wire[d]
    BY <1>2, <1>4, Put DEF Inv
  <2>3. QED BY <2>1, <2>2
<1>6. Blocks(c)' = Blocks(c)
  BY <1>2 DEF Blocks, Contract!Blocks, orderer, calling
<1>7. InOrder(c)'
  BY <1>2, <1>4, <1>5, <1>6 DEF InOrder
<1>8. server'[c] = "sending" => Sent(c)' /\ StatusToCome(c)'
  <2>1. Len(wire'[c]) + Len(responses'[c]) = 1 /\ IsBlock(wire'[c][1])
    BY <1>2, <1>4, <1>5
  <2>2. QED BY <1>2, <2>1, CallOf DEF Sent, StatusToCome, calling
<1>9. Len(wire'[c]) + Len(responses[c]) <= 2
  BY <1>5
<1>10. QED
  BY <1>1, <1>2, <1>5, <1>7, <1>8, <1>9, OrdererStep DEF Inv, TypeOK

LEMMA SeekFailsStep ==
    ASSUME Inv, NEW c \in Calls, SeekFails(c)
    PROVE  Inv'
<1>1. pc[c] # "idle" /\ server[c] = "reading"
  BY CallOf DEF SeekFails, Begun
<1>2. PICK s \in {"FORBIDDEN", "UNIMPLEMENTED", "SERVICE_UNAVAILABLE", "NOT_FOUND"} :
      /\ Sends(c, Status(s)) /\ server' = [server EXCEPT ![c] = "over"]
      /\ UNCHANGED <<orderer, calling, timer, stream, responses, silent>>
  BY DEF SeekFails
<1> DEFINE e == Status(s)
<1>3. e \in Events /\ ~IsBlock(e) /\ ~IsSuccess(e)
  BY DEF Status, Events, IsBlock, IsSuccess
<1> HIDE DEF e
<1>4. Sends(c, e)
  BY <1>2 DEF e
<1>5. /\ wire' \in [Calls -> Seq(Events)] /\ \A d \in Calls \ {c} : wire'[d] = wire[d]
      /\ Len(wire'[c]) = 1 /\ wire'[c][1] = e /\ Len(responses[c]) = 0
  <2>1. Len(wire[c]) = 0 /\ Len(responses[c]) = 0
    BY <1>1, CallOf DEF Sent
  <2>2. /\ Len(wire'[c]) = Len(wire[c]) + 1 /\ wire'[c][Len(wire[c]) + 1] = e
        /\ wire' \in [Calls -> Seq(Events)] /\ \A d \in Calls \ {c} : wire'[d] = wire[d]
    BY <1>3, <1>4, Put DEF Inv
  <2>3. QED BY <2>1, <2>2
<1>6. InOrder(c)'
  BY <1>2, <1>3, <1>5 DEF InOrder
<1>7. server'[c] = "over" => Sent(c)' /\ StatusToCome(c)'
  <2>1. 1 \in 1..Len(wire'[c]) /\ ~IsBlock(wire'[c][1])
    BY <1>3, <1>5
  <2>2. QED BY <1>2, <2>1, CallOf DEF Sent, StatusToCome, calling
<1>8. Len(wire'[c]) + Len(responses[c]) <= 2
  BY <1>5
<1>9. QED
  BY <1>1, <1>2, <1>5, <1>6, <1>7, <1>8, OrdererStep DEF Inv, TypeOK

LEMMA SeekSucceedsStep ==
    ASSUME Inv, NEW c \in Calls, SeekSucceeds(c)
    PROVE  Inv'
<1> DEFINE e == Status("SUCCESS")
<1>1. pc[c] # "idle" /\ server[c] = "sending"
  BY CallOf DEF SeekSucceeds, Begun
<1>2. /\ Sends(c, e) /\ server' = [server EXCEPT ![c] = "served"]
      /\ UNCHANGED <<orderer, calling, timer, stream, responses, silent>>
  BY DEF SeekSucceeds
<1>3. e \in Events /\ ~IsBlock(e)
  BY DEF Status, Events, IsBlock
<1> HIDE DEF e
<1> DEFINE w == Len(wire[c])
           v == Len(wire'[c])
           r == Len(responses[c])
<1>4. /\ wire' \in [Calls -> Seq(Events)] /\ \A d \in Calls \ {c} : wire'[d] = wire[d]
      /\ v = w + 1 /\ w \in Nat /\ wire'[c][w + 1] = e /\ \A i \in 1..w : wire'[c][i] = wire[c][i]
  BY <1>2, <1>3, Put DEF Inv
<1>5. w + r = 1 /\ r \in Nat /\ (w = 1 => IsBlock(wire[c][1]))
  BY <1>1, CallOf, LenProperties DEF Sent, TypeOK
<1>6. \A i \in 1..w : /\ IsBlock(wire[c][i]) => i = 1 /\ r = 0 /\ wire[c][i].block \in Blocks(c)
                      /\ IsSuccess(wire[c][i]) => r + i = 2 /\ (i = 2 => IsBlock(wire[c][1]))
  BY CallOf DEF InOrder
<1>7. \A i \in 1..r : responses[c][i] \in Blocks(c)
  BY CallOf DEF InOrder
<1> HIDE DEF w, v, r
<1>8. Blocks(c)' = Blocks(c)
  BY <1>2 DEF Blocks, Contract!Blocks, orderer, calling
<1>9. \A i \in 1..v : /\ IsBlock(wire'[c][i]) => i = 1 /\ r = 0 /\ wire'[c][i].block \in Blocks(c)
                      /\ IsSuccess(wire'[c][i]) => r + i = 2 /\ (i = 2 => IsBlock(wire'[c][1]))
  <2> SUFFICES ASSUME NEW i \in 1..v
               PROVE  /\ IsBlock(wire'[c][i]) => i = 1 /\ r = 0 /\ wire'[c][i].block \in Blocks(c)
                      /\ IsSuccess(wire'[c][i]) => r + i = 2 /\ (i = 2 => IsBlock(wire'[c][1]))
    OBVIOUS
  <2>1. CASE i = w + 1
    <3>1. wire'[c][i] = e /\ r + i = 2
      BY <1>4, <1>5, <2>1
    <3>2. i = 2 => IsBlock(wire'[c][1])
      BY <1>4, <1>5, <2>1
    <3>3. QED BY <1>3, <3>1, <3>2
  <2>2. CASE i # w + 1
    <3>1. i \in 1..w /\ wire'[c][i] = wire[c][i] /\ i = 1
      BY <1>4, <1>5, <2>2
    <3>2. QED BY <1>4, <1>6, <3>1
  <2>3. QED BY <2>1, <2>2
<1>10. InOrder(c)'
  BY <1>2, <1>7, <1>8, <1>9 DEF InOrder, v, r
<1>11. server'[c] = "served" => Sent(c)' /\ StatusToCome(c)'
  BY <1>2, CallOf DEF Sent, StatusToCome, calling
<1>12. v + r <= 2
  BY <1>4, <1>5
<1>13. Len(wire'[c]) + Len(responses[c]) <= 2
  BY <1>12 DEF v, r
<1>14. QED
  BY <1>1, <1>2, <1>4, <1>10, <1>11, <1>13, OrdererStep DEF Inv, TypeOK

\* The orderer is done with an attempt, or the stream breaks.
LEMMA GoneStep ==
    ASSUME Inv, NEW c \in Calls, OrdererEnds(c) \/ EndsSilently(c) \/ StreamBreaks(c)
    PROVE  Inv'
<1>1. PICK s \in {"broken", "over"} :
      /\ server' = [server EXCEPT ![c] = s]
      /\ s = "over" /\ pc[c] = "waiting" => silent' = [silent EXCEPT ![c] = TRUE]
      /\ silent' = silent \/ silent' = [silent EXCEPT ![c] = TRUE]
  BY CallOf DEF OrdererEnds, EndsSilently, StreamBreaks, StatusToCome
<1>2. pc[c] # "idle" /\ UNCHANGED <<orderer, calling, timer, stream, responses, wire>>
  BY CallOf DEF OrdererEnds, EndsSilently, StreamBreaks, Begun
<1>3. InOrder(c)'
  BY <1>2, CallOf DEF InOrder, Blocks, Contract!Blocks, orderer, calling
<1>4. server'[c] = s => Sent(c)' /\ StatusToCome(c)'
  BY <1>1, <1>2, CallOf DEF Sent, StatusToCome, calling, TypeOK
<1>5. /\ silent' \in [Calls -> BOOLEAN] /\ \A d \in Calls \ {c} : silent'[d] = silent[d]
      /\ silent[c] => silent'[c]
  BY <1>1 DEF Inv, TypeOK
<1>6. QED BY <1>1, <1>2, <1>3, <1>4, <1>5, OrdererStep DEF Inv, TypeOK

\* A block more, or the channel served or no longer.
LEMMA ChannelStep ==
    ASSUME Inv, NewBlock \/ Availability
    PROVE  Inv'
<1>1. /\ UNCHANGED <<calling, timer, stream, responses, wire, server, silent>>
      /\ height' \in BlockNumbers /\ height' >= height /\ available' \in BOOLEAN
  <2>1. height \in 0..MaxHeight /\ MaxHeight \in Nat /\ available \in BOOLEAN
    BY OrdererDeliverAssumption DEF Inv, TypeOK, BlockNumbers
  <2>2. CASE NewBlock
    BY <2>1, <2>2 DEF NewBlock, BlockNumbers
  <2>3. CASE Availability
    BY <2>1, <2>3 DEF Availability, BlockNumbers
  <2>4. QED BY <2>2, <2>3
<1>2. \A c \in Calls : Same(c)
  BY <1>1 DEF Same, calling
<1>3. TypeOK'
  BY <1>1 DEF Inv, TypeOK, calling
<1>4. \A c \in Calls : CallInv(c)'
  BY <1>1, <1>2, Undisturbed DEF Inv, BlockNumbers
<1>5. QED BY <1>3, <1>4 DEF Inv

LEMMA Initially ==
    ASSUME Init
    PROVE  Inv
<1>1. TypeOK
  BY OrdererDeliverAssumption DEF Init, TypeOK, BlockNumbers
<1>2. \A c \in Calls : CallInv(c)
  <2> SUFFICES ASSUME NEW c \in Calls PROVE CallInv(c)
    OBVIOUS
  <2>1. Len(responses[c]) = 0 /\ Len(wire[c]) = 0
    BY DEF Init
  <2>2. InOrder(c) /\ Sent(c)
    BY <2>1 DEF InOrder, Sent, Init
  <2>3. Begun(c) /\ StatusToCome(c) /\ Guarded(c)
    BY DEF Init, Begun, StatusToCome, Guarded
  <2>4. QED BY <2>2, <2>3 DEF CallInv
<1>3. QED BY <1>1, <1>2 DEF Inv

LEMMA Inductive ==
    ASSUME Inv, [Next]_vars
    PROVE  Inv'
<1>1. CASE \E c \in Calls : GetSpecificBlock(c) \/ Client(c) \/ Orderer(c)
  <2>1. PICK c \in Calls : GetSpecificBlock(c) \/ Client(c) \/ Orderer(c)
    BY <1>1
  <2>2. CASE GetSpecificBlock(c) \/ SendTry(c)
    BY <2>2, SendDeliverStep
  <2>3. CASE OnBlock(c)
    BY <2>3, OnBlockStep
  <2>4. CASE OnStatus(c)
    BY <2>4, OnStatusStep
  <2>5. CASE OnEnd(c)
    BY <2>5, OnEndStep
  <2>6. CASE OnError(c)
    BY <2>6, OnErrorStep
  <2>7. CASE OnTimeout(c)
    BY <2>7, OnTimeoutStep
  <2>8. CASE Seek(c)
    BY <2>8, SeekStep
  <2>9. CASE SeekFails(c)
    BY <2>9, SeekFailsStep
  <2>10. CASE SeekSucceeds(c)
    BY <2>10, SeekSucceedsStep
  <2>11. CASE OrdererEnds(c) \/ EndsSilently(c) \/ StreamBreaks(c)
    BY <2>11, GoneStep
  <2>12. QED
    BY <2>1, <2>2, <2>3, <2>4, <2>5, <2>6, <2>7, <2>8, <2>9, <2>10, <2>11 DEF Client, Orderer
<1>2. CASE NewBlock \/ Availability
  BY <1>2, ChannelStep
<1>3. CASE UNCHANGED vars
  <2>1. UNCHANGED <<orderer, calling, timer, stream, responses, wire, server, silent>>
    BY <1>3 DEF vars
  <2>2. TypeOK' /\ \A c \in Calls : Same(c)
    BY <2>1 DEF Inv, TypeOK, Same, orderer, calling
  <2>3. height' \in Nat /\ height' >= height
    BY <2>1 DEF Inv, TypeOK, BlockNumbers, orderer
  <2>4. \A c \in Calls : CallInv(c)'
    BY <2>2, <2>3, Undisturbed DEF Inv
  <2>5. QED BY <2>2, <2>4 DEF Inv
<1>4. QED BY <1>1, <1>2, <1>3 DEF Next

\* What sendDeliver and the handlers of its stream rely on holds throughout.
THEOREM Invariant == Spec => []Inv
<1>1. Init => Inv
  BY Initially
<1>2. Inv /\ [Next]_vars => Inv'
  BY Inductive
<1>3. QED BY <1>1, <1>2, PTL DEF Spec

\* A call of getSpecificBlock is answered with a block or a failure, never with
\* undefined as responses[0] of an empty array would be: sendDeliver's status
\* handler takes the first of the blocks only when one has come.  And no stream
\* carries more than a block and a status.
THEOREM TypeCorrect == Spec => []TypeOK
<1>1. Inv => TypeOK
  BY DEF Inv
<1>2. QED BY <1>1, Invariant, PTL

\* While the promise of sendDeliver is open its timer is set, or onEnd cleared
\* it after a stream without status; once it is settled the stream is closed,
\* whichever of data, error and timeout came first.
THEOREM AttemptsGuarded == Spec => []AttemptGuarded
<1>1. Inv => AttemptGuarded
  BY DEF Inv, CallInv, Guarded, AttemptGuarded
<1>2. QED BY <1>1, Invariant, PTL
-----------------------------------------------------------------------------
\* A call that ends its wait: an answer of the contract, or none yet.
LEMMA LeavesRefines ==
    ASSUME Inv, NEW c \in Calls, Leaves(c), UNCHANGED <<height, asked>>,
           answer'[c] \in {answer[c], Failed} \cup Blocks(c)
    PROVE  [Contract!Next]_(Contract!vars)
<1>1. answer' = [answer EXCEPT ![c] = answer'[c]]
  BY DEF Inv, TypeOK, Leaves
<1>2. CASE answer'[c] = answer[c]
  <2>1. answer' = answer
    BY <1>1, <1>2 DEF Inv, TypeOK
  <2>2. QED BY <2>1 DEF Contract!vars
<1>3. CASE answer'[c] # answer[c]
  <2>1. answer[c] = NoAnswer
    BY <1>3, CallOf DEF Leaves, Begun
  <2>2. Contract!Answer(c, answer'[c]) /\ answer'[c] \in {Failed} \cup Blocks(c)
    BY <1>1, <1>3, <2>1 DEF Contract!Answer
  <2>3. Contract!Next
    BY <2>2 DEF Contract!Next, Blocks
  <2>4. QED BY <2>3
<1>4. QED BY <1>2, <1>3

LEMMA SettleRefines ==
    ASSUME Inv, NEW c \in Calls, UNCHANGED <<height, asked>>,
           NEW a \in {Failed} \cup Blocks(c), a \in BlockNumbers \cup {Failed}, Settle(c, a)
    PROVE  [Contract!Next]_(Contract!vars)
<1>1. answer'[c] \in {answer[c], a}
  BY DEF Inv, TypeOK, Settle
<1>2. QED BY <1>1, Settles, LeavesRefines

LEMMA OnStatusRefines ==
    ASSUME Inv, NEW c \in Calls, OnStatus(c)
    PROVE  [Contract!Next]_(Contract!vars)
<1>1. UNCHANGED <<height, asked>>
  BY DEF OnStatus, orderer
<1>2. CASE pc' = [pc EXCEPT ![c] = "sleeping"] /\ UNCHANGED answer
  BY <1>1, <1>2 DEF Contract!vars
<1>3. CASE Settle(c, Failed)
  BY <1>1, <1>3, SettleRefines
<1>4. CASE Head(wire[c]).status = "SUCCESS"
  <2>1. Head(responses[c]) \in Blocks(c) /\ Head(responses[c]) \in BlockNumbers /\ responses[c] # <<>>
    BY <1>4, SuccessAfterBlock DEF OnStatus, Comes
  <2>2. Settle(c, Head(responses[c]))
    BY <1>4, <2>1 DEF OnStatus
  <2>3. QED BY <1>1, <2>1, <2>2, SettleRefines
<1>5. QED BY <1>2, <1>3, <1>4 DEF OnStatus

LEMMA StepRefines ==
    ASSUME Inv, [Next]_vars
    PROVE  [Contract!Next]_(Contract!vars)
<1>1. CASE \E c \in Calls : GetSpecificBlock(c) \/ Client(c) \/ Orderer(c)
  <2>1. PICK c \in Calls : GetSpecificBlock(c) \/ Client(c) \/ Orderer(c)
    BY <1>1
  <2>2. CASE GetSpecificBlock(c)
    <3>1. answer[c] = NoAnswer /\ UNCHANGED <<height, answer>>
      BY <2>2, CallOf DEF Begun, GetSpecificBlock, SendDeliver, orderer
    <3>2. Contract!Begin(c)
      BY <2>2, <3>1 DEF GetSpecificBlock, Contract!Begin
    <3>3. QED BY <3>2 DEF Contract!Next
  <2>3. CASE OnStatus(c)
    BY <2>3, OnStatusRefines
  <2>4. CASE OnError(c) \/ OnTimeout(c)
    <3>1. UNCHANGED <<height, asked>> /\ Settle(c, Failed)
      BY <2>4 DEF OnError, OnTimeout, orderer
    <3>2. QED BY <3>1, SettleRefines
  <2>5. CASE SendTry(c) \/ OnBlock(c) \/ OnEnd(c)
    BY <2>5 DEF SendTry, SendDeliver, OnBlock, OnEnd, orderer, calling, Contract!vars
  <2>6. CASE Orderer(c)
    BY <2>6 DEF Orderer, Seek, SeekFails, SeekSucceeds, OrdererEnds, EndsSilently, StreamBreaks,
                orderer, calling, Contract!vars
  <2>7. QED BY <2>1, <2>2, <2>3, <2>4, <2>5, <2>6 DEF Client
<1>2. CASE NewBlock
  BY <1>2 DEF NewBlock, calling, Contract!Next, Contract!NewBlock
<1>3. CASE Availability
  BY <1>3 DEF Availability, calling, Contract!vars
<1>4. CASE UNCHANGED vars
  BY <1>4 DEF vars, orderer, calling, Contract!vars
<1>5. QED BY <1>1, <1>2, <1>3, <1>4 DEF Next

\* getSpecificBlock keeps its contract: whatever timeouts, broken streams and
\* tries of sendDeliver came before, a call is answered at most once, and with
\* the block it asked for, the newest of a time of the call if it asked for that.
THEOREM Refinement == Spec => ImplementsBlockRead
<1>1. Init => Contract!Init
  BY DEF Init, Contract!Init
<1>2. Inv /\ [Next]_vars => [Contract!Next]_(Contract!vars)
  BY StepRefines
<1>3. QED BY <1>1, <1>2, Invariant, PTL DEF Spec, ImplementsBlockRead, Contract!Spec
=============================================================================

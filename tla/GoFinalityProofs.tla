-------------------------- MODULE GoFinalityProofs --------------------------
(***************************************************************************)
(* Proofs about GoFinality, for any transactions, committers, listeners    *)
(* and number of other blocks.                                             *)
(***************************************************************************)
EXTENDS GoFinality, SequenceTheorems, FiniteSetTheorems, TLAPS

In(s) == {s[i] : i \in 1..Len(s)}

Once(s) == \A i, j \in 1..Len(s) : s[i] = s[j] => i = j

LEMMA InAppend ==
    ASSUME NEW s \in Seq(Txs), NEW t \in Txs
    PROVE  /\ Append(s, t) \in Seq(Txs) /\ Len(Append(s, t)) = Len(s) + 1
           /\ In(Append(s, t)) = In(s) \cup {t}
           /\ Once(s) /\ t \notin In(s) => Once(Append(s, t))
<1>1. /\ Append(s, t) \in Seq(Txs) /\ Len(Append(s, t)) = Len(s) + 1
      /\ \A i \in 1..Len(s) : Append(s, t)[i] = s[i]
      /\ Append(s, t)[Len(s) + 1] = t
  BY AppendProperties
<1>2. Len(s) \in Nat
  OBVIOUS
<1> DEFINE a == Append(s, t)
<1> HIDE DEF a
<1>3. /\ a \in Seq(Txs) /\ Len(a) = Len(s) + 1
      /\ \A i \in 1..Len(s) : a[i] = s[i]
      /\ a[Len(s) + 1] = t
  BY <1>1 DEF a
<1>4. In(a) = In(s) \cup {t}
  BY <1>2, <1>3 DEF In
<1>5. Once(s) /\ t \notin In(s) => Once(a)
  BY <1>2, <1>3 DEF In, Once
<1>6. QED BY <1>3, <1>4, <1>5 DEF a

LEMMA InTail ==
    ASSUME NEW s \in Seq(Txs), s # <<>>
    PROVE  /\ Tail(s) \in Seq(Txs) /\ Len(Tail(s)) = Len(s) - 1
           /\ Head(s) \in Txs /\ Head(s) \in In(s)
           /\ In(Tail(s)) \subseteq In(s)
           /\ In(s) = In(Tail(s)) \cup {Head(s)}
           /\ Once(s) => Once(Tail(s)) /\ Head(s) \notin In(Tail(s))
<1>1. /\ Tail(s) \in Seq(Txs) /\ Len(Tail(s)) = Len(s) - 1
      /\ \A i \in 1..Len(Tail(s)) : Tail(s)[i] = s[i + 1]
      /\ Head(s) = s[1] /\ Len(s) \in Nat /\ Len(s) > 0
  BY HeadTailProperties
<1> DEFINE a == Tail(s)
<1> HIDE DEF a
<1>2. /\ a \in Seq(Txs) /\ Len(a) = Len(s) - 1 /\ \A i \in 1..Len(a) : a[i] = s[i + 1]
  BY <1>1 DEF a
<1>3. Head(s) \in Txs /\ Head(s) \in In(s)
  BY <1>1 DEF In
<1>4. In(a) \subseteq In(s)
  BY <1>1, <1>2 DEF In
<1>5. ASSUME NEW i \in 1..Len(s) PROVE s[i] \in In(a) \cup {Head(s)}
  <2>1. CASE i = 1
    BY <1>1, <2>1
  <2>2. CASE i # 1
    <3>1. i - 1 \in 1..Len(a) /\ a[i - 1] = s[i]
      BY <1>1, <1>2, <2>2
    <3>2. QED BY <3>1 DEF In
  <2>3. QED BY <2>1, <2>2
<1>6. In(s) = In(a) \cup {Head(s)}
  BY <1>3, <1>4, <1>5 DEF In
<1>7. Once(s) => Once(a) /\ Head(s) \notin In(a)
  BY <1>1, <1>2 DEF In, Once
<1>8. QED BY <1>2, <1>3, <1>4, <1>6, <1>7 DEF a

LEMMA InPrefix ==
    ASSUME NEW s \in Seq(Txs), NEW n \in 0..Len(s)
    PROVE  /\ SubSeq(s, 1, n) \in Seq(Txs)
           /\ In(SubSeq(s, 1, n)) \subseteq In(s)
           /\ Once(s) => Once(SubSeq(s, 1, n))
<1> DEFINE a == SubSeq(s, 1, n)
<1>1. a \in Seq(Txs) /\ Len(a) = n /\ \A i \in 1..n : a[i] = s[i]
  OBVIOUS
<1> HIDE DEF a
<1>2. 1..n \subseteq 1..Len(s)
  OBVIOUS
<1>3. In(a) \subseteq In(s) /\ (Once(s) => Once(a))
  BY <1>1, <1>2 DEF In, Once
<1>4. QED BY <1>1, <1>3 DEF a

LEMMA InSeq ==
    ASSUME NEW s \in Seq(Txs)
    PROVE  In(s) \subseteq Txs
BY ElementOfSeq DEF In
-----------------------------------------------------------------------------
Typed ==
    /\ sending \in [Txs -> {"idle", "sent", "done", "failed"}]
    /\ broken \subseteq Committers
    /\ answer \in [Txs -> SUBSET Txs]
    /\ queue \in [Committers -> Seq(Txs)] /\ replies \in [Committers -> Seq(Txs)]
    /\ accepted \subseteq Txs /\ valid \subseteq Txs
    /\ chain \in Seq([txs : SUBSET Txs, odd : BOOLEAN])
    /\ waiting \in [Txs -> {"idle", "receiving", "done", "panicked"}]
    /\ verdict \in [Txs -> {"none", "valid", "invalid", "ended"}]
    /\ stream \in [Listeners -> {"open", "sought", "serving", "broken"}]
    /\ next \in [Listeners -> Nat]
    /\ Len(chain) > 0 /\ \A l \in Listeners : next[l] <= Len(chain)

\* An envelope is in one place, on its way to the orderer, into a block, or there.
OnItsWay ==
    \A c \in Committers :
        /\ Once(queue[c])
        /\ \A t \in In(queue[c]) :
              CommitterOf[t] = c /\ sending[t] # "idle" /\ t \notin accepted /\ ~Ordered(t)
OnceAccepted == \A t \in Txs : t \in accepted => sending[t] # "idle" /\ ~Ordered(t)
OnceOrdered == \A t \in Txs : Ordered(t) => sending[t] # "idle"

LedgerInv == Typed /\ OnItsWay /\ OnceAccepted /\ OnceOrdered /\ VerdictIsOwn

\* A block appended to the chain orders its transactions.
LEMMA ChainGrows ==
    ASSUME Typed, NEW b \in [txs : SUBSET Txs, odd : BOOLEAN], chain' = Append(chain, b)
    PROVE  /\ chain' \in Seq([txs : SUBSET Txs, odd : BOOLEAN])
           /\ Len(chain') = Len(chain) + 1
           /\ \A t \in Txs : Ordered(t)' <=> Ordered(t) \/ t \in b.txs
<1>1. /\ chain' \in Seq([txs : SUBSET Txs, odd : BOOLEAN])
      /\ Len(chain') = Len(chain) + 1
      /\ \A i \in 1..Len(chain) : chain'[i] = chain[i]
      /\ chain'[Len(chain) + 1] = b
  BY AppendProperties DEF Typed
<1>2. Len(chain) \in Nat
  BY DEF Typed
<1>3. QED BY <1>1, <1>2 DEF Ordered

LEMMA QueuedTxs ==
    ASSUME Typed
    PROVE  \A d \in Committers : \A u \in In(queue[d]) : u \in Txs
<1>1. \A d \in Committers : queue[d] \in Seq(Txs)
  BY DEF Typed
<1>2. QED BY <1>1, InSeq

\* The steps of broadcasts and of the ledger.
LEMMA LedgerStep ==
    ASSUME LedgerInv, [Next]_vars
    PROVE  Typed' /\ OnItsWay' /\ OnceAccepted' /\ OnceOrdered'
<1> USE GoFinalityAssumption DEF LedgerInv
<1>1. ASSUME NEW t \in Txs, Send(t) PROVE Typed' /\ OnItsWay' /\ OnceAccepted' /\ OnceOrdered'
  <2> DEFINE c == CommitterOf[t]
  <2>1. /\ sending[t] = "idle" /\ c \in Committers
        /\ queue' = [queue EXCEPT ![c] = Append(queue[c], t)]
        /\ sending' = [sending EXCEPT ![t] = "sent"]
        /\ UNCHANGED <<answer, replies, broken, ledger, listening>>
    BY <1>1 DEF Send
  <2>2. t \notin In(queue[c])
    BY <2>1 DEF OnItsWay
  <2>3. /\ queue'[c] \in Seq(Txs) /\ In(queue'[c]) = In(queue[c]) \cup {t} /\ Once(queue'[c])
        /\ \A d \in Committers \ {c} : queue'[d] = queue[d]
        /\ queue' \in [Committers -> Seq(Txs)]
    BY <2>1, <2>2, InAppend DEF OnItsWay, Typed
  <2> HIDE DEF c
  <2>4. Typed'
    BY <2>1, <2>3 DEF Typed, ledger, listening
  <2>5. /\ \A u \in Txs : sending[u] # "idle" => sending'[u] # "idle"
        /\ sending'[t] # "idle" /\ t \notin accepted /\ ~Ordered(t)
    BY <2>1 DEF Typed, OnceAccepted, OnceOrdered
  <2>6. \A u \in Txs : Ordered(u)' <=> Ordered(u)
    BY <2>1 DEF ledger, Ordered
  <2>7. OnItsWay'
    <3>1. CommitterOf[t] = c
      BY DEF c
    <3>2. \A d \in Committers : \A u \in In(queue[d]) : u \in Txs
      BY QueuedTxs
    <3>3. QED BY <2>1, <2>3, <2>5, <2>6, <3>1, <3>2 DEF OnItsWay, ledger
  <2>8. OnceAccepted' /\ OnceOrdered'
    BY <2>1, <2>5, <2>6 DEF OnceAccepted, OnceOrdered, ledger
  <2>9. QED BY <2>4, <2>7, <2>8
<1>2. ASSUME NEW t \in Txs, Recv(t) PROVE Typed' /\ OnItsWay' /\ OnceAccepted' /\ OnceOrdered'
  <2> DEFINE c == CommitterOf[t]
  <2>1. /\ replies[c] # <<>> /\ replies[c] \in Seq(Txs) /\ c \in Committers
        /\ answer' = [answer EXCEPT ![t] = {Head(replies[c])}]
        /\ replies' = [replies EXCEPT ![c] = Tail(@)]
        /\ sending' = [sending EXCEPT ![t] = "done"]
        /\ UNCHANGED <<queue, broken, ledger, listening>>
    BY <1>2 DEF Recv, Typed
  <2>2. Tail(replies[c]) \in Seq(Txs) /\ Head(replies[c]) \in Txs
    BY <2>1, InTail
  <2>3. Typed'
    BY <2>1, <2>2 DEF Typed, ledger, listening
  <2>4. /\ \A u \in Txs : sending[u] # "idle" => sending'[u] # "idle"
        /\ \A u \in Txs : Ordered(u)' <=> Ordered(u)
    BY <2>1 DEF Typed, ledger, Ordered
  <2>5. OnItsWay'
    BY <2>1, <2>4, QueuedTxs DEF OnItsWay, ledger
  <2>6. OnceAccepted' /\ OnceOrdered'
    BY <2>1, <2>4 DEF OnceAccepted, OnceOrdered, ledger
  <2>7. QED BY <2>3, <2>5, <2>6
<1>3. ASSUME NEW c \in Committers, NEW takes \in BOOLEAN, OrdererReads(c, takes)
      PROVE  Typed' /\ OnItsWay' /\ OnceAccepted' /\ OnceOrdered'
  <2> DEFINE h == Head(queue[c])
  <2>1. /\ queue[c] # <<>> /\ queue[c] \in Seq(Txs) /\ replies[c] \in Seq(Txs)
        /\ queue' = [queue EXCEPT ![c] = Tail(queue[c])]
        /\ replies' = [replies EXCEPT ![c] = Append(@, h)]
        /\ accepted' \in {accepted, accepted \cup {h}}
        /\ UNCHANGED <<sending, answer, broken, chain, valid, listening>>
    BY <1>3 DEF OrdererReads, Typed
  <2>2. /\ Tail(queue[c]) \in Seq(Txs) /\ h \in Txs /\ h \in In(queue[c])
        /\ In(Tail(queue[c])) \subseteq In(queue[c]) /\ h \notin In(Tail(queue[c])) /\ Once(Tail(queue[c]))
        /\ Append(replies[c], h) \in Seq(Txs)
    BY <2>1, InTail, InAppend DEF OnItsWay
  <2>3. Typed'
    BY <2>1, <2>2 DEF Typed, listening
  <2>4. /\ sending[h] # "idle" /\ ~Ordered(h) /\ CommitterOf[h] = c
        /\ \A u \in Txs : Ordered(u)' <=> Ordered(u)
    BY <2>1, <2>2 DEF OnItsWay, Ordered
  <2>5. /\ queue'[c] = Tail(queue[c]) /\ \A d \in Committers \ {c} : queue'[d] = queue[d]
    BY <2>1 DEF Typed
  <2> HIDE DEF h
  <2>6. OnItsWay'
    <3>1. \A d \in Committers : Once(queue'[d]) /\ In(queue'[d]) \subseteq In(queue[d]) /\ h \notin In(queue'[d])
      BY <2>2, <2>4, <2>5 DEF OnItsWay
    <3>2. ASSUME NEW d \in Committers, NEW t \in In(queue'[d])
          PROVE  CommitterOf[t] = d /\ sending'[t] # "idle" /\ t \notin accepted' /\ ~Ordered(t)'
      <4>1. t \in In(queue[d]) /\ t # h
        BY <3>1
      <4>2. t \in Txs
        BY <4>1, QueuedTxs
      <4>3. CommitterOf[t] = d /\ sending[t] # "idle" /\ t \notin accepted /\ ~Ordered(t)
        BY <4>1 DEF OnItsWay
      <4>4. QED BY <2>1, <2>4, <4>1, <4>2, <4>3
    <3>3. QED BY <3>1, <3>2 DEF OnItsWay
  <2>7. QED BY <2>1, <2>3, <2>4, <2>6 DEF OnceAccepted, OnceOrdered
<1>4. ASSUME NEW txs \in SUBSET Txs, Order(txs) PROVE Typed' /\ OnItsWay' /\ OnceAccepted' /\ OnceOrdered'
  <2> DEFINE b == [txs |-> txs, odd |-> FALSE]
  <2>1. /\ txs \subseteq accepted /\ accepted' = accepted \ txs /\ chain' = Append(chain, b)
        /\ UNCHANGED <<broadcasting, listening>>
    BY <1>4 DEF Order
  <2>2. valid' \subseteq Txs
    BY <1>4 DEF Order, Typed
  <2>3. /\ chain' \in Seq([txs : SUBSET Txs, odd : BOOLEAN]) /\ Len(chain') = Len(chain) + 1
        /\ \A t \in Txs : Ordered(t)' <=> Ordered(t) \/ t \in txs
    <3>1. b \in [txs : SUBSET Txs, odd : BOOLEAN] /\ b.txs = txs
      OBVIOUS
    <3> HIDE DEF b
    <3>2. QED BY <2>1, <3>1, ChainGrows
  <2>4. Len(chain) \in Nat
    BY DEF Typed
  <2>5. Typed'
    BY <2>1, <2>2, <2>3, <2>4 DEF Typed, broadcasting, listening
  <2>6. \A d \in Committers : \A u \in In(queue[d]) : u \in Txs
    BY QueuedTxs
  <2>7. QED BY <2>1, <2>3, <2>5, <2>6 DEF OnItsWay, OnceAccepted, OnceOrdered, broadcasting
<1>5. ASSUME NEW odd \in BOOLEAN, OtherBlock(odd) PROVE Typed' /\ OnItsWay' /\ OnceAccepted' /\ OnceOrdered'
  <2> DEFINE b == [txs |-> {}, odd |-> odd]
  <2>1. chain' = Append(chain, b) /\ UNCHANGED <<accepted, valid, broadcasting, listening>>
    BY <1>5 DEF OtherBlock
  <2>3. /\ chain' \in Seq([txs : SUBSET Txs, odd : BOOLEAN]) /\ Len(chain') = Len(chain) + 1
        /\ \A t \in Txs : Ordered(t)' <=> Ordered(t)
    <3>1. b \in [txs : SUBSET Txs, odd : BOOLEAN] /\ b.txs = {}
      OBVIOUS
    <3> HIDE DEF b
    <3>2. QED BY <2>1, <3>1, ChainGrows
  <2>4. Len(chain) \in Nat
    BY DEF Typed
  <2>5. Typed'
    BY <2>1, <2>3, <2>4 DEF Typed, broadcasting, listening
  <2>6. \A d \in Committers : \A u \in In(queue[d]) : u \in Txs
    BY QueuedTxs
  <2>7. QED BY <2>1, <2>3, <2>5, <2>6 DEF OnItsWay, OnceAccepted, OnceOrdered, broadcasting
<1>11. ASSUME NEW t \in Txs, BroadcastFails(t)
       PROVE  Typed' /\ OnItsWay' /\ OnceAccepted' /\ OnceOrdered'
  <2>1. /\ sending' = [sending EXCEPT ![t] = "failed"]
        /\ UNCHANGED <<answer, queue, replies, broken, ledger, listening>>
    BY <1>11 DEF BroadcastFails
  <2>2. Typed'
    BY <2>1 DEF Typed, ledger, listening
  <2>3. /\ \A u \in Txs : sending[u] # "idle" => sending'[u] # "idle"
        /\ \A u \in Txs : Ordered(u)' <=> Ordered(u)
    BY <2>1 DEF Typed, ledger, Ordered
  <2>4. OnItsWay'
    BY <2>1, <2>3, QueuedTxs DEF OnItsWay, ledger
  <2>5. OnceAccepted' /\ OnceOrdered'
    BY <2>1, <2>3 DEF OnceAccepted, OnceOrdered, ledger
  <2>6. QED BY <2>2, <2>4, <2>5
<1>12. ASSUME NEW c \in Committers, BroadcastBreaks(c)
       PROVE  Typed' /\ OnItsWay' /\ OnceAccepted' /\ OnceOrdered'
  <2>1. /\ broken' = broken \cup {c} /\ queue' = [queue EXCEPT ![c] = <<>>]
        /\ UNCHANGED <<sending, answer, ledger, listening>>
    BY <1>12 DEF BroadcastBreaks
  <2>2. PICK n \in 0..Len(replies[c]) :
           replies' = [replies EXCEPT ![c] = SubSeq(replies[c], 1, n)]
    BY <1>12 DEF BroadcastBreaks
  <2>3. replies[c] \in Seq(Txs)
    BY DEF Typed
  <2>4. SubSeq(replies[c], 1, n) \in Seq(Txs)
    BY <2>3, InPrefix
  <2>5. /\ queue' \in [Committers -> Seq(Txs)] /\ queue'[c] = <<>>
        /\ \A d \in Committers \ {c} : queue'[d] = queue[d]
    BY <2>1 DEF Typed
  <2>6. Typed'
    BY <2>1, <2>2, <2>4, <2>5 DEF Typed, ledger, listening
  <2>7. \A u \in Txs : Ordered(u)' <=> Ordered(u)
    BY <2>1 DEF ledger, Ordered
  <2>8. In(<<>>) = {} /\ Once(<<>>)
    BY DEF In, Once
  <2>9. OnItsWay'
    <3>1. \A d \in Committers : d # c => Once(queue'[d]) /\ In(queue'[d]) = In(queue[d])
      BY <2>5 DEF OnItsWay
    <3>2. Once(queue'[c]) /\ In(queue'[c]) = {}
      BY <2>5, <2>8
    <3>3. QED BY <2>1, <2>7, <3>1, <3>2, QueuedTxs DEF OnItsWay, ledger
  <2>10. OnceAccepted' /\ OnceOrdered'
    BY <2>1, <2>7 DEF OnceAccepted, OnceOrdered, ledger
  <2>11. QED BY <2>6, <2>9, <2>10
<1>6. ASSUME UNCHANGED <<broadcasting, ledger>>, Typed' PROVE OnItsWay' /\ OnceAccepted' /\ OnceOrdered'
  BY <1>6 DEF broadcasting, ledger, OnItsWay, OnceAccepted, OnceOrdered, Ordered
<1>7. ASSUME NEW t \in Txs, WaitForTx(t) \/ SendFails(t) \/ Receive(t)
      PROVE  Typed' /\ UNCHANGED <<broadcasting, ledger>>
  <2>1. CASE WaitForTx(t)
    BY <2>1 DEF WaitForTx, Typed, broadcasting, ledger
  <2>2. CASE SendFails(t)
    BY <2>2 DEF SendFails, Typed, broadcasting, ledger
  <2>3. CASE Receive(t)
    <3>1. next' \in [Listeners -> Nat] /\ \A l \in Listeners : next'[l] <= Len(chain)
      BY <2>3 DEF Receive, Comes, Typed
    <3>2. waiting' \in [Txs -> {"idle", "receiving", "done", "panicked"}]
          /\ verdict' \in [Txs -> {"none", "valid", "invalid", "ended"}]
      BY <2>3 DEF Receive, Found, Panics, Continues, Typed
    <3>3. QED BY <2>3, <3>1, <3>2 DEF Receive, Typed, broadcasting, ledger
  <2>4. QED BY <1>7, <2>1, <2>2, <2>3
<1>8. ASSUME NEW l \in Listeners, PeerSeeks(l) \/ StreamBreaks(l) \/ StreamEnds(l)
      PROVE  Typed' /\ UNCHANGED <<broadcasting, ledger>>
  <2>1. CASE PeerSeeks(l)
    <3>1. Len(chain) - 1 \in Nat /\ Len(chain) - 1 <= Len(chain)
      BY DEF Typed
    <3>2. QED BY <2>1, <3>1 DEF PeerSeeks, Typed, broadcasting, ledger
  <2>2. CASE StreamBreaks(l)
    BY <2>2 DEF StreamBreaks, Typed, broadcasting, ledger
  <2>3. CASE StreamEnds(l)
    BY <2>3 DEF StreamEnds, Typed, broadcasting, ledger
  <2>4. QED BY <1>8, <2>1, <2>2, <2>3
<1>9. CASE UNCHANGED vars
  BY <1>6, <1>9 DEF vars, Typed, broadcasting, ledger, listening
<1>10. QED
  BY <1>1, <1>2, <1>3, <1>4, <1>5, <1>6, <1>7, <1>8, <1>9, <1>11, <1>12 DEF Next

\* A verdict stays the ledger's, for a transaction is in one block only.
LEMMA VerdictStep ==
    ASSUME LedgerInv, [Next]_vars
    PROVE  VerdictIsOwn'
<1> USE GoFinalityAssumption DEF LedgerInv
<1>1. ASSUME UNCHANGED <<ledger, waiting, verdict, stream>> PROVE VerdictIsOwn'
  BY <1>1 DEF VerdictIsOwn, Ordered, ledger
<1>2. ASSUME NEW t \in Txs, Send(t) \/ Recv(t) \/ BroadcastFails(t) PROVE VerdictIsOwn'
  BY <1>1, <1>2 DEF Send, Recv, BroadcastFails, listening
<1>3. ASSUME NEW c \in Committers, NEW takes \in BOOLEAN, OrdererReads(c, takes) PROVE VerdictIsOwn'
  BY <1>3 DEF OrdererReads, VerdictIsOwn, Ordered, listening
<1>4. ASSUME NEW txs \in SUBSET Txs, Order(txs) PROVE VerdictIsOwn'
  <2>1. /\ chain' = Append(chain, [txs |-> txs, odd |-> FALSE])
        /\ UNCHANGED <<waiting, verdict, stream>> /\ txs \subseteq accepted
    BY <1>4 DEF Order, listening
  <2>2. \A t \in Txs : Ordered(t) => Ordered(t)' /\ t \notin txs
    BY <2>1, ChainGrows DEF OnceAccepted
  <2>3. \A t \in Txs : t \notin txs => (t \in valid' <=> t \in valid)
    BY <1>4 DEF Order
  <2>4. QED BY <2>1, <2>2, <2>3 DEF VerdictIsOwn
<1>5. ASSUME NEW odd \in BOOLEAN, OtherBlock(odd) PROVE VerdictIsOwn'
  <2>1. /\ chain' = Append(chain, [txs |-> {}, odd |-> odd])
        /\ UNCHANGED <<waiting, verdict, stream, valid>>
    BY <1>5 DEF OtherBlock, listening
  <2>2. \A t \in Txs : Ordered(t) => Ordered(t)'
    BY <2>1, ChainGrows
  <2>3. QED BY <2>1, <2>2 DEF VerdictIsOwn
<1>6. ASSUME NEW t \in Txs, WaitForTx(t) \/ SendFails(t) PROVE VerdictIsOwn'
  <2>1. /\ UNCHANGED <<ledger, verdict>>
        /\ \A u \in Txs : waiting'[u] = "done" => waiting[u] = "done"
    BY <1>6 DEF WaitForTx, SendFails, Typed
  <2>2. \A l \in Listeners : stream[l] = "broken" => stream'[l] = "broken"
    BY <1>6 DEF WaitForTx, SendFails, Typed
  <2>3. QED BY <2>1, <2>2 DEF VerdictIsOwn, Ordered, ledger
<1>7. ASSUME NEW t \in Txs, Receive(t) PROVE VerdictIsOwn'
  <2> DEFINE l == ListenerOf[t]  block == Block(next[l])
  <2>1. next[l] + 1 \in 1..Len(chain) /\ block = chain[next[l] + 1]
    BY <1>7 DEF Receive, Comes, Block, Typed
  <2>2. UNCHANGED <<ledger, stream>> /\ (Found(t, block) \/ Panics(t, block) \/ Continues(t, block))
    BY <1>7 DEF Receive
  <2>3. \A u \in Txs : Ordered(u)' <=> Ordered(u)
    BY <2>2 DEF Ordered, ledger
  <2>4. CASE Found(t, block)
    <3>1. Ordered(t)
      BY <2>1, <2>4 DEF Found, Ordered
    <3>2. /\ \A u \in Txs \ {t} : waiting'[u] = waiting[u] /\ verdict'[u] = verdict[u]
          /\ verdict'[t] = IF t \in valid THEN "valid" ELSE "invalid"
      BY <2>4 DEF Found, Typed
    <3>3. QED BY <2>2, <2>3, <3>1, <3>2 DEF VerdictIsOwn, ledger
  <2>5. CASE Panics(t, block)
    BY <2>2, <2>3, <2>5 DEF Panics, VerdictIsOwn, Typed, ledger
  <2>6. CASE Continues(t, block)
    BY <2>2, <2>3, <2>6 DEF Continues, VerdictIsOwn, ledger
  <2>7. QED BY <2>2, <2>4, <2>5, <2>6
<1>8. ASSUME NEW l \in Listeners, PeerSeeks(l) PROVE VerdictIsOwn'
  BY <1>8 DEF PeerSeeks, VerdictIsOwn, Typed, Ordered, ledger
<1>9. ASSUME NEW l \in Listeners, StreamBreaks(l) PROVE VerdictIsOwn'
  BY <1>9 DEF StreamBreaks, VerdictIsOwn, Typed, Ordered, ledger
<1>12. ASSUME NEW l \in Listeners, StreamEnds(l) PROVE VerdictIsOwn'
  BY <1>12 DEF StreamEnds, VerdictIsOwn, Typed, Ordered, ledger
<1>13. ASSUME NEW c \in Committers, BroadcastBreaks(c) PROVE VerdictIsOwn'
  BY <1>1, <1>13 DEF BroadcastBreaks, listening
<1>10. CASE UNCHANGED vars
  BY <1>1, <1>10 DEF vars, listening
<1>11. QED
  BY <1>2, <1>3, <1>4, <1>5, <1>6, <1>7, <1>8, <1>9, <1>10, <1>12, <1>13 DEF Next

LEMMA InitLedgerInv == Init => LedgerInv
<1> SUFFICES ASSUME Init PROVE LedgerInv
  OBVIOUS
<1>1. [txs |-> {}, odd |-> FALSE] \in [txs : SUBSET Txs, odd : BOOLEAN]
  OBVIOUS
<1>2. Typed
  BY <1>1 DEF Init, Typed
<1>3. \A c \in Committers : In(queue[c]) = {} /\ Once(queue[c])
  BY DEF Init, In, Once
<1>4. \A t \in Txs : ~Ordered(t)
  BY DEF Init, Ordered
<1>5. QED BY <1>2, <1>3, <1>4 DEF Init, LedgerInv, OnItsWay, OnceAccepted, OnceOrdered, VerdictIsOwn

LEMMA LedgerInductive == Spec => []LedgerInv
<1>1. LedgerInv /\ [Next]_vars => LedgerInv'
  BY LedgerStep, VerdictStep DEF LedgerInv
<1>2. QED BY <1>1, InitLedgerInv, PTL DEF Spec

\* The type invariant; a listener never asks for a block beyond the next.
THEOREM TypeCorrect == Spec => []TypeOK
<1>1. LedgerInv => TypeOK
  BY DEF LedgerInv, Typed, TypeOK
<1>2. QED BY <1>1, LedgerInductive, PTL

\* The validation code a wait returns is what the ledger records of its own
\* transaction (golang/event/tx.go:17-33), whoever else uses its listener; one
\* that returns without a code (golang/event/eventer.go:26-30,74) returned from a
\* stream that is over.
THEOREM VerdictOwn == Spec => []VerdictIsOwn
<1>1. LedgerInv => VerdictIsOwn
  BY DEF LedgerInv
<1>2. QED BY <1>1, LedgerInductive, PTL
-----------------------------------------------------------------------------
\* The answers: every envelope is queued, answered or received, and no two of
\* these.
SentOn(c) == {t \in Txs : CommitterOf[t] = c /\ sending[t] = "sent"}

Counted ==
    \A c \in Committers \ broken :
        IsFiniteSet(SentOn(c)) /\ Cardinality(SentOn(c)) = Len(queue[c]) + Len(replies[c])
RepliesOnce ==
    \A c \in Committers :
        /\ Once(replies[c])
        /\ \A u \in In(replies[c]) :
              CommitterOf[u] = c /\ sending[u] # "idle" /\ u \notin In(queue[c])
AnswersGone ==
    \A t \in Txs : \A u \in answer[t] :
        /\ sending[u] # "idle"
        /\ \A c \in Committers : u \notin In(queue[c]) /\ u \notin In(replies[c])
AnswersDiffer == \A s, t \in Txs : s # t => answer[s] \cap answer[t] = {}

AnswersInv == Counted /\ RepliesOnce /\ AnswersGone /\ AnswersDiffer

LEMMA AnsweredTxs ==
    ASSUME Typed
    PROVE  /\ \A d \in Committers : \A u \in In(replies[d]) : u \in Txs
           /\ \A t \in Txs : answer[t] \subseteq Txs
<1>1. \A d \in Committers : replies[d] \in Seq(Txs)
  BY DEF Typed
<1>2. \A t \in Txs : answer[t] \subseteq Txs
  BY DEF Typed
<1>3. QED BY <1>1, <1>2, InSeq

LEMMA MoveOne ==
    ASSUME NEW a \in Nat, NEW b \in Nat
    PROVE  /\ (a + b) + 1 = (a + 1) + b
           /\ (a + b) - 1 = a + (b - 1)
           /\ (a - 1) + (b + 1) = a + b
OBVIOUS

LEMMA AnswersSend ==
    ASSUME LedgerInv, AnswersInv, NEW t \in Txs, Send(t)
    PROVE  AnswersInv'
<1> USE GoFinalityAssumption
<1> DEFINE c == CommitterOf[t]
<1>1. /\ sending[t] = "idle" /\ c \in Committers /\ CommitterOf[t] = c
      /\ queue' = [queue EXCEPT ![c] = Append(queue[c], t)]
      /\ sending' = [sending EXCEPT ![t] = "sent"]
      /\ answer' = answer /\ replies' = replies /\ broken' = broken /\ c \notin broken
  BY DEF Send
<1> HIDE DEF c
<1>2. /\ queue[c] \in Seq(Txs) /\ Len(queue[c]) \in Nat
      /\ \A d \in Committers : Len(replies[d]) \in Nat
      /\ \A u \in Txs : u # t => sending'[u] = sending[u]
      /\ sending'[t] = "sent"
  BY <1>1 DEF LedgerInv, Typed
<1>3. /\ Len(queue'[c]) = Len(queue[c]) + 1 /\ In(queue'[c]) = In(queue[c]) \cup {t}
      /\ \A d \in Committers \ {c} : queue'[d] = queue[d]
  BY <1>1, <1>2, InAppend DEF LedgerInv, Typed
<1>4. /\ \A d \in Committers : t \notin In(replies[d])
      /\ \A s \in Txs : t \notin answer[s]
  BY <1>1 DEF AnswersInv, RepliesOnce, AnswersGone
<1>5. Counted'
  <2>1. ASSUME NEW d \in Committers \ broken, d # c
        PROVE  IsFiniteSet(SentOn(d)') /\ Cardinality(SentOn(d)') = Len(queue'[d]) + Len(replies'[d])
    <3>1. SentOn(d)' = SentOn(d)
      BY <1>1, <1>2, <2>1 DEF SentOn
    <3>2. QED BY <1>1, <1>3, <2>1, <3>1 DEF AnswersInv, Counted
  <2>2. IsFiniteSet(SentOn(c)') /\ Cardinality(SentOn(c)') = Len(queue'[c]) + Len(replies'[c])
    <3>1. SentOn(c)' = SentOn(c) \cup {t} /\ t \notin SentOn(c)
      BY <1>1, <1>2 DEF SentOn
    <3>2. /\ IsFiniteSet(SentOn(c)) /\ Cardinality(SentOn(c)) = Len(queue[c]) + Len(replies[c])
      BY <1>1 DEF AnswersInv, Counted
    <3>3. IsFiniteSet(SentOn(c)') /\ Cardinality(SentOn(c)') = Cardinality(SentOn(c)) + 1
      BY <3>1, <3>2, FS_AddElement
    <3>4. Len(replies'[c]) = Len(replies[c]) /\ Len(replies[c]) \in Nat /\ Len(queue[c]) \in Nat
      BY <1>1, <1>2
    <3> DEFINE a == Len(queue[c])  b == Len(replies[c])
    <3>5. (a + b) + 1 = (a + 1) + b
      <4> HIDE DEF a, b
      <4>1. a \in Nat /\ b \in Nat
        BY <3>4 DEF a, b
      <4>2. QED BY <4>1, MoveOne
    <3>6. Len(queue'[c]) = Len(queue[c]) + 1
      BY <1>3
    <3>7. QED BY ONLY <3>2, <3>3, <3>4, <3>5, <3>6, Zenon
  <2>3. QED BY <1>1, <2>1, <2>2 DEF Counted
<1>6. RepliesOnce'
  BY <1>1, <1>2, <1>3, <1>4, AnsweredTxs DEF LedgerInv, AnswersInv, RepliesOnce
<1>7. AnswersGone'
  BY <1>1, <1>2, <1>3, <1>4, AnsweredTxs DEF LedgerInv, AnswersInv, AnswersGone
<1>8. AnswersDiffer'
  BY <1>1 DEF AnswersInv, AnswersDiffer
<1>9. QED BY <1>5, <1>6, <1>7, <1>8 DEF AnswersInv

LEMMA AnswersRecv ==
    ASSUME LedgerInv, AnswersInv, NEW t \in Txs, Recv(t)
    PROVE  AnswersInv'
<1> USE GoFinalityAssumption
<1> DEFINE c == CommitterOf[t]  h == Head(replies[c])
<1>1. /\ sending[t] = "sent" /\ c \in Committers /\ CommitterOf[t] = c /\ replies[c] # <<>>
      /\ answer' = [answer EXCEPT ![t] = {h}]
      /\ replies' = [replies EXCEPT ![c] = Tail(replies[c])]
      /\ sending' = [sending EXCEPT ![t] = "done"]
      /\ queue' = queue /\ broken' = broken
  BY DEF Recv
<1>2. /\ replies[c] \in Seq(Txs) /\ Len(replies[c]) \in Nat
      /\ \A d \in Committers : Len(queue[d]) \in Nat
      /\ \A u \in Txs : u # t => sending'[u] = sending[u]
      /\ sending'[t] = "done"
  BY <1>1 DEF LedgerInv, Typed
<1>3. /\ Len(replies'[c]) = Len(replies[c]) - 1 /\ h \in Txs /\ h \in In(replies[c])
      /\ In(replies'[c]) \subseteq In(replies[c]) /\ Once(replies'[c]) /\ h \notin In(replies'[c])
      /\ \A d \in Committers \ {c} : replies'[d] = replies[d]
  BY <1>1, <1>2, InTail DEF LedgerInv, Typed, AnswersInv, RepliesOnce
<1>4. \A s \in Txs \ {t} : answer'[s] = answer[s]
  BY <1>1 DEF LedgerInv, Typed
<1>5. answer'[t] = {h}
  BY <1>1 DEF LedgerInv, Typed
<1> HIDE DEF c, h
<1>6. /\ CommitterOf[h] = c /\ sending[h] # "idle" /\ sending'[h] # "idle"
      /\ \A d \in Committers : h \notin In(queue[d]) /\ h \notin In(replies'[d])
  BY <1>1, <1>2, <1>3 DEF LedgerInv, OnItsWay, AnswersInv, RepliesOnce
<1>7. Counted'
  <2>1. ASSUME NEW d \in Committers \ broken, d # c
        PROVE  IsFiniteSet(SentOn(d)') /\ Cardinality(SentOn(d)') = Len(queue'[d]) + Len(replies'[d])
    <3>1. SentOn(d)' = SentOn(d)
      BY <1>1, <1>2, <2>1 DEF SentOn
    <3>2. QED BY <1>1, <1>3, <2>1, <3>1 DEF AnswersInv, Counted
  <2>2. ASSUME c \notin broken
        PROVE  IsFiniteSet(SentOn(c)') /\ Cardinality(SentOn(c)') = Len(queue'[c]) + Len(replies'[c])
    <3>1. SentOn(c)' = SentOn(c) \ {t} /\ t \in SentOn(c)
      BY <1>1, <1>2 DEF SentOn
    <3>2. /\ IsFiniteSet(SentOn(c)) /\ Cardinality(SentOn(c)) = Len(queue[c]) + Len(replies[c])
      BY <1>1, <2>2 DEF AnswersInv, Counted
    <3>3. IsFiniteSet(SentOn(c)') /\ Cardinality(SentOn(c)') = Cardinality(SentOn(c)) - 1
      BY <3>1, <3>2, FS_RemoveElement
    <3>4. Len(queue'[c]) = Len(queue[c]) /\ Len(replies[c]) \in Nat /\ Len(queue[c]) \in Nat
      BY <1>1, <1>2
    <3>5. QED BY <1>3, <3>2, <3>3, <3>4, MoveOne
  <2>3. QED BY <1>1, <2>1, <2>2 DEF Counted
<1>8. RepliesOnce'
  <2>1. \A d \in Committers : Once(replies'[d]) /\ In(replies'[d]) \subseteq In(replies[d])
    BY <1>1, <1>3 DEF AnswersInv, RepliesOnce
  <2>2. \A u \in Txs : sending[u] # "idle" => sending'[u] # "idle"
    BY <1>2
  <2>3. QED BY <1>1, <2>1, <2>2, AnsweredTxs DEF LedgerInv, AnswersInv, RepliesOnce
<1>9. AnswersGone'
  <2>1. ASSUME NEW s \in Txs, NEW u \in answer'[s]
        PROVE  /\ sending'[u] # "idle"
               /\ \A d \in Committers : u \notin In(queue'[d]) /\ u \notin In(replies'[d])
    <3>1. CASE s = t
      BY <1>1, <1>5, <1>6, <2>1, <3>1
    <3>2. CASE s # t
      <4>1. u \in answer[s]
        BY <1>4, <2>1, <3>2
      <4>2. u \in Txs
        BY <4>1, AnsweredTxs DEF LedgerInv
      <4>3. /\ sending[u] # "idle"
            /\ \A d \in Committers : u \notin In(queue[d]) /\ u \notin In(replies[d])
        BY <4>1 DEF AnswersInv, AnswersGone
      <4>4. QED BY <1>1, <1>2, <1>3, <4>2, <4>3
    <3>3. QED BY <3>1, <3>2
  <2>2. QED BY <2>1 DEF AnswersGone
<1>10. AnswersDiffer'
  <2>1. \A s \in Txs : h \notin answer[s]
    BY <1>1, <1>3 DEF AnswersInv, AnswersGone
  <2>2. QED BY <1>4, <1>5, <2>1 DEF AnswersInv, AnswersDiffer
<1>11. QED BY <1>7, <1>8, <1>9, <1>10 DEF AnswersInv

LEMMA AnswersRead ==
    ASSUME LedgerInv, AnswersInv, NEW c \in Committers, NEW takes \in BOOLEAN, OrdererReads(c, takes)
    PROVE  AnswersInv'
<1> DEFINE h == Head(queue[c])
<1>1. /\ queue[c] # <<>>
      /\ queue' = [queue EXCEPT ![c] = Tail(queue[c])]
      /\ replies' = [replies EXCEPT ![c] = Append(replies[c], h)]
      /\ sending' = sending /\ answer' = answer /\ broken' = broken
  BY DEF OrdererReads
<1>2. /\ replies[c] \in Seq(Txs) /\ Len(replies[c]) \in Nat
      /\ queue[c] \in Seq(Txs) /\ Len(queue[c]) \in Nat
  BY DEF LedgerInv, Typed
<1>3. /\ Len(queue'[c]) = Len(queue[c]) - 1 /\ h \in Txs /\ h \in In(queue[c])
      /\ In(queue'[c]) \subseteq In(queue[c]) /\ h \notin In(queue'[c])
      /\ \A d \in Committers \ {c} : queue'[d] = queue[d]
  BY <1>1, <1>2, InTail DEF LedgerInv, Typed, OnItsWay
<1> HIDE DEF h
<1>4. h \notin In(replies[c])
  BY <1>3 DEF AnswersInv, RepliesOnce
<1>5. /\ Len(replies'[c]) = Len(replies[c]) + 1 /\ In(replies'[c]) = In(replies[c]) \cup {h}
      /\ Once(replies'[c])
      /\ \A d \in Committers \ {c} : replies'[d] = replies[d]
  BY <1>1, <1>2, <1>3, <1>4, InAppend DEF LedgerInv, Typed, AnswersInv, RepliesOnce
<1>6. CommitterOf[h] = c /\ sending[h] # "idle"
  BY <1>3 DEF LedgerInv, OnItsWay
<1>7. Counted'
  <2>1. \A d \in Committers : SentOn(d)' = SentOn(d)
    BY <1>1 DEF SentOn
  <2>2. Len(queue'[c]) + Len(replies'[c]) = Len(queue[c]) + Len(replies[c])
    <3>1. Len(queue'[c]) = Len(queue[c]) - 1 /\ Len(replies'[c]) = Len(replies[c]) + 1
      BY <1>3, <1>5
    <3>2. Len(queue[c]) \in Nat /\ Len(replies[c]) \in Nat
      BY <1>2
    <3> DEFINE a == Len(queue[c])  b == Len(replies[c])
    <3>3. (a - 1) + (b + 1) = a + b
      <4> HIDE DEF a, b
      <4>1. a \in Nat /\ b \in Nat
        BY <3>2 DEF a, b
      <4>2. QED BY <4>1, MoveOne
    <3>4. QED BY ONLY <3>1, <3>3, Zenon
  <2>3. \A d \in Committers :
           Len(queue'[d]) + Len(replies'[d]) = Len(queue[d]) + Len(replies[d])
    BY <1>3, <1>5, <2>2
  <2>4. QED BY <1>1, <2>1, <2>3 DEF AnswersInv, Counted
<1>8. RepliesOnce'
  <2>1. \A d \in Committers : Once(replies'[d])
    BY <1>5 DEF AnswersInv, RepliesOnce
  <2>2. ASSUME NEW d \in Committers, NEW u \in In(replies'[d])
        PROVE  CommitterOf[u] = d /\ sending'[u] # "idle" /\ u \notin In(queue'[d])
    <3>1. CASE u \in In(replies[d])
      <4>1. CommitterOf[u] = d /\ sending[u] # "idle" /\ u \notin In(queue[d])
        BY <3>1 DEF AnswersInv, RepliesOnce
      <4>2. QED BY <1>1, <1>3, <4>1
    <3>2. CASE u \notin In(replies[d])
      <4>1. d = c /\ u = h
        BY <1>5, <2>2, <3>2
      <4>2. QED BY <1>1, <1>3, <1>6, <4>1
    <3>3. QED BY <3>1, <3>2
  <2>3. QED BY <2>1, <2>2 DEF RepliesOnce
<1>9. AnswersGone'
  BY <1>1, <1>3, <1>5 DEF AnswersInv, AnswersGone
<1>10. AnswersDiffer'
  BY <1>1 DEF AnswersInv, AnswersDiffer
<1>11. QED BY <1>7, <1>8, <1>9, <1>10 DEF AnswersInv

LEMMA AnswersFail ==
    ASSUME LedgerInv, AnswersInv, NEW t \in Txs, BroadcastFails(t)
    PROVE  AnswersInv'
<1>1. /\ CommitterOf[t] \in broken
      /\ sending' = [sending EXCEPT ![t] = "failed"]
      /\ answer' = answer /\ queue' = queue /\ replies' = replies /\ broken' = broken
  BY DEF BroadcastFails
<1>2. \A u \in Txs : /\ u # t => sending'[u] = sending[u]
                     /\ sending[u] # "idle" => sending'[u] # "idle"
  BY <1>1 DEF LedgerInv, Typed
<1>3. \A d \in Committers \ broken : SentOn(d)' = SentOn(d)
  BY <1>1, <1>2 DEF SentOn
<1>4. Counted'
  BY <1>1, <1>3 DEF AnswersInv, Counted
<1>5. RepliesOnce' /\ AnswersGone' /\ AnswersDiffer'
  BY <1>1, <1>2, AnsweredTxs DEF LedgerInv, AnswersInv, RepliesOnce, AnswersGone, AnswersDiffer
<1>6. QED BY <1>4, <1>5 DEF AnswersInv

LEMMA AnswersBreak ==
    ASSUME LedgerInv, AnswersInv, NEW c \in Committers, BroadcastBreaks(c)
    PROVE  AnswersInv'
<1>1. /\ broken' = broken \cup {c} /\ queue' = [queue EXCEPT ![c] = <<>>]
      /\ sending' = sending /\ answer' = answer
  BY DEF BroadcastBreaks
<1>2. PICK n \in 0..Len(replies[c]) :
         replies' = [replies EXCEPT ![c] = SubSeq(replies[c], 1, n)]
  BY DEF BroadcastBreaks
<1>3. /\ replies[c] \in Seq(Txs)
      /\ \A d \in Committers \ {c} : queue'[d] = queue[d] /\ replies'[d] = replies[d]
      /\ queue'[c] = <<>> /\ replies'[c] = SubSeq(replies[c], 1, n)
  BY <1>1, <1>2 DEF LedgerInv, Typed
<1>4. \A d \in Committers : SentOn(d)' = SentOn(d)
  BY <1>1 DEF SentOn
<1>5. Counted'
  BY <1>1, <1>3, <1>4 DEF AnswersInv, Counted
<1>6. \A d \in Committers : In(queue'[d]) \subseteq In(queue[d])
  <2>1. In(<<>>) = {}
    BY DEF In
  <2>2. QED BY <1>3, <2>1
<1>7. \A d \in Committers : Once(replies'[d]) /\ In(replies'[d]) \subseteq In(replies[d])
  <2>1. \A d \in Committers : Once(replies[d])
    BY DEF AnswersInv, RepliesOnce
  <2>2. Once(replies'[c]) /\ In(replies'[c]) \subseteq In(replies[c])
    BY <1>3, <2>1, InPrefix
  <2>3. \A d \in Committers : d # c => Once(replies'[d]) /\ In(replies'[d]) \subseteq In(replies[d])
    BY <1>3, <2>1
  <2>4. QED BY <2>2, <2>3
<1>8. RepliesOnce' /\ AnswersGone' /\ AnswersDiffer'
  <2>1. RepliesOnce'
    BY <1>1, <1>6, <1>7 DEF AnswersInv, RepliesOnce
  <2>2. AnswersGone'
    BY <1>1, <1>6, <1>7 DEF AnswersInv, AnswersGone
  <2>3. QED BY <1>1, <2>1, <2>2 DEF AnswersInv, AnswersDiffer
<1>9. QED BY <1>5, <1>8 DEF AnswersInv

LEMMA AnswersStep ==
    ASSUME LedgerInv, AnswersInv, [Next]_vars
    PROVE  AnswersInv'
<1>1. ASSUME UNCHANGED broadcasting PROVE AnswersInv'
  <2>1. sending' = sending /\ answer' = answer /\ queue' = queue /\ replies' = replies
        /\ broken' = broken
    BY <1>1 DEF broadcasting
  <2>2. \A c \in Committers : SentOn(c)' = SentOn(c)
    BY <2>1 DEF SentOn
  <2>3. Counted'
    BY <2>1, <2>2 DEF AnswersInv, Counted
  <2>4. RepliesOnce' /\ AnswersGone' /\ AnswersDiffer'
    BY <2>1 DEF AnswersInv, RepliesOnce, AnswersGone, AnswersDiffer
  <2>5. QED BY <2>3, <2>4 DEF AnswersInv
<1>2. ASSUME NEW t \in Txs, WaitForTx(t) \/ SendFails(t) \/ Receive(t) PROVE AnswersInv'
  BY <1>1, <1>2 DEF WaitForTx, SendFails, Receive
<1>3. ASSUME NEW txs \in SUBSET Txs, Order(txs) PROVE AnswersInv'
  BY <1>1, <1>3 DEF Order
<1>4. ASSUME NEW odd \in BOOLEAN, OtherBlock(odd) PROVE AnswersInv'
  BY <1>1, <1>4 DEF OtherBlock
<1>5. ASSUME NEW l \in Listeners, PeerSeeks(l) \/ StreamBreaks(l) \/ StreamEnds(l) PROVE AnswersInv'
  BY <1>1, <1>5 DEF PeerSeeks, StreamBreaks, StreamEnds
<1>6. CASE UNCHANGED vars
  BY <1>1, <1>6 DEF vars
<1>7. QED
  BY <1>2, <1>3, <1>4, <1>5, <1>6, AnswersSend, AnswersRecv, AnswersRead, AnswersFail,
     AnswersBreak DEF Next

LEMMA InitAnswers == Init => AnswersInv
<1> SUFFICES ASSUME Init PROVE AnswersInv
  OBVIOUS
<1>1. \A c \in Committers : SentOn(c) = {} /\ In(replies[c]) = {} /\ Once(replies[c])
  BY DEF Init, SentOn, In, Once
<1>2. Counted
  <2>1. \A c \in Committers : Len(queue[c]) = 0 /\ Len(replies[c]) = 0
    BY DEF Init
  <2>2. IsFiniteSet({}) /\ Cardinality({}) = 0 + 0
    BY FS_EmptySet
  <2>3. QED BY <1>1, <2>1, <2>2 DEF Counted
<1>3. RepliesOnce /\ AnswersGone /\ AnswersDiffer
  BY <1>1 DEF Init, RepliesOnce, AnswersGone, AnswersDiffer
<1>4. QED BY <1>2, <1>3 DEF AnswersInv

\* On a shared committer (golang/committer.go:28-36) no two calls get the same
\* answer, and while the stream is up every call that sent its envelope has an
\* answer to come.
THEOREM AnswersEnough == Spec => []AnswersAreEnough
<1>1. AnswersInv => AnswersAreEnough
  BY DEF AnswersInv, Counted, AnswersDiffer, SentOn, AnswersAreEnough
<1>2. LedgerInv /\ AnswersInv /\ [Next]_vars => AnswersInv'
  BY AnswersStep
<1>3. QED BY <1>1, <1>2, InitAnswers, LedgerInductive, PTL DEF Spec
=============================================================================

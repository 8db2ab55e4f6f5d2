--------------------------- MODULE QueryHubProofs ---------------------------
(***************************************************************************)
(* Proofs about QueryHub, for any peers, calls and bound on failures.      *)
(***************************************************************************)
EXTENDS QueryHub, TLAPS

Responses == {Pending, Endorsed, AlreadyActive, UnderConstruction, NoSuchTransaction,
              Failed, SystemError}

\* Every variable is a function of its kind.
Typed ==
    /\ pc \in [Calls -> {"idle", "fetching", "asked"}]
    /\ answer \in [Calls -> {"none", "joined", "already", "found", "notFound", "error"}]
    /\ DOMAIN response = Calls
    /\ \A c \in Calls : response[c] \in [EndorsersOf[c] -> Responses]
    /\ channel \in [Peers -> {"none", "creating", "active"}]
    /\ creator \in [Peers -> Calls \cup {NoCall}]
    /\ has \subseteq Peers
    /\ lacked \in [Calls -> SUBSET Peers]

\* A call answers when it is over, and as its kind does.
AnswersFit ==
    \A c \in Calls :
        /\ pc[c] # "idle" => answer[c] = "none"
        /\ pc[c] = "fetching" => c \in Joins
        /\ answer[c] \in IF c \in Joins THEN {"none", "joined", "already", "error"}
                                        ELSE {"none", "found", "notFound", "error"}

\* A ledger under construction is that of a join that waits for it.
CreatorsWait ==
    \A p \in Peers : creator[p] # NoCall =>
        channel[p] = "creating" /\ creator[p] \in Joins /\ Open(creator[p], p)

\* What a peer answered to a join is so: the peer has the channel.
JoinResponsesReal ==
    \A c \in Joins : \A p \in EndorsersOf[c] :
        response[c][p] \in {Endorsed, AlreadyActive} => channel[p] = "active"

\* What a peer answered to a look-up is so: it has the transaction, or lacked
\* it when the call was made.
TxResponsesReal ==
    \A c \in Calls \ Joins : \A p \in EndorsersOf[c] :
        /\ response[c][p] = Endorsed => p \in has
        /\ response[c][p] = NoSuchTransaction => p \in lacked[c]
        /\ pc[c] = "asked" /\ p \notin has => p \in lacked[c]

Inv ==
    /\ Typed /\ AnswersFit /\ CreatorsWait
    /\ JoinResponsesReal /\ TxResponsesReal
    /\ JoinMeansJoined /\ TxAnswerIsReal
-----------------------------------------------------------------------------
\* The responses are told apart, and one alone has status 200.
LEMMA ResponsesApart ==
    /\ \A r \in Responses : r.status = 200 => r = Endorsed
    /\ Pending \notin {Endorsed, AlreadyActive, NoSuchTransaction}
    /\ Failed \notin {Endorsed, AlreadyActive, NoSuchTransaction, Pending}
    /\ SystemError \notin {Endorsed, AlreadyActive, NoSuchTransaction, Pending}
    /\ UnderConstruction \notin {Endorsed, AlreadyActive, NoSuchTransaction, Pending}
    /\ NoSuchTransaction \notin {Endorsed, AlreadyActive}
    /\ Endorsed # AlreadyActive
<1>1. /\ 200 \notin {Pending.status, AlreadyActive.status, UnderConstruction.status,
                      NoSuchTransaction.status, Failed.status, SystemError.status}
  BY DEF Pending, AlreadyActive, UnderConstruction, NoSuchTransaction, Failed, SystemError
<1>2. Pending \notin {Endorsed, AlreadyActive, NoSuchTransaction}
  BY DEF Pending, Endorsed, AlreadyActive, NoSuchTransaction
<1>3. Failed \notin {Endorsed, AlreadyActive, NoSuchTransaction, Pending}
  BY DEF Failed, Pending, Endorsed, AlreadyActive, NoSuchTransaction
<1>4. SystemError \notin {Endorsed, AlreadyActive, NoSuchTransaction, Pending}
  BY DEF SystemError, Pending, Endorsed, AlreadyActive, NoSuchTransaction
<1>5. UnderConstruction \notin {Endorsed, AlreadyActive, NoSuchTransaction, Pending}
  BY DEF UnderConstruction, Pending, Endorsed, AlreadyActive, NoSuchTransaction
<1>6. NoSuchTransaction \notin {Endorsed, AlreadyActive} /\ Endorsed # AlreadyActive
  BY DEF Endorsed, AlreadyActive, NoSuchTransaction
<1>7. QED BY <1>1, <1>2, <1>3, <1>4, <1>5, <1>6 DEF Responses

\* If all refusals are of one kind, every response is that one or endorses.
LEMMA AllRefuse ==
    ASSUME NEW S, NEW results \in [S -> Responses], NEW r,
           \A p \in SanCheck(results) : results[p] = r
    PROVE  \A p \in S : results[p] \in {Endorsed, r}
BY ResponsesApart DEF SanCheck

LEMMA AllEndorse ==
    ASSUME NEW S, NEW results \in [S -> Responses], EndorseALL(results, {})
    PROVE  \A p \in S : results[p] = Endorsed
BY ResponsesApart DEF SanCheck, EndorseALL

\* A response changes that of one call and peer.
LEMMA OneResponds ==
    ASSUME Typed, NEW c \in Calls, NEW p \in EndorsersOf[c], NEW r \in Responses, Respond(c, p, r)
    PROVE  /\ DOMAIN response' = Calls
           /\ \A d \in Calls : response'[d] \in [EndorsersOf[d] -> Responses]
           /\ response'[c][p] = r
           /\ \A d \in Calls : \A q \in EndorsersOf[d] :
                  d # c \/ q # p => response'[d][q] = response[d][q]
BY DEF Typed, Respond

\* A call that starts has no response yet.
LEMMA NoneResponded ==
    ASSUME Typed, NEW c \in Calls, NEW label \in {"fetching", "asked"}, Start(c, label)
    PROVE  /\ DOMAIN response' = Calls
           /\ \A d \in Calls : response'[d] \in [EndorsersOf[d] -> Responses]
           /\ \A p \in EndorsersOf[c] : response'[c][p] = Pending
           /\ \A d \in Calls \ {c} : response'[d] = response[d]
           /\ pc' = [pc EXCEPT ![c] = label] /\ answer' = [answer EXCEPT ![c] = "none"]
BY DEF Typed, Start, Responses

LEMMA InitInv == Init => Inv
BY QueryHubAssumption, ResponsesApart DEF Init, Inv, Typed, AnswersFit, CreatorsWait, JoinResponsesReal,
   TxResponsesReal, JoinMeansJoined, TxAnswerIsReal, Joins, Responses

\* A call that starts, a join or a look-up, which takes down who lacks the
\* transaction.
LEMMA StartStep ==
    ASSUME Inv, NEW c \in Calls, NEW label \in {"fetching", "asked"},
           pc[c] = "idle", Start(c, label), label = "asked" \/ c \in Joins, UNCHANGED peers,
           lacked' = IF c \in Joins THEN lacked ELSE [lacked EXCEPT ![c] = EndorsersOf[c] \ has]
    PROVE  Inv'
<1> USE DEF Inv
<1>1. /\ pc' = [pc EXCEPT ![c] = label] /\ answer' = [answer EXCEPT ![c] = "none"]
      /\ channel' = channel /\ creator' = creator /\ has' = has
  BY NoneResponded DEF peers
<1> DEFINE Others == \A d \in Calls \ {c} : response'[d] = response[d] /\ pc'[d] = pc[d]
<1>0. Others /\ \A p \in EndorsersOf[c] : response'[c][p] = Pending
  BY <1>1, NoneResponded DEF Typed
<1>2. Typed'
  <2>1. lacked' \in [Calls -> SUBSET Peers]
    BY QueryHubAssumption DEF Typed
  <2>2. DOMAIN response' = Calls /\ \A d \in Calls : response'[d] \in [EndorsersOf[d] -> Responses]
    BY NoneResponded
  <2>3. QED BY <1>1, <2>1, <2>2 DEF Typed
<1>3. AnswersFit'
  BY <1>1 DEF AnswersFit, Typed
<1>4. CreatorsWait'
  <2> SUFFICES ASSUME NEW p \in Peers, creator[p] # NoCall
               PROVE  channel[p] = "creating" /\ creator[p] \in Joins /\ Open(creator[p], p)'
    BY <1>1 DEF CreatorsWait
  <2>1. channel[p] = "creating" /\ creator[p] \in Joins /\ Open(creator[p], p) /\ creator[p] \in Calls
    BY DEF CreatorsWait, Joins
  <2>2. creator[p] # c
    BY <2>1 DEF Open
  <2>3. response'[creator[p]] = response[creator[p]] /\ pc'[creator[p]] = pc[creator[p]]
    BY <1>0, <2>1, <2>2
  <2>4. QED BY <1>1, <2>1, <2>3 DEF Open
<1>5. JoinResponsesReal'
  BY <1>0, <1>1, ResponsesApart DEF JoinResponsesReal, Joins
<1>6. TxResponsesReal'
  <2>1. \A d \in Calls \ Joins : lacked'[d] = IF d = c THEN EndorsersOf[c] \ has ELSE lacked[d]
    BY DEF Typed
  <2>2. QED BY <1>0, <1>1, <2>1, ResponsesApart DEF TxResponsesReal
<1>7. JoinMeansJoined' /\ TxAnswerIsReal'
  BY <1>1 DEF JoinMeansJoined, TxAnswerIsReal, Typed, Joins
<1>8. QED BY <1>2, <1>3, <1>4, <1>5, <1>6, <1>7

\* The steps of callers.
LEMMA CallerStep ==
    ASSUME Inv, NEW c \in Calls, Caller(c) \/ FetchFails(c)
    PROVE  Inv'
<1> USE QueryHubAssumption DEF Inv
<1>1. CASE Join(c)
  BY <1>1, StartStep DEF Join, Joins
<1>2. CASE JoinWithFetch(c)
  BY <1>2, StartStep DEF JoinWithFetch, Joins
<1>3. CASE GetGenesisBlock(c)
  <2>1. c \in Joins
    BY <1>3 DEF GetGenesisBlock, AnswersFit
  <2>2. QED
    BY <1>3, <2>1 DEF GetGenesisBlock, Typed, AnswersFit, CreatorsWait, Open, JoinResponsesReal,
       TxResponsesReal, JoinMeansJoined, TxAnswerIsReal, peers
<1>4. CASE FetchFails(c)
  <2>1. c \in Joins
    BY <1>4 DEF FetchFails, AnswersFit
  <2>2. QED
    BY <1>4, <2>1 DEF FetchFails, Return, Typed, AnswersFit, CreatorsWait, Open, JoinResponsesReal,
       TxResponsesReal, JoinMeansJoined, TxAnswerIsReal, peers
<1>5. CASE Tx(c)
  BY <1>5, StartStep DEF Tx, Joins
<1>6. CASE JoinAnswered(c)
  <2>1. CreatorsWait'
    BY <1>6 DEF JoinAnswered, Answered, Return, Typed, CreatorsWait, Open, peers
  <2>2. Typed' /\ AnswersFit' /\ JoinResponsesReal' /\ TxResponsesReal' /\ TxAnswerIsReal'
    BY <1>6 DEF JoinAnswered, Return, Typed, AnswersFit, JoinResponsesReal, TxResponsesReal,
       TxAnswerIsReal, Joins, peers
  <2>3. ASSUME answer'[c] \in {"joined", "already"} PROVE \A p \in EndorsersOf[c] : channel[p] = "active"
    <3>1. response[c] \in [EndorsersOf[c] -> Responses] /\ c \in Joins
      BY <1>6 DEF Typed, JoinAnswered
    <3>2. \/ EndorseALL(response[c], {})
          \/ \A p \in SanCheck(response[c]) : response[c][p] = AlreadyActive
      BY <1>6, <2>3 DEF JoinAnswered, Return, HaveJoined, Typed
    <3>3. \A p \in EndorsersOf[c] : response[c][p] \in {Endorsed, AlreadyActive}
      BY <3>1, <3>2, AllRefuse, AllEndorse
    <3>4. QED BY <3>1, <3>3 DEF JoinResponsesReal
  <2>4. JoinMeansJoined'
    BY <1>6, <2>3 DEF JoinAnswered, Return, Typed, JoinMeansJoined, peers
  <2>5. QED BY <2>1, <2>2, <2>4
<1>7. CASE TxAnswered(c)
  <2>1. CreatorsWait'
    BY <1>7 DEF TxAnswered, Answered, Return, Typed, CreatorsWait, Open, Joins, peers
  <2>2. Typed' /\ AnswersFit' /\ JoinResponsesReal' /\ TxResponsesReal' /\ JoinMeansJoined'
    BY <1>7 DEF TxAnswered, Return, Typed, AnswersFit, JoinResponsesReal, TxResponsesReal,
       JoinMeansJoined, Joins, peers
  <2>3. response[c] \in [EndorsersOf[c] -> Responses] /\ c \in Calls \ Joins
    BY <1>7 DEF Typed, TxAnswered, Joins
  <2>4. ASSUME answer'[c] = "found" PROVE EndorsersOf[c] \subseteq has
    <3>1. EndorseALL(response[c], {})
      BY <1>7, <2>4 DEF TxAnswered, Return, Typed
    <3>2. QED BY <2>3, <3>1, AllEndorse DEF TxResponsesReal
  <2>5. ASSUME answer'[c] = "notFound" PROVE lacked[c] # {}
    <3>1. TxNotFound(response[c])
      BY <1>7, <2>5 DEF TxAnswered, Return, Typed
    <3>2. PICK p \in EndorsersOf[c] : response[c][p] = NoSuchTransaction
      BY <2>3, <3>1 DEF TxNotFound, SanCheck
    <3>3. QED BY <2>3, <3>2 DEF TxResponsesReal
  <2>6. TxAnswerIsReal'
    BY <1>7, <2>4, <2>5 DEF TxAnswered, Return, Typed, TxAnswerIsReal, peers
  <2>7. QED BY <2>1, <2>2, <2>6
<1>8. QED
  BY <1>1, <1>2, <1>3, <1>4, <1>5, <1>6, <1>7 DEF Caller

\* The steps of peers.
LEMMA PeerStep ==
    ASSUME Inv, NEW c \in Calls, NEW p \in Peers,
           PeerBegins(c, p) \/ PeerRefuses(c, p) \/ PeerLooksUp(c, p)
           \/ \E r \in {Failed, SystemError} : PeerFails(c, p, r)
    PROVE  Inv'
<1> USE QueryHubAssumption DEF Inv
<1>1. CASE PeerBegins(c, p)
  BY <1>1 DEF PeerBegins, calling, Typed, AnswersFit, CreatorsWait, Open, JoinResponsesReal,
     TxResponsesReal, JoinMeansJoined, TxAnswerIsReal, Joins
<1>2. CASE PeerRefuses(c, p)
  <2>1. PICK r \in {AlreadyActive, UnderConstruction} :
            Respond(c, p, r) /\ (r = AlreadyActive => channel[p] = "active")
    BY <1>2, ResponsesApart DEF PeerRefuses
  <2>2. c \in Joins /\ p \in EndorsersOf[c] /\ r \in Responses /\ creator[p] # c
    BY <1>2, <2>1 DEF PeerRefuses, Open, Responses
  <2>3. Typed' /\ AnswersFit' /\ JoinMeansJoined' /\ TxAnswerIsReal'
    BY <1>2, <2>1, <2>2, OneResponds DEF PeerRefuses, peers, Typed, AnswersFit, JoinMeansJoined, TxAnswerIsReal
  <2>4. CreatorsWait'
    BY <1>2, <2>1, <2>2, OneResponds DEF PeerRefuses, peers, Typed, CreatorsWait, Open, Joins
  <2>5. JoinResponsesReal' /\ TxResponsesReal'
    BY <1>2, <2>1, <2>2, OneResponds, ResponsesApart DEF PeerRefuses, peers, JoinResponsesReal, TxResponsesReal, Joins
  <2>6. QED BY <2>3, <2>4, <2>5
<1>3. CASE PeerLooksUp(c, p)
  <2>1. PICK r \in {Endorsed, NoSuchTransaction} :
            Respond(c, p, r) /\ (r = Endorsed <=> p \in has)
    BY <1>3, ResponsesApart DEF PeerLooksUp
  <2>2. c \in Calls \ Joins /\ p \in EndorsersOf[c] /\ r \in Responses /\ pc[c] = "asked"
    BY <1>3, <2>1 DEF PeerLooksUp, Open, Responses, Joins
  <2>3. Typed' /\ AnswersFit' /\ JoinMeansJoined' /\ TxAnswerIsReal'
    BY <1>3, <2>1, <2>2, OneResponds DEF PeerLooksUp, peers, Typed, AnswersFit, JoinMeansJoined, TxAnswerIsReal
  <2>4. CreatorsWait'
    <3>1. \A q \in Peers : creator[q] # NoCall => creator[q] \in Calls /\ creator[q] # c
      BY <2>2 DEF CreatorsWait, Joins
    <3>2. \A d \in Calls \ {c} : \A q \in EndorsersOf[d] : response'[d][q] = response[d][q]
      BY <2>1, <2>2, OneResponds
    <3>3. UNCHANGED <<pc, channel, creator>>
      BY <1>3 DEF PeerLooksUp, peers
    <3>4. QED BY <3>1, <3>2, <3>3 DEF CreatorsWait, Open
  <2>5. JoinResponsesReal' /\ TxResponsesReal'
    BY <1>3, <2>1, <2>2, OneResponds, ResponsesApart DEF PeerLooksUp, peers, JoinResponsesReal, TxResponsesReal, Joins
  <2>6. QED BY <2>3, <2>4, <2>5
<1>4. ASSUME NEW r \in {Failed, SystemError}, PeerFails(c, p, r) PROVE Inv'
  <2>1. Respond(c, p, r) /\ p \in EndorsersOf[c] /\ r \in Responses
    BY <1>4 DEF PeerFails, Open, Responses
  <2>2. \A q \in Peers : channel[q] = "active" => channel'[q] = "active"
    BY <1>4 DEF PeerFails, Typed, CreatorsWait
  <2>3. Typed' /\ AnswersFit' /\ JoinMeansJoined' /\ TxAnswerIsReal'
    BY <1>4, <2>1, <2>2, OneResponds DEF PeerFails, Typed, AnswersFit, JoinMeansJoined, TxAnswerIsReal, Joins
  <2>4. CreatorsWait'
    BY <1>4, <2>1, OneResponds DEF PeerFails, Typed, CreatorsWait, Open, Joins
  <2>5. JoinResponsesReal' /\ TxResponsesReal'
    BY <1>4, <2>1, <2>2, OneResponds, ResponsesApart DEF PeerFails, JoinResponsesReal, TxResponsesReal, Joins
  <2>6. QED BY <2>3, <2>4, <2>5
<1>5. QED BY <1>1, <1>2, <1>3, <1>4

\* A peer completes its ledger, or commits the transaction.
LEMMA LedgerStep ==
    ASSUME Inv, NEW p \in Peers, PeerCreates(p) \/ PeerCommits(p)
    PROVE  Inv'
<1> USE QueryHubAssumption DEF Inv
<1>1. CASE PeerCommits(p)
  BY <1>1 DEF PeerCommits, calling, Typed, AnswersFit, CreatorsWait, Open, JoinResponsesReal,
     TxResponsesReal, JoinMeansJoined, TxAnswerIsReal, Joins
<1>2. CASE PeerCreates(p) /\ creator[p] = NoCall
  BY <1>2 DEF PeerCreates, Typed, AnswersFit, CreatorsWait, Open, JoinResponsesReal,
     TxResponsesReal, JoinMeansJoined, TxAnswerIsReal, Joins
<1>3. CASE PeerCreates(p) /\ creator[p] # NoCall
  <2> DEFINE c == creator[p]
  <2>1. c \in Joins /\ c \in Calls /\ p \in EndorsersOf[c] /\ Respond(c, p, Endorsed) /\ Endorsed \in Responses
    BY <1>3 DEF PeerCreates, CreatorsWait, Open, Joins, Responses
  <2>2. channel'[p] = "active" /\ \A q \in Peers \ {p} : channel'[q] = channel[q]
    BY <1>3 DEF PeerCreates, Typed
  <2> HIDE DEF c
  <2>3. Typed' /\ AnswersFit' /\ JoinMeansJoined' /\ TxAnswerIsReal'
    BY <1>3, <2>1, <2>2, OneResponds DEF PeerCreates, Typed, AnswersFit, JoinMeansJoined, TxAnswerIsReal, Joins
  <2>4. CreatorsWait'
    BY <1>3, <2>1, <2>2, OneResponds DEF PeerCreates, Typed, CreatorsWait, Open, Joins
  <2>5. JoinResponsesReal' /\ TxResponsesReal'
    BY <1>3, <2>1, <2>2, OneResponds, ResponsesApart DEF PeerCreates, JoinResponsesReal, TxResponsesReal, Joins
  <2>6. QED BY <2>3, <2>4, <2>5
<1>4. QED BY <1>1, <1>2, <1>3

LEMMA Inductive == Spec => []Inv
<1>1. Inv /\ [Next]_vars => Inv'
  <2> SUFFICES ASSUME Inv, [Next]_vars PROVE Inv'
    OBVIOUS
  <2>1. CASE UNCHANGED vars
    BY <2>1 DEF vars, calling, peers, Inv, Typed, AnswersFit, CreatorsWait, Open, JoinResponsesReal,
       TxResponsesReal, JoinMeansJoined, TxAnswerIsReal
  <2>2. QED BY <2>1, CallerStep, PeerStep, LedgerStep DEF Next
<1>2. QED BY <1>1, InitInv, PTL DEF Spec
-----------------------------------------------------------------------------
\* The type invariant: a call answers as its kind does, and a ledger that is
\* under construction has its join.
THEOREM TypeCorrect == Spec => []TypeOK
<1>1. Inv => TypeOK
  BY DEF Inv, Typed, AnswersFit, CreatorsWait, TypeOK
<1>2. QED BY <1>1, Inductive, PTL

\* A join that does not throw leaves all its peers with the channel
\* (nodejs/query.js:124-157).
THEOREM JoinIsJoined == Spec => []JoinMeansJoined
<1>1. Inv => JoinMeansJoined
  BY DEF Inv
<1>2. QED BY <1>1, Inductive, PTL

\* tx answers from the ledgers of its peers (nodejs/query.js:20-47).
THEOREM TxIsReal == Spec => []TxAnswerIsReal
<1>1. Inv => TxAnswerIsReal
  BY DEF Inv
<1>2. QED BY <1>1, Inductive, PTL
=============================================================================

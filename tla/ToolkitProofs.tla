---------------------------- MODULE ToolkitProofs ----------------------------
(***************************************************************************)
(* Proofs about four parts that share nothing.                             *)
(*                                                                         *)
(* EventHub, for any queries one after the other on a hub, any arguments   *)
(* of theirs, and any length of the chain.                                 *)
(*                                                                         *)
(* ConfigFactory, for any document, organisations, arguments and length of *)
(* a chain of edits.                                                       *)
(*                                                                         *)
(* CryptoGen, for any runs, identities, roles and number of failures.      *)
(*                                                                         *)
(* Policies, for any texts, policies, collections and number of settings.  *)
(***************************************************************************)
EXTENDS EventHub, ConfigFactory, CryptoGen, Policies, SequenceTheorems,
        FiniteSetTheorems, TLAPS

(***************************************************************************)
(* EventHub: one query after the other on a hub.                           *)
(***************************************************************************)
States == {"idle", "waiting", "resolved", "rejected"}

\* The one query that waits has the stream, and the callbacks that need an end
\* of their own are registered until they have it.
Alone(q) ==
    Waiting(q) =>
        /\ phase # "none" => seek.sent = q
        /\ \A r \in Queries : Waiting(r) => r = q
        /\ RejectsOnError(q) => q \in listening

\* A query keeps nothing before its stream is open.
KeptNone(q) ==
    /\ state[q] = "idle" => got[q] = <<>>
    /\ Waiting(q) /\ Op[q].kind \in {"future", "replay"} /\ phase # "open" => got[q] = <<>>

\* How far the stream of a query that waits is ahead of what its callback kept.
Follows(q) ==
    Waiting(q) /\ phase = "open" =>
        /\ Op[q].kind = "last" => next >= asked[q] - 1
        /\ Op[q].kind = "future" => next >= asked[q] - 1 + Len(got[q])
        /\ Op[q].kind = "replay" =>
               got[q] = [i \in 1..next |-> i - 1] /\ (next < Op[q].arg \/ next = 0)

Answer(q) ==
    state[q] = "resolved" =>
        /\ value[q] < height
        /\ Op[q].kind \in {"single", "until"} => value[q] = Op[q].arg
        /\ Op[q].kind = "last" => value[q] >= asked[q] - 1
        /\ Op[q].kind = "future" => value[q] >= asked[q] - 1 + Op[q].arg
        /\ Op[q].kind = "replay" =>
               got[q] = [i \in 1..(IF Op[q].arg = 0 THEN 1 ELSE Op[q].arg) |-> i - 1]

QueryInv(q) == asked[q] <= height /\ Alone(q) /\ KeptNone(q) /\ Follows(q) /\ Answer(q)

Inv == TypeOK /\ HubIsClean /\ \A q \in Queries : QueryInv(q)
-----------------------------------------------------------------------------
LEMMA QueryOf ==
    ASSUME Inv, NEW q \in Queries
    PROVE  /\ TypeOK /\ HubIsClean
           /\ asked[q] <= height /\ Alone(q) /\ KeptNone(q) /\ Follows(q) /\ Answer(q)
BY DEF Inv, QueryInv

LEMMA Numbers ==
    ASSUME TypeOK, NEW q \in Queries
    PROVE  /\ height \in Nat /\ height >= 1 /\ next \in Nat /\ asked[q] \in Nat /\ value[q] \in Nat
           /\ Op[q].arg \in Nat /\ Op[q].kind \in Kinds
           /\ got[q] \in Seq(Nat) /\ Len(got[q]) \in Nat
           /\ state[q] \in States
<1>1. height \in 1..MaxHeight /\ MaxHeight \in Nat
  BY EventHubAssumption DEF TypeOK
<1>2. Op[q] \in [kind : Kinds, arg : Nat, end : Nat]
  BY EventHubAssumption
<1>3. got[q] \in Seq(Nat)
  BY DEF TypeOK
<1>4. Op[q].arg \in Nat /\ Op[q].kind \in Kinds
  BY <1>2
<1>5. Len(got[q]) \in Nat
  BY <1>3, LenProperties
<1>6. height \in Nat /\ height >= 1
  BY <1>1
<1>7. next \in Nat /\ asked[q] \in Nat /\ value[q] \in Nat /\ state[q] \in States
  BY DEF TypeOK, States
<1>8. QED BY <1>3, <1>4, <1>5, <1>6, <1>7

\* The blocks from the first, and one more.
LEMMA OneMore ==
    ASSUME NEW n \in Nat
    PROVE  /\ Append([i \in 1..n |-> i - 1], n) = [i \in 1..(n + 1) |-> i - 1]
           /\ Len([i \in 1..n |-> i - 1]) = n
<1> DEFINE s == [i \in 1..n |-> i - 1]
           t == [i \in 1..(n + 1) |-> i - 1]
<1>1. s \in Seq(Nat) /\ Len(s) = n /\ t \in Seq(Nat) /\ Len(t) = n + 1
  OBVIOUS
<1>2. Append(s, n) \in Seq(Nat) /\ Len(Append(s, n)) = n + 1
  BY <1>1, AppendProperties
<1>3. \A i \in 1..(n + 1) : Append(s, n)[i] = t[i]
  <2> TAKE i \in 1..(n + 1)
  <2>1. CASE i = n + 1
    <3>1. Append(s, n)[n + 1] = n
      BY <1>1, AppendProperties
    <3>2. t[n + 1] = n
      OBVIOUS
    <3>3. QED BY <2>1, <3>1, <3>2
  <2>2. CASE i # n + 1
    <3>1. i \in 1..n
      BY <2>2
    <3>2. Append(s, n)[i] = s[i]
      BY <1>1, <3>1, AppendProperties
    <3>3. QED BY <3>1, <3>2
  <2>3. QED BY <2>1, <2>2
<1>4. QED BY <1>1, <1>2, <1>3, SeqEqual

\* A step that leaves the stream and the queries as they are.
LEMMA Undisturbed ==
    ASSUME Inv, UNCHANGED <<stream, listening, promises, asked>>,
           height' \in Nat, height' >= height, TypeOK'
    PROVE  Inv'
<1>1. HubIsClean'
  BY DEF Inv, HubIsClean, Waiting, promises
<1>2. ASSUME NEW q \in Queries PROVE QueryInv(q)'
  <2>1. asked'[q] <= height'
    BY Numbers, QueryOf
  <2>2. Alone(q)' /\ KeptNone(q)' /\ Follows(q)'
    BY QueryOf DEF Alone, KeptNone, Follows, Waiting, RejectsOnError, stream, promises
  <2>3. Answer(q)'
    <3>1. state'[q] = state[q] /\ value'[q] = value[q] /\ got'[q] = got[q] /\ asked'[q] = asked[q]
      BY DEF promises
    <3>2. value[q] < height => value[q] < height'
      BY Numbers DEF Inv
    <3>3. QED BY <3>1, <3>2, QueryOf DEF Answer
  <2>4. QED BY <2>1, <2>2, <2>3 DEF QueryInv
<1>3. QED BY <1>1, <1>2 DEF Inv

LEMMA ServiceStep ==
    ASSUME Inv, SetSigningProcess \/ NewBlock \/ (\E q \in Queries : SignatureArrives(q))
    PROVE  Inv'
<1>1. UNCHANGED <<stream, listening, promises, refused, asked>>
  BY DEF SetSigningProcess, NewBlock, SignatureArrives
<1>2. height' \in 1..MaxHeight /\ height' \in Nat /\ height' >= height
  <2>1. height \in 1..MaxHeight /\ MaxHeight \in Nat
    BY EventHubAssumption DEF Inv, TypeOK
  <2>2. height' = height \/ (height < MaxHeight /\ height' = height + 1)
    BY DEF SetSigningProcess, NewBlock, SignatureArrives
  <2>3. QED BY <2>1, <2>2
<1>3. /\ offline' \in BOOLEAN /\ payload' \in Queries \cup {NoQuery}
      /\ signed' \in Queries \cup {NoQuery} /\ signing' \subseteq Queries
  BY DEF SetSigningProcess, NewBlock, SignatureArrives, service, Inv, TypeOK
<1>4. TypeOK'
  BY <1>1, <1>2, <1>3 DEF Inv, TypeOK, stream, promises
<1>5. QED BY <1>1, <1>2, <1>4, Undisturbed

LEMMA QueryStep ==
    ASSUME Inv, NEW q \in Queries, Query(q)
    PROVE  Inv'
<1>1. /\ state[q] = "idle" /\ phase = "none" /\ \A r \in Queries : ~Waiting(r)
      /\ state' = [state EXCEPT ![q] = "waiting"] /\ asked' = [asked EXCEPT ![q] = height]
      /\ listening' = listening \cup {q} /\ UNCHANGED <<height, got, value, offline>>
  BY DEF Query, Build
<1>2. /\ payload' = q /\ signed' \in Queries \cup {NoQuery} /\ signing' \subseteq Queries
  BY DEF Query, Build, Inv, TypeOK
<1>3. \/ phase' = "opening" /\ seek' = [sent |-> q, signed |-> signed'] /\ next' = 0 /\ refused' = refused
      \/ refused' = refused \cup {q} /\ phase' = "none" /\ seek' = seek /\ next' = next
  BY <1>1, <1>2 DEF Query, Connect, stream
<1>4. /\ seek' \in [sent : Queries \cup {NoQuery}, signed : Queries \cup {NoQuery}]
      /\ phase' # "none" => seek'.sent = q
      /\ phase' \in {"none", "opening"} /\ next' \in Nat /\ refused' \subseteq Queries
  <2>1. CASE phase' = "opening" /\ seek' = [sent |-> q, signed |-> signed'] /\ next' = 0 /\ refused' = refused
    BY <1>2, <2>1 DEF Inv, TypeOK
  <2>2. CASE refused' = refused \cup {q} /\ phase' = "none" /\ seek' = seek /\ next' = next
    BY <2>2 DEF Inv, TypeOK
  <2>3. QED BY <1>3, <2>1, <2>2
<1>5. /\ \A r \in Queries : state'[r] = IF r = q THEN "waiting" ELSE state[r]
      /\ \A r \in Queries : asked'[r] = IF r = q THEN height ELSE asked[r]
  BY <1>1 DEF Inv, TypeOK
<1>6. TypeOK'
  <2>1. height \in Nat
    BY Numbers DEF Inv
  <2>2. state' \in [Queries -> States] /\ asked' \in [Queries -> Nat] /\ listening' \subseteq Queries
    BY <1>1, <2>1 DEF Inv, TypeOK, States
  <2>3. QED BY <1>1, <1>2, <1>4, <2>2 DEF Inv, TypeOK, States
<1>7. HubIsClean'
  BY <1>1, <1>5 DEF Inv, HubIsClean, Waiting
<1>8. ASSUME NEW r \in Queries PROVE QueryInv(r)'
  <2>1. asked'[r] <= height'
    BY <1>1, <1>5, Numbers, QueryOf
  <2>2. Alone(r)' /\ KeptNone(r)' /\ Follows(r)'
    BY <1>1, <1>4, <1>5, QueryOf DEF Alone, KeptNone, Follows, Waiting
  <2>3. Answer(r)'
    BY <1>1, <1>5, QueryOf DEF Answer
  <2>4. QED BY <2>1, <2>2, <2>3 DEF QueryInv
<1>9. QED BY <1>6, <1>7, <1>8 DEF Inv

LEMMA OpenStreamStep ==
    ASSUME Inv, OpenStream
    PROVE  Inv'
<1>1. /\ phase = "opening" /\ phase' = "open" /\ next' = StartBlock(seek.sent) /\ seek.sent \in Queries
      /\ UNCHANGED <<height, service, seek, listening, promises, refused, asked>>
  BY DEF OpenStream, Inv, TypeOK
<1>2. next' \in Nat /\ (Op[seek.sent].kind \in {"last", "future"} => next' = height - 1)
      /\ (Op[seek.sent].kind = "replay" => next' = 0)
  BY <1>1, Numbers DEF Inv, StartBlock, Kinds
<1>3. TypeOK'
  BY <1>1, <1>2 DEF Inv, TypeOK, service, promises
<1>4. HubIsClean'
  BY <1>1 DEF Inv, HubIsClean, Waiting, promises
<1>5. ASSUME NEW q \in Queries PROVE QueryInv(q)'
  <2>1. Alone(q)' /\ KeptNone(q)' /\ Answer(q)' /\ asked'[q] <= height'
    BY <1>1, QueryOf DEF Alone, KeptNone, Answer, Waiting, RejectsOnError, promises
  <2>2. Follows(q)'
    <3> SUFFICES ASSUME Waiting(q) PROVE Follows(q)'
      BY <1>1 DEF Follows, Waiting, promises
    <3>1. seek.sent = q /\ (Op[q].kind \in {"future", "replay"} => got[q] = <<>>)
      BY <1>1, QueryOf DEF Alone, KeptNone
    <3>2. Op[q].kind \in {"last", "future"} => next' >= asked[q] - 1
      BY <1>2, <3>1, Numbers, QueryOf
    <3>3. Op[q].kind = "future" => next' >= asked[q] - 1 + Len(got[q])
      <4>1. Op[q].kind = "future" => Len(got[q]) = 0
        BY <3>1
      <4>2. QED BY <3>2, <4>1, Numbers DEF Inv
    <3>4. Op[q].kind = "replay" => got[q] = [i \in 1..next' |-> i - 1] /\ next' = 0
      BY <1>2, <3>1
    <3>5. QED BY <1>1, <3>2, <3>3, <3>4 DEF Follows, promises
  <2>3. QED BY <2>1, <2>2 DEF QueryInv
<1>6. QED BY <1>3, <1>4, <1>5 DEF Inv

LEMMA CloseStep ==
    ASSUME Inv, Close
    PROVE  Inv'
<1>1. /\ phase' = "none" /\ listening' = {}
      /\ UNCHANGED <<height, service, seek, next, got, value, refused, asked>>
      /\ state' = [q \in Queries |-> IF q \in listening /\ Waiting(q) /\ RejectsOnError(q)
                                     THEN "rejected" ELSE state[q]]
  BY DEF Close
<1>2. TypeOK'
  BY <1>1 DEF Inv, TypeOK, service
<1>3. HubIsClean'
  BY <1>1 DEF HubIsClean
<1>4. ASSUME NEW q \in Queries PROVE QueryInv(q)'
  <2>1. /\ Waiting(q)' => Waiting(q) /\ ~RejectsOnError(q)
        /\ state'[q] \in {"idle", "resolved"} => state'[q] = state[q]
    BY <1>1, QueryOf DEF Alone, Waiting
  <2>2. Alone(q)'
    <3>1. \A r \in Queries : Waiting(r)' => Waiting(r)
      BY <1>1 DEF Waiting
    <3>2. QED BY <1>1, <2>1, <3>1, QueryOf DEF Alone, RejectsOnError
  <2>3. KeptNone(q)' /\ Follows(q)' /\ Answer(q)' /\ asked'[q] <= height'
    BY <1>1, <2>1, QueryOf DEF KeptNone, Follows, Answer, RejectsOnError
  <2>4. QED BY <2>2, <2>3 DEF QueryInv
<1>5. QED BY <1>2, <1>3, <1>4 DEF Inv

\* A block for the query that waits.
LEMMA BlockFor ==
    ASSUME Inv, NEW q \in Queries, ReceiveBlock, q \in listening
    PROVE  QueryInv(q)'
<1>1. /\ phase = "open" /\ next < height /\ next' = next + 1
      /\ UNCHANGED <<height, service, phase, seek, refused, asked>>
  BY DEF ReceiveBlock
<1>2. Waiting(q)
  BY DEF Inv, HubIsClean
<1>3. /\ got'[q] = IF Keeps(q, next) THEN Append(got[q], next) ELSE got[q]
      /\ state'[q] = IF Resolves(q, next) THEN "resolved" ELSE "waiting"
      /\ value'[q] = IF Resolves(q, next) THEN next ELSE value[q]
      /\ \A r \in Queries : Waiting(r)' => Waiting(r)
  BY <1>2 DEF ReceiveBlock, Waiting
<1>4. Alone(q)'
  <2>1. state'[q] = "waiting" => ~Resolves(q, next)
    BY <1>3
  <2>2. state'[q] = "waiting" /\ RejectsOnError(q) => q \in listening'
    BY <2>1 DEF ReceiveBlock, OneShot, Unregisters, RejectsOnError
  <2>3. QED BY <1>1, <1>2, <1>3, <2>2, QueryOf DEF Alone, RejectsOnError, Waiting
<1>5. KeptNone(q)'
  BY <1>1, <1>3 DEF KeptNone, Waiting
<1>6. Follows(q)'
  <2> SUFFICES ASSUME ~Resolves(q, next) PROVE Follows(q)'
    BY <1>3 DEF Follows, Waiting
  <2>1. Op[q].kind # "last"
    BY DEF Resolves
  <2>2. Op[q].kind = "future" => next' >= asked'[q] - 1 + Len(got'[q])
    <3> SUFFICES ASSUME Op[q].kind = "future" PROVE next' >= asked'[q] - 1 + Len(got'[q])
      OBVIOUS
    <3>1. next >= asked[q] - 1 + Len(got[q])
      BY <1>1, <1>2, QueryOf DEF Follows
    <3>2. Len(got'[q]) \in {Len(got[q]), Len(got[q]) + 1}
      BY <1>3, Numbers, AppendProperties DEF Inv
    <3> DEFINE a == Len(got[q])
               b == Len(got'[q])
    <3>3. a \in Nat /\ b \in {a, a + 1} /\ next >= asked[q] - 1 + a /\ next \in Nat /\ asked[q] \in Nat
      BY <3>1, <3>2, Numbers DEF Inv
    <3> HIDE DEF a, b
    <3>4. next' >= asked'[q] - 1 + b
      BY <1>1, <3>3
    <3>5. QED BY <3>4 DEF b
  <2>3. Op[q].kind = "replay" => got'[q] = [i \in 1..next' |-> i - 1] /\ next' < Op[q].arg
    <3> SUFFICES ASSUME Op[q].kind = "replay"
                 PROVE  got'[q] = [i \in 1..next' |-> i - 1] /\ next' < Op[q].arg
      OBVIOUS
    <3>1. got[q] = [i \in 1..next |-> i - 1] /\ next \in Nat
      BY <1>1, <1>2, QueryOf, Numbers DEF Follows
    <3>2. Len(got[q]) = next /\ Append(got[q], next) = [i \in 1..(next + 1) |-> i - 1]
      BY <3>1, OneMore
    <3>3. ~(Len(got[q]) + 1 >= Op[q].arg)
      BY DEF Resolves
    <3>4. next + 1 < Op[q].arg
      BY <3>1, <3>2, <3>3, Numbers DEF Inv
    <3>5. QED BY <1>1, <1>3, <3>2, <3>4 DEF Keeps
  <2>4. QED BY <1>1, <2>1, <2>2, <2>3 DEF Follows
<1>7. Answer(q)'
  <2> SUFFICES ASSUME Resolves(q, next) PROVE Answer(q)'
    BY <1>3 DEF Answer
  <2>1. value'[q] = next /\ value'[q] < height'
    BY <1>1, <1>3
  <2>2. Op[q].kind \in {"single", "until"} => next = Op[q].arg
    BY DEF Resolves
  <2>3. Op[q].kind = "last" => next >= asked[q] - 1
    BY <1>1, <1>2, QueryOf DEF Follows
  <2>4. Op[q].kind = "future" => next >= asked[q] - 1 + Op[q].arg
    <3> DEFINE a == Len(got[q])
    <3>1. Op[q].kind = "future" => next >= asked[q] - 1 + a /\ a >= Op[q].arg
      BY <1>1, <1>2, QueryOf DEF Follows, Resolves
    <3>2. a \in Nat /\ next \in Nat /\ asked[q] \in Nat /\ Op[q].arg \in Nat
      BY Numbers DEF Inv
    <3> HIDE DEF a
    <3>3. QED BY <3>1, <3>2
  <2>5. Op[q].kind = "replay" =>
            got'[q] = [i \in 1..(IF Op[q].arg = 0 THEN 1 ELSE Op[q].arg) |-> i - 1]
    <3> SUFFICES ASSUME Op[q].kind = "replay"
                 PROVE  got'[q] = [i \in 1..(IF Op[q].arg = 0 THEN 1 ELSE Op[q].arg) |-> i - 1]
      OBVIOUS
    <3>1. /\ got[q] = [i \in 1..next |-> i - 1] /\ next \in Nat /\ Op[q].arg \in Nat
          /\ next < Op[q].arg \/ next = 0
      BY <1>1, <1>2, QueryOf, Numbers DEF Follows
    <3>2. Len(got[q]) = next /\ Append(got[q], next) = [i \in 1..(next + 1) |-> i - 1]
      BY <3>1, OneMore
    <3>3. Len(got[q]) + 1 >= Op[q].arg
      BY DEF Resolves
    <3>4. next + 1 = IF Op[q].arg = 0 THEN 1 ELSE Op[q].arg
      BY <3>1, <3>2, <3>3
    <3>5. QED BY <1>3, <3>2, <3>4 DEF Keeps
  <2>6. QED BY <1>1, <2>1, <2>2, <2>3, <2>4, <2>5 DEF Answer
<1>8. QED BY <1>1, <1>4, <1>5, <1>6, <1>7, QueryOf DEF QueryInv

\* A block that passes a query by.
LEMMA BlockPasses ==
    ASSUME Inv, NEW q \in Queries, ReceiveBlock, q \notin listening
    PROVE  QueryInv(q)'
<1>1. /\ phase = "open" /\ next' = next + 1
      /\ UNCHANGED <<height, service, phase, seek, refused, asked>>
      /\ got'[q] = got[q] /\ state'[q] = state[q] /\ value'[q] = value[q]
      /\ \A r \in Queries : Waiting(r)' => Waiting(r)
  BY DEF ReceiveBlock, Waiting
<1>2. Waiting(q) => ~RejectsOnError(q)
  BY QueryOf DEF Alone
<1>3. Alone(q)' /\ KeptNone(q)' /\ Answer(q)' /\ asked'[q] <= height'
  BY <1>1, <1>2, QueryOf DEF Alone, KeptNone, Answer, Waiting, RejectsOnError
<1>4. Op[q].kind = "last" /\ Waiting(q) => next' >= asked[q] - 1
  <2>1. Op[q].kind = "last" /\ Waiting(q) => next >= asked[q] - 1
    BY <1>1, QueryOf DEF Follows
  <2>2. QED BY <1>1, <2>1, Numbers DEF Inv
<1>5. Follows(q)'
  BY <1>1, <1>2, <1>4 DEF Follows, Waiting, RejectsOnError
<1>6. QED BY <1>3, <1>5 DEF QueryInv

LEMMA ReceiveBlockStep ==
    ASSUME Inv, ReceiveBlock
    PROVE  Inv'
<1>1. /\ next' = next + 1 /\ UNCHANGED <<height, service, phase, seek, refused, asked>>
      /\ listening' \subseteq listening
  BY DEF ReceiveBlock
<1>2. TypeOK'
  <2>1. next \in Nat /\ next' \in Nat
    BY <1>1 DEF Inv, TypeOK
  <2>2. state' \in [Queries -> States] /\ value' \in [Queries -> Nat]
    BY <2>1 DEF ReceiveBlock, Inv, TypeOK, States
  <2>3. ASSUME NEW q \in Queries PROVE Append(got[q], next) \in Seq(Nat) /\ got[q] \in Seq(Nat)
    BY <2>1, Numbers, AppendProperties DEF Inv
  <2>4. got' \in [Queries -> Seq(Nat)]
    BY <2>3 DEF ReceiveBlock
  <2>5. QED BY <1>1, <2>1, <2>2, <2>4 DEF Inv, TypeOK, States, service
<1>3. HubIsClean'
  <2> SUFFICES ASSUME NEW q \in listening' PROVE q \in Queries /\ state'[q] = "waiting"
    BY DEF HubIsClean, Waiting
  <2>1. q \in listening /\ q \in Queries /\ Waiting(q)
    BY <1>1 DEF Inv, HubIsClean
  <2>2. ~Resolves(q, next)
    BY DEF ReceiveBlock, Unregisters
  <2>3. QED BY <2>1, <2>2 DEF ReceiveBlock, Waiting
<1>4. \A q \in Queries : QueryInv(q)'
  BY BlockFor, BlockPasses
<1>5. QED BY <1>2, <1>3, <1>4 DEF Inv

LEMMA Initially ==
    ASSUME Init
    PROVE  Inv
<1>1. 1 \in 1..MaxHeight
  BY EventHubAssumption
<1>2. TypeOK
  <2>1. /\ got \in [Queries -> Seq(Nat)] /\ value \in [Queries -> Nat] /\ asked \in [Queries -> Nat]
        /\ state \in [Queries -> {"idle", "waiting", "resolved", "rejected"}]
    BY DEF Init
  <2>2. seek \in [sent : Queries \cup {NoQuery}, signed : Queries \cup {NoQuery}]
    BY DEF Init
  <2>3. QED BY <1>1, <2>1, <2>2 DEF Init, TypeOK
<1>3. HubIsClean /\ \A q \in Queries : QueryInv(q)
  BY DEF Init, HubIsClean, QueryInv, Alone, KeptNone, Follows, Answer, Waiting
<1>4. QED BY <1>2, <1>3 DEF Inv

LEMMA Inductive ==
    ASSUME Inv, [Next]_vars
    PROVE  Inv'
<1>1. CASE UNCHANGED vars
  <2>1. UNCHANGED <<height, service, stream, listening, promises, refused, asked>>
    BY <1>1 DEF vars
  <2>2. height' \in Nat /\ height' >= height
    BY <2>1, EventHubAssumption DEF Inv, TypeOK
  <2>3. TypeOK'
    BY <2>1 DEF Inv, TypeOK, service, stream, promises
  <2>4. QED BY <2>1, <2>2, <2>3, Undisturbed
<1>2. CASE \E q \in Queries : Query(q)
  BY <1>2, QueryStep
<1>3. CASE SetSigningProcess \/ NewBlock \/ (\E q \in Queries : SignatureArrives(q))
  BY <1>3, ServiceStep
<1>4. CASE ReceiveBlock
  BY <1>4, ReceiveBlockStep
<1>5. CASE OpenStream
  BY <1>5, OpenStreamStep
<1>6. CASE Disconnect \/ EndOfSeek \/ BadSignature \/ StreamFails
  BY <1>6, CloseStep DEF Disconnect, EndOfSeek, BadSignature, StreamFails
<1>7. QED BY <1>1, <1>2, <1>3, <1>4, <1>5, <1>6 DEF Next

LEMMA Invariant == Spec => []Inv
<1>1. Init => Inv
  BY Initially
<1>2. Inv /\ [Next]_vars => Inv'
  BY Inductive
<1>3. QED BY <1>1, <1>2, PTL DEF Spec
-----------------------------------------------------------------------------
\* The hub, its stream and the promises keep their shape: a stream that is
\* open is that of a query.
THEOREM TypeCorrect == Spec => []TypeOK
<1>1. Inv => TypeOK
  BY DEF Inv
<1>2. QED BY <1>1, Invariant, PTL

\* The promise of each of the five queries resolves with the blocks the query
\* is about, however often the hub was used before, whatever failed on it, and
\* however the chain grew between the call and the stream.
THEOREM AnswersFit == Spec => []AnswerFitsQuery
<1>1. Inv => AnswerFitsQuery
  BY DEF Inv, QueryInv, Answer, AnswerFitsQuery
<1>2. QED BY <1>1, Invariant, PTL

\* When a query is over, its listener is off the hub: by {unregister: true}, by
\* the callback as it resolves, or by the EventService as it closes.
THEOREM HubClean == Spec => []HubIsClean
<1>1. Inv => HubIsClean
  BY DEF Inv
<1>2. QED BY <1>1, Invariant, PTL
-----------------------------------------------------------------------------
(***************************************************************************)
(* ConfigFactory: editing a configuration document.                        *)
(***************************************************************************)
\* What Apply does with an edit that does not throw, and with one that does.
LEMMA ApplyIs ==
    ASSUME NEW e \in Edits, NEW c, ~Throws(e, c)
    PROVE  /\ e.op = "deleteMSP" => Apply(e, c) = DeleteMSP(c, e.group, e.org)
           /\ e.op = "assignDictator" => Apply(e, c) = AssignDictator(c, e.group, e.mspid)
           /\ e.op = "setAnchorPeers" => Apply(e, c) = SetAnchorPeers(c, e.org, e.peers)
           /\ e.op = "createOrUpdateOrg" => Apply(e, c) = CreateOrUpdateOrg(c, e.group, e.org, e.new, e.skip)
           /\ e.op = "setCapability" => Apply(e, c) = SetCapability(c, e.version)
           /\ e.op = "addOrdererAddress" => Apply(e, c) = AddOrdererAddress(c, e.address)
           /\ e.op = "setConsensusType" => Apply(e, c) = SetConsensusType(c)
           /\ e.op = "setConsensusMetadata" => Apply(e, c) = SetConsensusMetadata(c, e.consenters, e.options)
           /\ e.op = "maintenanceMode" => Apply(e, c) = MaintenanceMode(c, e.in)
BY DEF Apply

LEMMA ApplyThrows ==
    ASSUME NEW e \in Edits, NEW c, Throws(e, c) \/ e.op = "addAdmin"
    PROVE  Apply(e, c) = c
BY DEF Apply

-----------------------------------------------------------------------------
\* Each edit, made twice, is as made once.
LEMMA DeleteRepeats ==
    ASSUME NEW c \in Config, NEW g \in Groups, NEW o \in Orgs
    PROVE  DeleteMSP(DeleteMSP(c, g, o), g, o) = DeleteMSP(c, g, o)
BY DEF DeleteMSP, Config

LEMMA AssignRepeats ==
    ASSUME NEW c \in Config, NEW g \in Groups, NEW m
    PROVE  AssignDictator(AssignDictator(c, g, m), g, m) = AssignDictator(c, g, m)
BY DEF AssignDictator, Config

LEMMA AnchorRepeats ==
    ASSUME NEW c \in Config, NEW o \in Orgs, NEW p, ~SetAnchorPeersThrows(c, o)
    PROVE  SetAnchorPeers(SetAnchorPeers(c, o, p), o, p) = SetAnchorPeers(c, o, p)
<1> DEFINE d == SetAnchorPeers(c, o, p)
<1>1. c.org["Application"][o] \in Org
  BY ConfigFactoryAssumption DEF SetAnchorPeersThrows, GetOrg, Config
<1>2. d.org["Application"][o] = [c.org["Application"][o] EXCEPT !.anchorPeers = p]
  BY ConfigFactoryAssumption DEF SetAnchorPeers, Config
<1>3. [d.org["Application"][o] EXCEPT !.anchorPeers = p] = d.org["Application"][o]
  BY <1>1, <1>2 DEF Org
<1>4. d = [d EXCEPT !.org["Application"][o] = d.org["Application"][o]]
  BY ConfigFactoryAssumption DEF SetAnchorPeers, Config
<1>5. SetAnchorPeers(d, o, p) = [d EXCEPT !.org["Application"][o] = [d.org["Application"][o] EXCEPT !.anchorPeers = p]]
  BY DEF SetAnchorPeers
<1>6. QED BY <1>3, <1>4, <1>5

LEMMA CreateRepeats ==
    ASSUME NEW c \in Config, NEW g \in Groups, NEW o \in Orgs, NEW new \in Org, NEW skip \in BOOLEAN
    PROVE  CreateOrUpdateOrg(CreateOrUpdateOrg(c, g, o, new, skip), g, o, new, skip)
           = CreateOrUpdateOrg(c, g, o, new, skip)
BY DEF CreateOrUpdateOrg, GetOrg, Config

LEMMA AddressRepeats ==
    ASSUME NEW c \in Config, NEW a \in Addresses
    PROVE  AddOrdererAddress(AddOrdererAddress(c, a), a) = AddOrdererAddress(c, a)
<1> DEFINE d == AddOrdererAddress(c, a)
<1>1. c.addresses \in Seq(Addresses)
  BY DEF Config
<1>2. Contains(d.addresses, a)
  <2>1. CASE Contains(c.addresses, a)
    BY <2>1 DEF AddOrdererAddress, Config
  <2>2. CASE ~Contains(c.addresses, a)
    <3>1. d.addresses = Append(c.addresses, a)
      BY <2>2 DEF AddOrdererAddress, Config
    <3>2. QED BY <1>1, <3>1, AppendProperties DEF Contains
  <2>3. QED BY <2>1, <2>2
<1>3. d = [d EXCEPT !.addresses = d.addresses]
  BY DEF AddOrdererAddress, Config
<1>4. AddOrdererAddress(d, a) = [d EXCEPT !.addresses = d.addresses]
  BY <1>2 DEF AddOrdererAddress
<1>5. QED BY <1>3, <1>4

LEMMA ValuesRepeat ==
    ASSUME NEW c \in Config, NEW v, NEW in
    PROVE  /\ SetCapability(SetCapability(c, v), v) = SetCapability(c, v)
           /\ SetConsensusType(SetConsensusType(c)) = SetConsensusType(c)
           /\ MaintenanceMode(MaintenanceMode(c, in), in) = MaintenanceMode(c, in)
BY DEF SetCapability, SetConsensusType, MaintenanceMode, Config

LEMMA MetadataRepeats ==
    ASSUME NEW c \in Config, NEW opt \in Options \cup {None}, c.metadata # None
    PROVE  SetConsensusMetadata(SetConsensusMetadata(c, None, opt), None, opt) = SetConsensusMetadata(c, None, opt)
<1> DEFINE m == c.metadata
           n == [consenters |-> m.consenters, options |-> IF opt = None THEN m.options ELSE opt]
           d == [c EXCEPT !.metadata = n]
<1>1. SetConsensusMetadata(c, None, opt) = d
  BY DEF SetConsensusMetadata, Config
<1>2. d.metadata = n /\ n # None
  <2>1. n \in Metadata
    BY DEF Config, Metadata
  <2>2. QED BY <2>1, ConfigFactoryAssumption DEF Config
<1>3. SetConsensusMetadata(d, None, opt) = [d EXCEPT !.metadata = n]
  <2>1. SetConsensusMetadata(d, None, opt) =
          [d EXCEPT !.metadata = [consenters |-> n.consenters, options |-> IF opt = None THEN n.options ELSE opt]]
    BY <1>2 DEF SetConsensusMetadata, Config
  <2>2. QED BY <2>1
<1>4. [d EXCEPT !.metadata = n] = d
  BY DEF Config
<1>5. QED BY <1>1, <1>3, <1>4
-----------------------------------------------------------------------------
LEMMA OrgsReplaced ==
    ASSUME NEW c \in Config, NEW orgs \in [Groups -> [Orgs -> Org \cup {None}]]
    PROVE  [c EXCEPT !.org = orgs] \in Config
BY DEF Config

LEMMA AdminsReplaced ==
    ASSUME NEW c \in Config, NEW admins \in [Groups -> MSPs \cup {None}]
    PROVE  [c EXCEPT !.admins = admins] \in Config
BY DEF Config

LEMMA OrgReplaced ==
    ASSUME NEW c \in Config, NEW g \in Groups, NEW o \in Orgs, NEW new \in Org \cup {None}
    PROVE  [c EXCEPT !.org[g][o] = new] \in Config
<1>1. c.org \in [Groups -> [Orgs -> Org \cup {None}]]
  BY DEF Config
<1>2. [c.org EXCEPT ![g][o] = new] \in [Groups -> [Orgs -> Org \cup {None}]]
  BY <1>1
<1>3. [c EXCEPT !.org[g][o] = new] = [c EXCEPT !.org = [c.org EXCEPT ![g][o] = new]]
  OBVIOUS
<1>4. QED BY <1>2, <1>3, OrgsReplaced

\* An organisation that is created.
LEMMA NewOrgIsOrg ==
    \A a \in OrgArguments : NewOrg(a.mspid, a.admins, a.roots) \in Org
<1> SUFFICES ASSUME NEW a \in OrgArguments PROVE NewOrg(a.mspid, a.admins, a.roots) \in Org
  OBVIOUS
<1>1. a.mspid \in MSPs /\ a.admins \subseteq Certs /\ a.roots \subseteq Certs
  BY ConfigFactoryAssumption
<1>2. /\ {ToBase64(x) : x \in a.admins} \subseteq {ToBase64(x) : x \in Certs}
      /\ {ToBase64(x) : x \in a.roots} \subseteq {ToBase64(x) : x \in Certs}
  BY <1>1
<1>3. QED BY <1>1, <1>2 DEF NewOrg, Org

\* An edit leaves a document.
LEMMA EditKeepsConfig ==
    ASSUME NEW e \in Edits, NEW c \in Config
    PROVE  Apply(e, c) \in Config
<1>1. CASE Throws(e, c) \/ e.op = "addAdmin"
  BY <1>1, ApplyThrows
<1>2. CASE ~Throws(e, c) /\ e.op = "deleteMSP"
  <2>1. e.group \in Groups /\ e.org \in Orgs
    BY <1>2 DEF Edits
  <2>2. DeleteMSP(c, e.group, e.org) \in Config
    BY <2>1, OrgReplaced DEF DeleteMSP
  <2>3. QED BY <1>2, <2>2, ApplyIs
<1>3. CASE ~Throws(e, c) /\ e.op = "assignDictator"
  <2>1. e.group \in Groups /\ e.mspid \in MSPs
    BY <1>3 DEF Edits
  <2>2. [c.admins EXCEPT ![e.group] = e.mspid] \in [Groups -> MSPs \cup {None}]
    BY <2>1 DEF Config
  <2>3. AssignDictator(c, e.group, e.mspid) = [c EXCEPT !.admins = [c.admins EXCEPT ![e.group] = e.mspid]]
    BY DEF AssignDictator
  <2>4. AssignDictator(c, e.group, e.mspid) \in Config
    <3> DEFINE admins == [c.admins EXCEPT ![e.group] = e.mspid]
    <3> HIDE DEF admins
    <3>1. admins \in [Groups -> MSPs \cup {None}]
      BY <2>2 DEF admins
    <3>2. [c EXCEPT !.admins = admins] \in Config
      BY <3>1, AdminsReplaced
    <3>3. QED BY <2>3, <3>2 DEF admins
  <2>5. QED BY <1>3, <2>4, ApplyIs
<1>4. CASE ~Throws(e, c) /\ e.op = "setAnchorPeers"
  <2>1. e.org \in Orgs /\ e.peers \in AnchorPeers
    BY <1>4 DEF Edits
  <2>2. c.org["Application"][e.org] \in Org
    BY <1>4, <2>1, ConfigFactoryAssumption DEF Throws, SetAnchorPeersThrows, GetOrg, Config
  <2>3. [c.org["Application"][e.org] EXCEPT !.anchorPeers = e.peers] \in Org
    BY <2>1, <2>2 DEF Org
  <2>4. SetAnchorPeers(c, e.org, e.peers) =
          [c EXCEPT !.org["Application"][e.org] = [c.org["Application"][e.org] EXCEPT !.anchorPeers = e.peers]]
    BY <2>1, ConfigFactoryAssumption DEF SetAnchorPeers, Config
  <2>5. QED BY <1>4, <2>1, <2>3, <2>4, ApplyIs, OrgReplaced, ConfigFactoryAssumption
<1>5. CASE ~Throws(e, c) /\ e.op = "createOrUpdateOrg"
  <2>1. e.group \in Groups /\ e.org \in Orgs /\ e.new \in Org
    BY <1>5, NewOrgIsOrg DEF Edits
  <2>2. [c EXCEPT !.org[e.group][e.org] = e.new] \in Config
    BY <2>1, OrgReplaced
  <2>3. CreateOrUpdateOrg(c, e.group, e.org, e.new, e.skip) \in Config
    BY <2>2 DEF CreateOrUpdateOrg
  <2>4. QED BY <1>5, <2>3, ApplyIs
<1>6. CASE ~Throws(e, c) /\ e.op = "setCapability"
  <2>1. e.version \in Versions
    BY <1>6 DEF Edits
  <2>2. QED BY <1>6, <2>1, ApplyIs DEF SetCapability, Config
<1>7. CASE ~Throws(e, c) /\ e.op = "addOrdererAddress"
  <2>1. e.address \in Addresses
    BY <1>7 DEF Edits
  <2>2. Append(c.addresses, e.address) \in Seq(Addresses)
    BY <2>1, AppendProperties DEF Config
  <2>3. AddOrdererAddress(c, e.address) \in {c, [c EXCEPT !.addresses = Append(c.addresses, e.address)]}
    <3>1. c = [c EXCEPT !.addresses = c.addresses]
      BY DEF Config
    <3>2. QED BY <3>1 DEF AddOrdererAddress
  <2>4. [c EXCEPT !.addresses = Append(c.addresses, e.address)] \in Config
    <3> DEFINE a == Append(c.addresses, e.address)
    <3> HIDE DEF a
    <3>1. a \in Seq(Addresses)
      BY <2>2 DEF a
    <3>2. [c EXCEPT !.addresses = a] \in Config
      BY <3>1 DEF Config
    <3>3. QED BY <3>2 DEF a
  <2>5. QED BY <1>7, <2>3, <2>4, ApplyIs
<1>8. CASE ~Throws(e, c) /\ e.op = "setConsensusType"
  <2>1. SetConsensusType(c) \in Config
    BY DEF SetConsensusType, Config
  <2>2. QED BY <1>8, <2>1, ApplyIs
<1>9. CASE ~Throws(e, c) /\ e.op = "setConsensusMetadata"
  <2> DEFINE n == SetConsensusMetadata(c, e.consenters, e.options).metadata
  <2>1. e.consenters \in Consenters \cup {None} /\ e.options \in Options \cup {None}
    BY <1>9 DEF Edits
  <2>2. c.metadata \in Metadata \/ (c.metadata = None /\ e.consenters # None)
    BY <1>9 DEF Throws, MetadataThrows, Config
  <2>3. n \in Metadata
    BY <2>1, <2>2, ConfigFactoryAssumption DEF SetConsensusMetadata, Config, Metadata
  <2>4. SetConsensusMetadata(c, e.consenters, e.options) = [c EXCEPT !.metadata = n]
    BY DEF SetConsensusMetadata, Config
  <2>5. QED
    <3> HIDE DEF n
    <3>1. QED BY <1>9, <2>3, <2>4, ApplyIs DEF Config
<1>10. CASE ~Throws(e, c) /\ e.op = "maintenanceMode"
  BY <1>10, ApplyIs DEF MaintenanceMode, Config
<1>11. QED
  BY <1>1, <1>2, <1>3, <1>4, <1>5, <1>6, <1>7, <1>8, <1>9, <1>10 DEF Edits

\* An edit that was made can be made again.
LEMMA EditRepeats ==
    ASSUME NEW e \in Edits, NEW c \in Config,
           e.op = "setConsensusMetadata" => e.consenters = None
    PROVE  Apply(e, Apply(e, c)) = Apply(e, c)
<1> DEFINE d == Apply(e, c)
<1>1. CASE Throws(e, c) \/ e.op = "addAdmin"
  BY <1>1, ApplyThrows
<1>2. CASE Throws(e, d)
  BY <1>2, ApplyThrows
<1> SUFFICES ASSUME ~Throws(e, c), ~Throws(e, d), e.op # "addAdmin" PROVE Apply(e, d) = d
  BY <1>1, <1>2
<1> HIDE DEF d
<1>d. d = Apply(e, c)
  BY DEF d
<1>3. CASE e.op = "deleteMSP"
  <2>1. e.group \in Groups /\ e.org \in Orgs
    BY <1>3 DEF Edits
  <2>2. QED BY <1>3, <1>d, <2>1, ApplyIs, DeleteRepeats
<1>4. CASE e.op = "assignDictator"
  <2>1. e.group \in Groups
    BY <1>4 DEF Edits
  <2>2. QED BY <1>4, <1>d, <2>1, ApplyIs, AssignRepeats
<1>5. CASE e.op = "setAnchorPeers"
  <2>1. e.org \in Orgs /\ ~SetAnchorPeersThrows(c, e.org)
    BY <1>5 DEF Edits, Throws
  <2>2. QED BY <1>5, <1>d, <2>1, ApplyIs, AnchorRepeats
<1>6. CASE e.op = "createOrUpdateOrg"
  <2>1. e.group \in Groups /\ e.org \in Orgs /\ e.new \in Org /\ e.skip \in BOOLEAN
    BY <1>6, NewOrgIsOrg DEF Edits
  <2>2. QED BY <1>6, <1>d, <2>1, ApplyIs, CreateRepeats
<1>7. CASE e.op = "addOrdererAddress"
  <2>1. e.address \in Addresses
    BY <1>7 DEF Edits
  <2>2. QED BY <1>7, <1>d, <2>1, ApplyIs, AddressRepeats
<1>8. CASE e.op \in {"setCapability", "setConsensusType", "maintenanceMode"}
  BY <1>8, <1>d, ApplyIs, ValuesRepeat
<1>9. CASE e.op = "setConsensusMetadata"
  <2>1. e.options \in Options \cup {None} /\ e.consenters = None /\ c.metadata # None
    BY <1>9 DEF Edits, Throws, MetadataThrows
  <2>2. QED BY <1>9, <1>d, <2>1, ApplyIs, MetadataRepeats
<1>10. QED
  BY <1>3, <1>4, <1>5, <1>6, <1>7, <1>8, <1>9 DEF Edits
-----------------------------------------------------------------------------
\* The document is what the last edit made of the one before.
ConfigInv ==
    /\ ConfigTypeOK
    /\ last # None => config = Apply(last, before)

LEMMA ConfigInductive == ConfigSpec => []ConfigInv
<1>1. ConfigInit => ConfigInv
  BY ConfigFactoryAssumption DEF ConfigInit, ConfigInv, ConfigTypeOK
<1>2. ConfigInv /\ [ConfigNext]_configVars => ConfigInv'
  <2> SUFFICES ASSUME ConfigInv, [ConfigNext]_configVars PROVE ConfigInv'
    OBVIOUS
  <2>1. CASE UNCHANGED configVars
    BY <2>1 DEF configVars, ConfigInv, ConfigTypeOK
  <2>2. ASSUME NEW e \in Edits, Edit(e) PROVE ConfigInv'
    <3>1. config' = Apply(e, config) /\ before' = config /\ last' = e /\ edits' = edits + 1 /\ edits < MaxEdits
      BY <2>2 DEF Edit
    <3>2. Apply(e, config) \in Config
      BY EditKeepsConfig DEF ConfigInv, ConfigTypeOK
    <3>3. edits' \in 0..MaxEdits
      BY <3>1, ConfigFactoryAssumption DEF ConfigInv, ConfigTypeOK
    <3>4. QED BY <3>1, <3>2, <3>3 DEF ConfigInv, ConfigTypeOK
  <2>3. QED BY <2>1, <2>2 DEF ConfigNext
<1>3. QED BY <1>1, <1>2, PTL DEF ConfigSpec

\* Whatever the edits, in whatever order, what they leave is a document.
THEOREM ConfigTypeCorrect == ConfigSpec => []ConfigTypeOK
<1>1. ConfigInv => ConfigTypeOK
  BY DEF ConfigInv
<1>2. QED BY <1>1, ConfigInductive, PTL

\* An edit can be made again without effect, but for setConsensusMetadata
\* with consenters (nodejs/formatter/configFactory.js:309-338).
THEOREM RepeatsHarmless == ConfigSpec => []RepeatIsHarmless
<1>1. ConfigInv => RepeatIsHarmless
  <2> SUFFICES ASSUME ConfigInv, last # None, ~(last.op = "setConsensusMetadata" /\ last.consenters # None)
               PROVE  Apply(last, config) = config
    BY DEF RepeatIsHarmless
  <2>1. last \in Edits /\ before \in Config /\ config = Apply(last, before)
    BY DEF ConfigInv, ConfigTypeOK
  <2>2. QED BY <2>1, EditRepeats
<1>2. QED BY <1>1, ConfigInductive, PTL
-----------------------------------------------------------------------------
\* An edit part by part: each part of what it leaves is given by the edit and
\* by that part of the document alone.
OnOrg(e, g, o) ==
    \/ e.op \in {"deleteMSP", "addAdmin", "createOrUpdateOrg"} /\ e.group = g /\ e.org = o
    \/ e.op = "setAnchorPeers" /\ g = "Application" /\ e.org = o

OrgAfter(e, org) ==
    IF e.op = "deleteMSP" THEN None
    ELSE IF e.op = "createOrUpdateOrg" /\ ~(e.skip /\ org # None) THEN e.new
    ELSE IF e.op = "setAnchorPeers" /\ org # None THEN [org EXCEPT !.anchorPeers = e.peers]
    ELSE org

MetadataAfter(e, m) ==
    IF m = None
    THEN IF e.consenters = None THEN None
         ELSE [consenters |-> [encoded |-> TRUE, of |-> e.consenters],
               options |-> IF e.options = None THEN DefaultOptions ELSE e.options]
    ELSE [consenters |-> IF e.consenters = None THEN m.consenters
                         ELSE [encoded |-> FALSE, of |-> e.consenters],
          options |-> IF e.options = None THEN m.options ELSE e.options]

AddressesAfter(e, a) == IF Contains(a, e.address) THEN a ELSE Append(a, e.address)

OrgsPart(e, c, d) ==
    \A g \in Groups : \A o \in Orgs :
        d.org[g][o] = IF OnOrg(e, g, o) THEN OrgAfter(e, c.org[g][o]) ELSE c.org[g][o]

AdminsPart(e, c, d) ==
    \A g \in Groups :
        d.admins[g] = IF e.op = "assignDictator" /\ e.group = g THEN e.mspid ELSE c.admins[g]

ValuesPart(e, c, d) ==
    /\ d.capability = IF e.op = "setCapability" THEN e.version ELSE c.capability
    /\ d.type = IF e.op = "setConsensusType" /\ e.type = "etcdraft" THEN "etcdraft" ELSE c.type
    /\ d.kafkaBrokers = IF e.op = "setConsensusType" /\ e.type = "etcdraft" THEN FALSE ELSE c.kafkaBrokers
    /\ d.state = IF e.op # "maintenanceMode" THEN c.state
                 ELSE IF e.in THEN "STATE_MAINTENANCE" ELSE "STATE_NORMAL"

AddressesPart(e, c, d) ==
    d.addresses = IF e.op = "addOrdererAddress" THEN AddressesAfter(e, c.addresses) ELSE c.addresses

MetadataPart(e, c, d) ==
    d.metadata = IF e.op = "setConsensusMetadata" THEN MetadataAfter(e, c.metadata) ELSE c.metadata

Leaves(e, c, d) ==
    OrgsPart(e, c, d) /\ AdminsPart(e, c, d) /\ ValuesPart(e, c, d)
    /\ AddressesPart(e, c, d) /\ MetadataPart(e, c, d)

\* A document that has other organisations, and nothing else.
LEMMA OrgsOnly ==
    ASSUME NEW e \in Edits, NEW c \in Config, NEW orgs, OrgsPart(e, c, [c EXCEPT !.org = orgs]),
           e.op \in {"deleteMSP", "addAdmin", "createOrUpdateOrg", "setAnchorPeers"}
    PROVE  Leaves(e, c, [c EXCEPT !.org = orgs])
BY DEF Leaves, AdminsPart, ValuesPart, AddressesPart, MetadataPart, Config

\* ... or the same organisations.
LEMMA OrgsUntouched ==
    ASSUME NEW e \in Edits, NEW c, NEW d, d.org = c.org,
           e.op \notin {"deleteMSP", "addAdmin", "createOrUpdateOrg", "setAnchorPeers"}
    PROVE  OrgsPart(e, c, d)
BY DEF OrgsPart, OnOrg

\* One organisation is replaced.
LEMMA OneOrg ==
    ASSUME NEW c \in Config, NEW g \in Groups, NEW o \in Orgs, NEW new,
           NEW h \in Groups, NEW p \in Orgs
    PROVE  [c.org EXCEPT ![g][o] = new][h][p] = IF h = g /\ p = o THEN new ELSE c.org[h][p]
BY DEF Config

LEMMA ThrowsLeaves ==
    ASSUME NEW e \in Edits, NEW c \in Config, Throws(e, c) \/ e.op = "addAdmin"
    PROVE  Leaves(e, c, Apply(e, c))
<1>1. Apply(e, c) = c
  BY ApplyThrows
<1>2. OrgsPart(e, c, c)
  BY DEF Throws, SetAnchorPeersThrows, GetOrg, OrgsPart, OnOrg, OrgAfter
<1>3. /\ e.op \in {"addAdmin", "setAnchorPeers"} \/ (e.op = "setConsensusType" /\ e.type # "etcdraft")
         \/ (e.op = "setConsensusMetadata" /\ c.metadata = None /\ e.consenters = None)
  BY DEF Throws, MetadataThrows
<1>4. AdminsPart(e, c, c) /\ ValuesPart(e, c, c) /\ AddressesPart(e, c, c)
  BY <1>3 DEF AdminsPart, ValuesPart, AddressesPart
<1>5. MetadataPart(e, c, c)
  BY <1>3 DEF MetadataPart, MetadataAfter
<1>6. QED BY <1>1, <1>2, <1>4, <1>5 DEF Leaves

LEMMA OrgLeaves ==
    ASSUME NEW e \in Edits, NEW c \in Config, ~Throws(e, c),
           e.op \in {"deleteMSP", "setAnchorPeers", "createOrUpdateOrg"}
    PROVE  Leaves(e, c, Apply(e, c))
<1> DEFINE g == IF e.op = "setAnchorPeers" THEN "Application" ELSE e.group
           o == e.org
           new == OrgAfter(e, c.org[g][o])
           orgs == [c.org EXCEPT ![g][o] = new]
<1>1. g \in Groups /\ o \in Orgs
  BY ConfigFactoryAssumption DEF Edits
<1>2. \A h \in Groups : \A p \in Orgs : OnOrg(e, h, p) <=> h = g /\ p = o
  BY DEF OnOrg
<1>3. Apply(e, c) = [c EXCEPT !.org = orgs]
  <2>1. CASE e.op = "deleteMSP"
    BY <2>1, ApplyIs DEF DeleteMSP, OrgAfter
  <2>2. CASE e.op = "setAnchorPeers"
    <3>1. c.org["Application"][o] # None
      BY <2>2 DEF Throws, SetAnchorPeersThrows, GetOrg
    <3>2. new = [c.org[g][o] EXCEPT !.anchorPeers = e.peers] /\ g = "Application"
      BY <2>2, <3>1 DEF OrgAfter
    <3>3. SetAnchorPeers(c, o, e.peers) =
            [c EXCEPT !.org["Application"][o] = [c.org["Application"][o] EXCEPT !.anchorPeers = e.peers]]
      BY <1>1, <2>2, ConfigFactoryAssumption DEF SetAnchorPeers, Config
    <3>4. QED BY <2>2, <3>2, <3>3, ApplyIs
  <2>3. CASE e.op = "createOrUpdateOrg"
    <3>1. CASE e.skip /\ c.org[g][o] # None
      <4>1. Apply(e, c) = c
        BY <2>3, <3>1, ApplyIs DEF CreateOrUpdateOrg, GetOrg
      <4>2. new = c.org[g][o]
        BY <2>3, <3>1 DEF OrgAfter
      <4>3. orgs = c.org
        BY <1>1, <4>2 DEF Config
      <4>4. [c EXCEPT !.org = c.org] = c
        BY DEF Config
      <4>5. QED BY <4>1, <4>3, <4>4
    <3>2. CASE ~(e.skip /\ c.org[g][o] # None)
      BY <2>3, <3>2, ApplyIs DEF CreateOrUpdateOrg, GetOrg, OrgAfter
    <3>3. QED BY <3>1, <3>2
  <2>4. QED BY <2>1, <2>2, <2>3
<1>4. \A h \in Groups : \A p \in Orgs : orgs[h][p] = IF h = g /\ p = o THEN new ELSE c.org[h][p]
  BY <1>1, OneOrg
<1>5. [c EXCEPT !.org = orgs].org = orgs
  BY DEF Config
<1>6. OrgsPart(e, c, [c EXCEPT !.org = orgs])
  BY <1>1, <1>2, <1>4, <1>5 DEF OrgsPart
<1> HIDE DEF orgs
<1>7. QED BY <1>3, <1>6, OrgsOnly

LEMMA AdminsLeave ==
    ASSUME NEW e \in Edits, NEW c \in Config, ~Throws(e, c), e.op = "assignDictator"
    PROVE  Leaves(e, c, Apply(e, c))
<1> DEFINE admins == [c.admins EXCEPT ![e.group] = e.mspid]
           d == [c EXCEPT !.admins = admins]
<1>1. Apply(e, c) = d
  BY ApplyIs DEF AssignDictator
<1>2. e.group \in Groups
  BY DEF Edits
<1>3. \A g \in Groups : admins[g] = IF e.group = g THEN e.mspid ELSE c.admins[g]
  BY <1>2 DEF Config
<1> HIDE DEF admins
<1>4. /\ d.org = c.org /\ d.admins = admins /\ d.capability = c.capability /\ d.addresses = c.addresses
      /\ d.type = c.type /\ d.kafkaBrokers = c.kafkaBrokers /\ d.metadata = c.metadata /\ d.state = c.state
  BY DEF Config
<1> HIDE DEF d
<1>5. AdminsPart(e, c, d)
  BY <1>3, <1>4 DEF AdminsPart
<1>6. QED
  BY <1>1, <1>4, <1>5, OrgsUntouched DEF Leaves, ValuesPart, AddressesPart, MetadataPart

LEMMA ValuesLeave ==
    ASSUME NEW e \in Edits, NEW c \in Config, ~Throws(e, c),
           e.op \in {"setCapability", "setConsensusType", "maintenanceMode"}
    PROVE  Leaves(e, c, Apply(e, c))
<1> DEFINE d == Apply(e, c)
<1>1. ASSUME NEW v, d = [c EXCEPT !.capability = v]
      PROVE  /\ d.org = c.org /\ d.admins = c.admins /\ d.capability = v /\ d.addresses = c.addresses
             /\ d.type = c.type /\ d.kafkaBrokers = c.kafkaBrokers /\ d.metadata = c.metadata /\ d.state = c.state
  BY <1>1 DEF Config
<1>2. ASSUME NEW v, d = [c EXCEPT !.state = v]
      PROVE  /\ d.org = c.org /\ d.admins = c.admins /\ d.capability = c.capability /\ d.addresses = c.addresses
             /\ d.type = c.type /\ d.kafkaBrokers = c.kafkaBrokers /\ d.metadata = c.metadata /\ d.state = v
  BY <1>2 DEF Config
<1>3. ASSUME d = [c EXCEPT !.type = "etcdraft", !.kafkaBrokers = FALSE]
      PROVE  /\ d.org = c.org /\ d.admins = c.admins /\ d.capability = c.capability /\ d.addresses = c.addresses
             /\ d.type = "etcdraft" /\ d.kafkaBrokers = FALSE /\ d.metadata = c.metadata /\ d.state = c.state
  BY <1>3 DEF Config
<1>4. /\ e.op = "setCapability" => d = [c EXCEPT !.capability = e.version]
      /\ e.op = "maintenanceMode" =>
            d = [c EXCEPT !.state = IF e.in THEN "STATE_MAINTENANCE" ELSE "STATE_NORMAL"]
      /\ e.op = "setConsensusType" =>
            e.type = "etcdraft" /\ d = [c EXCEPT !.type = "etcdraft", !.kafkaBrokers = FALSE]
  BY ApplyIs DEF SetCapability, SetConsensusType, MaintenanceMode, Throws
<1> HIDE DEF d
<1>5. CASE e.op = "setCapability"
  BY <1>1, <1>4, <1>5, OrgsUntouched
  DEF Leaves, AdminsPart, ValuesPart, AddressesPart, MetadataPart, d
<1>6. CASE e.op = "maintenanceMode"
  <2> DEFINE becomes == IF e.in THEN "STATE_MAINTENANCE" ELSE "STATE_NORMAL"
  <2>1. /\ d.org = c.org /\ d.admins = c.admins /\ d.capability = c.capability /\ d.addresses = c.addresses
        /\ d.type = c.type /\ d.kafkaBrokers = c.kafkaBrokers /\ d.metadata = c.metadata /\ d.state = becomes
    BY <1>2, <1>4, <1>6
  <2>2. QED
    BY <1>6, <2>1, OrgsUntouched DEF Leaves, AdminsPart, ValuesPart, AddressesPart, MetadataPart, d
<1>7. CASE e.op = "setConsensusType"
  BY <1>3, <1>4, <1>7, OrgsUntouched
  DEF Leaves, AdminsPart, ValuesPart, AddressesPart, MetadataPart, d
<1>8. QED BY <1>5, <1>6, <1>7

LEMMA AddressesLeave ==
    ASSUME NEW e \in Edits, NEW c \in Config, ~Throws(e, c), e.op = "addOrdererAddress"
    PROVE  Leaves(e, c, Apply(e, c))
<1> DEFINE a == AddressesAfter(e, c.addresses)
           d == [c EXCEPT !.addresses = a]
<1>1. Apply(e, c) = d
  BY ApplyIs DEF AddOrdererAddress, AddressesAfter
<1> HIDE DEF a
<1>2. /\ d.org = c.org /\ d.admins = c.admins /\ d.capability = c.capability /\ d.addresses = a
      /\ d.type = c.type /\ d.kafkaBrokers = c.kafkaBrokers /\ d.metadata = c.metadata /\ d.state = c.state
  BY DEF Config
<1> HIDE DEF d
<1>3. AdminsPart(e, c, d) /\ ValuesPart(e, c, d) /\ MetadataPart(e, c, d)
  BY <1>2 DEF AdminsPart, ValuesPart, MetadataPart
<1>4. AddressesPart(e, c, d)
  BY <1>2 DEF AddressesPart, a
<1>5. QED BY <1>1, <1>2, <1>3, <1>4, OrgsUntouched DEF Leaves

LEMMA MetadataLeaves ==
    ASSUME NEW e \in Edits, NEW c \in Config, ~Throws(e, c), e.op = "setConsensusMetadata"
    PROVE  Leaves(e, c, Apply(e, c))
<1> DEFINE m == MetadataAfter(e, c.metadata)
           d == [c EXCEPT !.metadata = m]
<1>1. c.metadata # None \/ e.consenters # None
  BY DEF Throws, MetadataThrows
<1>2. Apply(e, c) = d
  BY <1>1, ApplyIs DEF SetConsensusMetadata, MetadataAfter
<1> HIDE DEF m
<1>3. /\ d.org = c.org /\ d.admins = c.admins /\ d.capability = c.capability /\ d.addresses = c.addresses
      /\ d.type = c.type /\ d.kafkaBrokers = c.kafkaBrokers /\ d.metadata = m /\ d.state = c.state
  BY DEF Config
<1> HIDE DEF d
<1>4. AdminsPart(e, c, d) /\ ValuesPart(e, c, d) /\ AddressesPart(e, c, d)
  BY <1>3 DEF AdminsPart, ValuesPart, AddressesPart
<1>5. MetadataPart(e, c, d)
  BY <1>3 DEF MetadataPart, m
<1>6. QED BY <1>2, <1>3, <1>4, <1>5, OrgsUntouched DEF Leaves

LEMMA EditLeaves ==
    ASSUME NEW e \in Edits, NEW c \in Config
    PROVE  Leaves(e, c, Apply(e, c))
BY ThrowsLeaves, OrgLeaves, AdminsLeave, ValuesLeave, AddressesLeave, MetadataLeaves DEF Edits

\* Two documents with the same parts are one.
LEMMA SameParts ==
    ASSUME NEW c \in Config, NEW d \in Config,
           \A g \in Groups : \A o \in Orgs : c.org[g][o] = d.org[g][o],
           \A g \in Groups : c.admins[g] = d.admins[g],
           c.capability = d.capability, c.addresses = d.addresses, c.type = d.type,
           c.kafkaBrokers = d.kafkaBrokers, c.metadata = d.metadata, c.state = d.state
    PROVE  c = d
<1>1. c.org = d.org
  <2>1. c.org \in [Groups -> [Orgs -> Org \cup {None}]] /\ d.org \in [Groups -> [Orgs -> Org \cup {None}]]
    BY DEF Config
  <2>2. \A g \in Groups : c.org[g] = d.org[g]
    BY <2>1
  <2>3. QED BY <2>1, <2>2
<1>2. c.admins = d.admins
  BY DEF Config
<1>3. QED BY <1>1, <1>2 DEF Config

\* Edits of different subjects have no part in common.
LEMMA Apart ==
    ASSUME NEW e \in Edits, NEW f \in Edits, Subject(e) # Subject(f)
    PROVE  /\ \A g \in Groups : \A o \in Orgs : ~(OnOrg(e, g, o) /\ OnOrg(f, g, o))
           /\ e.op = "assignDictator" /\ f.op = "assignDictator" => e.group # f.group
           /\ e.op \in {"setCapability", "addOrdererAddress", "setConsensusType",
                       "setConsensusMetadata", "maintenanceMode"} => e.op # f.op
BY DEF Subject, OnOrg

\* ... so that they commute.
LEMMA EditsOfPartsCommute ==
    ASSUME NEW e \in Edits, NEW f \in Edits, Subject(e) # Subject(f), NEW c \in Config
    PROVE  Apply(e, Apply(f, c)) = Apply(f, Apply(e, c))
<1> DEFINE x == Apply(e, c)
           y == Apply(f, c)
           p == Apply(e, y)
           q == Apply(f, x)
<1>1. x \in Config /\ y \in Config
  BY EditKeepsConfig
<1>2. p \in Config /\ q \in Config
  BY <1>1, EditKeepsConfig
<1>3. Leaves(e, c, x) /\ Leaves(f, c, y) /\ Leaves(e, y, p) /\ Leaves(f, x, q)
  BY <1>1, EditLeaves
<1> HIDE DEF x, y, p, q
<1>4. \A g \in Groups : \A o \in Orgs : p.org[g][o] = q.org[g][o]
  BY <1>3, Apart DEF Leaves, OrgsPart
<1>5. \A g \in Groups : p.admins[g] = q.admins[g]
  BY <1>3, Apart DEF Leaves, AdminsPart
<1>6. /\ p.capability = q.capability /\ p.type = q.type /\ p.kafkaBrokers = q.kafkaBrokers
      /\ p.state = q.state
  BY <1>3, Apart DEF Leaves, ValuesPart
<1>7. p.addresses = q.addresses /\ p.metadata = q.metadata
  BY <1>3, Apart DEF Leaves, AddressesPart, MetadataPart
<1>8. p = q
  BY <1>2, <1>4, <1>5, <1>6, <1>7, SameParts
<1>9. QED BY <1>8 DEF p, q, x, y

\* An edit of another part does not make an edit throw, nor keep it from it.
LEMMA ThrowsByPart ==
    ASSUME NEW e \in Edits, NEW f \in Edits, Subject(e) # Subject(f), NEW c \in Config
    PROVE  Throws(e, Apply(f, c)) <=> Throws(e, c)
<1> DEFINE y == Apply(f, c)
<1>1. Leaves(f, c, y)
  BY EditLeaves
<1> HIDE DEF y
<1>2. CASE e.op = "addAdmin"
  <2>1. e.group \in Groups /\ e.org \in Orgs /\ OnOrg(e, e.group, e.org)
    BY <1>2 DEF Edits, OnOrg
  <2>2. y.org[e.group][e.org] = c.org[e.group][e.org]
    BY <1>1, <2>1, Apart DEF Leaves, OrgsPart
  <2>3. QED BY <1>2, <2>2 DEF Throws, AddAdminThrows, GetOrg, y
<1>3. CASE e.op = "setAnchorPeers"
  <2>1. e.org \in Orgs /\ OnOrg(e, "Application", e.org) /\ "Application" \in Groups
    BY <1>3, ConfigFactoryAssumption DEF Edits, OnOrg
  <2>2. y.org["Application"][e.org] = c.org["Application"][e.org]
    BY <1>1, <2>1, Apart DEF Leaves, OrgsPart
  <2>3. QED BY <1>3, <2>2 DEF Throws, SetAnchorPeersThrows, GetOrg, y
<1>4. CASE e.op = "setConsensusMetadata"
  <2>1. f.op # "setConsensusMetadata"
    BY <1>4, Apart
  <2>2. y.metadata = c.metadata
    BY <1>1, <2>1 DEF Leaves, MetadataPart
  <2>3. QED BY <1>4, <2>2 DEF Throws, MetadataThrows, y
<1>5. CASE e.op \notin {"addAdmin", "setAnchorPeers", "setConsensusMetadata"}
  BY <1>5 DEF Throws
<1>6. QED BY <1>2, <1>3, <1>4, <1>5

\* A caller may chain edits of different parts in any order: neither the
\* document that build() gets nor which of the edits throw depends on it.
THEOREM PartsCommute == ConfigSpec => []EditsCommute
<1>1. ConfigInv => EditsCommute
  <2> SUFFICES ASSUME ConfigInv, last # None, NEW e \in Edits, Subject(e) # Subject(last)
               PROVE  /\ Apply(e, config) = Apply(last, Apply(e, before))
                      /\ Throws(e, config) <=> Throws(e, before)
                      /\ Throws(last, before) <=> Throws(last, Apply(e, before))
    BY DEF EditsCommute
  <2>1. last \in Edits /\ before \in Config /\ config = Apply(last, before)
    BY DEF ConfigInv, ConfigTypeOK
  <2>2. Apply(e, config) = Apply(last, Apply(e, before))
    BY <2>1, EditsOfPartsCommute
  <2>3. (Throws(e, config) <=> Throws(e, before)) /\ (Throws(last, before) <=> Throws(last, Apply(e, before)))
    BY <2>1, ThrowsByPart
  <2>4. QED BY <2>2, <2>3
<1>2. QED BY <1>1, ConfigInductive, PTL
-----------------------------------------------------------------------------
(***************************************************************************)
(* CryptoGen: material of admins, nodes, users, organisations and clients. *)
(***************************************************************************)
\* The places of an init.
AdminPlaces == {"enrollAdmin", "admin", "lookup1", "lookup2", "lookup3",
                "create1", "create2", "create3"}
RunPlaces == {"idle", "lookup", "register", "enroll", "msp", "enrollTLS", "tls"} \cup AdminPlaces

MaterialTyped ==
    /\ pc \in [Runs -> RunPlaces]
    /\ answer \in [Runs -> {"none", "done", "exist", "error"}]
    /\ secret \in [Runs -> {"none", "given", "generated"}]
    /\ writes \in [Runs -> Seq(Files)]
    /\ material \in [Runs -> Nat] /\ issued \in [Nodes -> Nat]
    /\ disk \in [Nodes -> [Files -> Nat]]
    /\ identities \in [Nodes -> {"none", "given", "generated"}]
    /\ affiliations \subseteq {"client", "user", "node"}

\* An admin's run has made sure of the affiliations before the one it is at.
Affiliated(r) ==
    /\ pc[r] \in AdminPlaces => Role[NodeOf[r]] = "admin"
    /\ Role[NodeOf[r]] = "admin" => pc[r] \in AdminPlaces \cup {"idle"}
    /\ pc[r] \in {"lookup2", "create2", "lookup3", "create3"} => "client" \in affiliations
    /\ pc[r] \in {"lookup3", "create3"} => "user" \in affiliations
    /\ Role[NodeOf[r]] = "admin" /\ answer[r] = "done" => affiliations = {"client", "user", "node"}

\* A run writes files of an enrollment of its identity.
Writing(r) ==
    /\ pc[r] # "idle" => answer[r] = "none"
    /\ writes[r] # <<>> => pc[r] \in {"msp", "tls", "admin"}
    /\ material[r] <= issued[NodeOf[r]]

DiskOf(n) == \A f \in Files : disk[n][f] <= issued[n] + 1

MaterialInv ==
    /\ MaterialTyped
    /\ \A r \in Runs : Affiliated(r) /\ Writing(r)
    /\ \A n \in Nodes : DiskOf(n)

\* No two runs are for the same node or user.
OneRunEach ==
    \A r, s \in Runs : Kept(NodeOf[r]) /\ NodeOf[s] = NodeOf[r] => s = r

\* How far the pair of a node or a user has got: a key is written after its
\* certificate, and only where there is no key.
Pair(r) ==
    LET cert == disk[NodeOf[r]]["signcerts"]
        key == disk[NodeOf[r]]["keystore"]
    IN  /\ key # 0 => cert = key
        /\ pc[r] \in {"lookup", "register", "enroll"} => key = 0
        /\ pc[r] = "msp" =>
              /\ material[r] # 0
              /\ \/ writes[r] = <<"signcerts", "keystoredir", "keystore", "cacerts">> /\ key = 0
                 \/ /\ writes[r] \in {<<"keystoredir", "keystore", "cacerts">>,
                                      <<"keystore", "cacerts">>}
                    /\ key = 0 /\ cert = material[r]
                 \/ writes[r] \in {<<"cacerts">>, <<>>} /\ key = material[r]
        /\ pc[r] \in {"enrollTLS", "tls"} => key # 0
        /\ pc[r] = "tls" =>
              writes[r] \in {<<"tlskey", "tlscert", "tlsca", "tlscacerts">>,
                             <<"tlscert", "tlsca", "tlscacerts">>,
                             <<"tlsca", "tlscacerts">>, <<"tlscacerts">>, <<>>}
        /\ answer[r] \in {"done", "exist"} => key # 0

PairInv == MaterialInv /\ \A r \in Runs : Kept(NodeOf[r]) => Pair(r)
-----------------------------------------------------------------------------
LEMMA AffiliationPlaces ==
    ASSUME NEW i \in 1..Len(Affiliations)
    PROVE  /\ Len(Affiliations) = 3
           /\ \/ i = 1 /\ Affiliations[i] = "client" /\ LookupLabel(i) = "lookup1"
                 /\ CreateLabel(i) = "create1" /\ LookupLabel(i + 1) = "lookup2"
              \/ i = 2 /\ Affiliations[i] = "user" /\ LookupLabel(i) = "lookup2"
                 /\ CreateLabel(i) = "create2" /\ LookupLabel(i + 1) = "lookup3"
              \/ i = 3 /\ Affiliations[i] = "node" /\ LookupLabel(i) = "lookup3"
                 /\ CreateLabel(i) = "create3"
<1>1. Len(Affiliations) = 3
  BY DEF Affiliations
<1>2. i = 1 \/ i = 2 \/ i = 3
  BY <1>1
<1>3. QED BY <1>1, <1>2 DEF Affiliations, LookupLabel, CreateLabel

\* A step of one run that takes no affiliation and no enrollment back.
LEMMA RunStep ==
    ASSUME MaterialInv, MaterialTyped', NEW r \in Runs, Affiliated(r)', Writing(r)',
           \A s \in Runs \ {r} : /\ pc'[s] = pc[s] /\ answer'[s] = answer[s]
                                 /\ writes'[s] = writes[s] /\ material'[s] = material[s],
           affiliations \subseteq affiliations',
           \A n \in Nodes : issued[n] <= issued'[n] /\ DiskOf(n)'
    PROVE  MaterialInv'
<1> SUFFICES ASSUME NEW s \in Runs \ {r} PROVE Affiliated(s)' /\ Writing(s)'
  BY DEF MaterialInv
<1>1. Affiliated(s) /\ Writing(s)
  BY DEF MaterialInv
<1>2. Affiliated(s)'
  <2>1. affiliations' \subseteq {"client", "user", "node"}
    BY DEF MaterialTyped
  <2>2. QED BY <1>1, <2>1 DEF Affiliated
<1>3. Writing(s)'
  <2>1. NodeOf[s] \in Nodes
    BY CryptoGenAssumption
  <2>2. /\ issued[NodeOf[s]] \in Nat /\ issued'[NodeOf[s]] \in Nat
        /\ material[s] \in Nat
    BY <2>1 DEF MaterialInv, MaterialTyped
  <2>3. material'[s] <= issued'[NodeOf[s]]
    BY <1>1, <2>1, <2>2 DEF Writing
  <2>4. QED BY <1>1, <2>3 DEF Writing
<1>4. QED BY <1>2, <1>3

\* A run that has nothing to write goes on, or returns.
LEMMA MoveInv ==
    ASSUME MaterialInv, NEW r \in Runs, NEW p \in RunPlaces,
           pc' = [pc EXCEPT ![r] = p],
           answer' \in [Runs -> {"none", "done", "exist", "error"}],
           p # "idle" => answer'[r] = "none", \A s \in Runs \ {r} : answer'[s] = answer[s],
           writes[r] = <<>>, UNCHANGED <<writes, material, disk, issued>>,
           secret' \in [Runs -> {"none", "given", "generated"}],
           identities' \in [Nodes -> {"none", "given", "generated"}],
           affiliations \subseteq affiliations', affiliations' \subseteq {"client", "user", "node"},
           Affiliated(r)'
    PROVE  MaterialInv'
<1>1. MaterialTyped'
  BY DEF MaterialInv, MaterialTyped
<1>2. pc'[r] = p /\ \A s \in Runs \ {r} : pc'[s] = pc[s]
  BY DEF MaterialInv, MaterialTyped
<1>3. Writing(r)'
  BY <1>2 DEF MaterialInv, Writing
<1>4. \A n \in Nodes : issued[n] <= issued'[n] /\ DiskOf(n)'
  BY DEF MaterialInv, MaterialTyped, DiskOf
<1>5. QED BY <1>1, <1>2, <1>3, <1>4, RunStep

\* What a run that is not writing has in hand.
LEMMA NothingToWrite ==
    ASSUME MaterialInv, NEW r \in Runs, pc[r] \notin {"msp", "tls", "admin"}
    PROVE  writes[r] = <<>>
BY DEF MaterialInv, Writing

LEMMA EnrollInv ==
    ASSUME MaterialInv, NEW r \in Runs, NEW p \in RunPlaces,
           NEW files \in Seq(Files), EnrollFor(r, files),
           pc' = [pc EXCEPT ![r] = p],
           answer' \in [Runs -> {"none", "done", "exist", "error"}],
           p # "idle" => answer'[r] = "none", \A s \in Runs \ {r} : answer'[s] = answer[s],
           files # <<>> => p \in {"msp", "tls", "admin"},
           UNCHANGED <<secret, disk, identities, affiliations>>, Affiliated(r)'
    PROVE  MaterialInv'
<1> DEFINE n == NodeOf[r]
<1>1. n \in Nodes
  BY CryptoGenAssumption
<1>2. issued[n] \in Nat
  BY <1>1 DEF MaterialInv, MaterialTyped
<1>3. MaterialTyped'
  <2>1. issued' \in [Nodes -> Nat]
    BY <1>1, <1>2 DEF MaterialInv, MaterialTyped, EnrollFor
  <2>2. material' \in [Runs -> Nat]
    BY <1>2 DEF MaterialInv, MaterialTyped, EnrollFor
  <2>3. writes' \in [Runs -> Seq(Files)]
    BY DEF MaterialInv, MaterialTyped, EnrollFor
  <2>4. QED BY <2>1, <2>2, <2>3 DEF MaterialInv, MaterialTyped
<1>4. /\ pc'[r] = p /\ material'[r] = issued[n] + 1 /\ issued'[n] = issued[n] + 1
      /\ writes'[r] = files
  BY <1>1 DEF MaterialInv, MaterialTyped, EnrollFor
<1>5. Writing(r)'
  BY <1>2, <1>4 DEF Writing
<1>6. ASSUME NEW m \in Nodes PROVE issued[m] <= issued'[m] /\ DiskOf(m)'
  <2>1. issued[m] \in Nat /\ issued[m] <= issued'[m] /\ issued'[m] \in Nat
    BY <1>1, <1>2 DEF MaterialInv, MaterialTyped, EnrollFor
  <2>2. ASSUME NEW f \in Files PROVE disk'[m][f] <= issued'[m] + 1
    <3>1. disk[m][f] \in Nat /\ disk[m][f] <= issued[m] + 1
      BY DEF MaterialInv, MaterialTyped, DiskOf
    <3>2. QED BY <2>1, <3>1
  <2>3. QED BY <2>1, <2>2 DEF DiskOf
<1>7. \A s \in Runs \ {r} : /\ pc'[s] = pc[s] /\ writes'[s] = writes[s]
                            /\ material'[s] = material[s]
  BY DEF MaterialInv, MaterialTyped, EnrollFor
<1>8. QED BY <1>3, <1>5, <1>6, <1>7, RunStep
-----------------------------------------------------------------------------
LEMMA MaterialInit ==
    ASSUME CryptoInit
    PROVE  MaterialInv
<1>1. MaterialTyped
  BY DEF CryptoInit, MaterialTyped, RunPlaces
<1>2. QED BY <1>1, CryptoGenAssumption
     DEF CryptoInit, MaterialInv, Affiliated, Writing, DiskOf, AdminPlaces

LEMMA GenerateInv ==
    ASSUME MaterialInv, NEW r \in Runs,
           Generate(r) \/ GenerateAnew(r) \/ Exists(r) \/ ExistThrows(r) \/ InitAdmin(r)
    PROVE  MaterialInv'
<1>1. NodeOf[r] \in Nodes
  BY CryptoGenAssumption
<1>2. pc[r] = "idle" /\ writes[r] = <<>>
  BY NothingToWrite DEF Generate, GenerateAnew, Exists, ExistThrows, InitAdmin, MayStart
<1>3. CASE Generate(r)
  <2>1. /\ pc' = [pc EXCEPT ![r] = "lookup"] /\ answer' = [answer EXCEPT ![r] = "none"]
        /\ UNCHANGED <<writes, material, identities, affiliations, issued>>
        /\ secret' \in [Runs -> {"none", "given", "generated"}]
        /\ Role[NodeOf[r]] # "admin"
    BY <1>3 DEF Generate, Goto, Kept, MaterialInv, MaterialTyped
  <2>2. disk' = disk \/ disk' = [disk EXCEPT ![NodeOf[r]]["admincerts"] = 1]
    BY <1>3 DEF Generate
  <2>3. /\ disk' \in [Nodes -> [Files -> Nat]]
        /\ \A m \in Nodes, f \in Files : disk'[m][f] = disk[m][f] \/ disk'[m][f] = 1
    <3>1. disk \in [Nodes -> [Files -> Nat]]
      BY DEF MaterialInv, MaterialTyped
    <3>2. [disk[NodeOf[r]] EXCEPT !["admincerts"] = 1] \in [Files -> Nat]
      BY <1>1, <3>1
    <3>3. \/ disk' = disk
          \/ disk' = [disk EXCEPT ![NodeOf[r]] = [disk[NodeOf[r]] EXCEPT !["admincerts"] = 1]]
      BY <2>2
    <3>4. disk' \in [Nodes -> [Files -> Nat]]
      BY <1>1, <3>1, <3>2, <3>3
    <3>5. \A m \in Nodes, f \in Files : disk'[m][f] = disk[m][f] \/ disk'[m][f] = 1
      BY <1>1, <3>1, <3>3
    <3>6. QED BY <3>4, <3>5
  <2>4. MaterialTyped'
    BY <2>1, <2>3 DEF MaterialInv, MaterialTyped, RunPlaces
  <2>5. pc'[r] = "lookup" /\ answer'[r] = "none"
    BY <2>1 DEF MaterialInv, MaterialTyped
  <2>6. Affiliated(r)' /\ Writing(r)'
    BY <2>1, <2>5, <1>2 DEF MaterialInv, Affiliated, Writing, AdminPlaces
  <2>7. ASSUME NEW m \in Nodes PROVE issued[m] <= issued'[m] /\ DiskOf(m)'
    <3>1. issued[m] \in Nat /\ issued'[m] = issued[m]
      BY <2>1 DEF MaterialInv, MaterialTyped
    <3>2. ASSUME NEW f \in Files PROVE disk'[m][f] <= issued'[m] + 1
      <4>1. disk[m][f] \in Nat /\ disk[m][f] <= issued[m] + 1
        BY DEF MaterialInv, MaterialTyped, DiskOf
      <4>2. disk'[m][f] = disk[m][f] \/ disk'[m][f] = 1
        BY <2>3
      <4>3. QED BY <3>1, <4>1, <4>2
    <3>3. QED BY <3>1, <3>2 DEF DiskOf
  <2>8. \A s \in Runs \ {r} : pc'[s] = pc[s] /\ answer'[s] = answer[s]
    BY <2>1 DEF MaterialInv, MaterialTyped
  <2>9. QED BY <2>1, <2>4, <2>6, <2>7, <2>8, RunStep
<1>4. CASE GenerateAnew(r)
  <2>1. /\ pc' = [pc EXCEPT ![r] = "lookup"] /\ answer' = [answer EXCEPT ![r] = "none"]
        /\ UNCHANGED <<writes, material, disk, identities, affiliations, issued>>
        /\ secret' \in [Runs -> {"none", "given", "generated"}]
        /\ Role[NodeOf[r]] # "admin"
    BY <1>4 DEF GenerateAnew, Goto, MaterialInv, MaterialTyped
  <2>2. Affiliated(r)'
    BY <2>1 DEF MaterialInv, MaterialTyped, Affiliated, AdminPlaces
  <2>3. QED BY <1>2, <2>1, <2>2, MoveInv DEF MaterialInv, MaterialTyped, RunPlaces
<1>5. CASE Exists(r) \/ ExistThrows(r)
  <2>1. PICK a \in {"exist", "error"} :
            pc' = [pc EXCEPT ![r] = "idle"] /\ answer' = [answer EXCEPT ![r] = a]
    BY <1>5 DEF Exists, ExistThrows, Return
  <2>2. /\ UNCHANGED <<secret, writes, material, disk, identities, affiliations, issued>>
        /\ Role[NodeOf[r]] # "admin"
    BY <1>5 DEF Exists, ExistThrows, Kept
  <2>3. Affiliated(r)'
    BY <2>1, <2>2 DEF MaterialInv, MaterialTyped, Affiliated, AdminPlaces
  <2>4. /\ answer' \in [Runs -> {"none", "done", "exist", "error"}]
        /\ \A x \in Runs \ {r} : answer'[x] = answer[x]
    BY <2>1 DEF MaterialInv, MaterialTyped
  <2>5. QED BY <1>2, <2>1, <2>2, <2>3, <2>4, MoveInv DEF MaterialInv, MaterialTyped, RunPlaces
<1>6. CASE InitAdmin(r)
  <2>1. /\ pc' = [pc EXCEPT ![r] = "enrollAdmin"] /\ answer' = [answer EXCEPT ![r] = "none"]
        /\ UNCHANGED <<secret, writes, material, disk, identities, affiliations, issued>>
        /\ Role[NodeOf[r]] = "admin"
    BY <1>6 DEF InitAdmin, Goto
  <2>2. Affiliated(r)'
    BY <2>1 DEF MaterialInv, MaterialTyped, Affiliated, AdminPlaces
  <2>3. QED BY <1>2, <2>1, <2>2, MoveInv DEF MaterialInv, MaterialTyped, RunPlaces, AdminPlaces
<1>7. QED BY <1>3, <1>4, <1>5, <1>6

LEMMA RegisterInv ==
    ASSUME MaterialInv, NEW r \in Runs,
           \/ IdentityExists(r) \/ IdentityMissing(r) \/ Register(r) \/ Refused(r)
    PROVE  MaterialInv'
<1>1. pc[r] \in {"lookup", "register", "enroll", "enrollTLS"}
  BY DEF IdentityExists, IdentityMissing, Register, Refused
<1>2. Role[NodeOf[r]] # "admin" /\ writes[r] = <<>> /\ answer[r] = "none"
  BY <1>1, NothingToWrite DEF MaterialInv, Affiliated, AdminPlaces, Writing
<1>3. /\ answer' = answer \/ answer' = [answer EXCEPT ![r] = "error"]
      /\ UNCHANGED <<writes, material, disk, affiliations, issued>>
  BY DEF IdentityExists, IdentityMissing, Register, Refused, Return
<1>4. PICK p \in {"enroll", "register", "idle"} :
          pc' = [pc EXCEPT ![r] = p] /\ (p # "idle" => answer' = answer)
  BY DEF IdentityExists, IdentityMissing, Register, Refused, Return, Goto
<1>5. /\ secret' \in [Runs -> {"none", "given", "generated"}]
      /\ identities' \in [Nodes -> {"none", "given", "generated"}]
  BY DEF IdentityExists, IdentityMissing, Register, Refused, MaterialInv, MaterialTyped
<1>6. Affiliated(r)'
  BY <1>2, <1>4 DEF MaterialInv, MaterialTyped, Affiliated, AdminPlaces
<1>7. /\ answer' \in [Runs -> {"none", "done", "exist", "error"}]
      /\ p # "idle" => answer'[r] = "none"
      /\ \A s \in Runs \ {r} : answer'[s] = answer[s]
  BY <1>2, <1>3, <1>4 DEF MaterialInv, MaterialTyped
<1>8. p \in RunPlaces
  BY DEF RunPlaces
<1>9. affiliations \subseteq affiliations' /\ affiliations' \subseteq {"client", "user", "node"}
  BY <1>3 DEF MaterialInv, MaterialTyped
<1>10. QED BY <1>2, <1>3, <1>4, <1>5, <1>6, <1>7, <1>8, <1>9, MoveInv

LEMMA EnrollsInv ==
    ASSUME MaterialInv, NEW r \in Runs,
           Enroll(r) \/ EnrollOrg(r) \/ EnrollClient(r) \/ EnrollAdmin(r)
    PROVE  MaterialInv'
<1>1. pc[r] # "idle" => answer[r] = "none"
  BY DEF MaterialInv, Writing
<1>2. /\ ToMSP \in Seq(Files) /\ ToTLS \in Seq(Files)
      /\ ToOrgTLS \in Seq(Files)
      /\ ToMSP \o ToOrgAdmin \o ToAdminCerts \in Seq(Files)
      /\ <<>> \in Seq(Files)
  <2>1. ToOrgAdmin \in Seq(Files) /\ ToAdminCerts \in Seq(Files) /\ ToMSP \in Seq(Files)
    BY DEF ToOrgAdmin, ToAdminCerts, ToMSP, Files
  <2>2. ToMSP \o ToOrgAdmin \in Seq(Files)
    BY <2>1, ConcatProperties
  <2>3. ToMSP \o ToOrgAdmin \o ToAdminCerts \in Seq(Files)
    BY <2>1, <2>2, ConcatProperties
  <2>4. ToTLS \in Seq(Files) /\ ToOrgTLS \in Seq(Files) /\ <<>> \in Seq(Files)
    BY DEF ToTLS, ToOrgTLS, Files
  <2>5. QED BY <2>1, <2>3, <2>4
<1>3. CASE Enroll(r)
  <2>1. Role[NodeOf[r]] # "admin" /\ answer[r] = "none"
    BY <1>1, <1>3 DEF Enroll, Kept, MayEnroll
  <2>2. PICK p \in {"msp", "tls"}, files \in {ToMSP, ToTLS} :
            EnrollFor(r, files) /\ pc' = [pc EXCEPT ![r] = p]
    BY <1>3 DEF Enroll, Goto
  <2>3. UNCHANGED <<answer, secret, disk, identities, affiliations>>
    BY <1>3 DEF Enroll
  <2>4. Affiliated(r)'
    BY <2>1, <2>2, <2>3 DEF MaterialInv, MaterialTyped, Affiliated, AdminPlaces
  <2>5. QED BY <1>2, <2>1, <2>2, <2>3, <2>4, EnrollInv DEF MaterialInv, MaterialTyped, RunPlaces
<1>4. CASE EnrollOrg(r)
  <2>1. Role[NodeOf[r]] # "admin" /\ answer[r] = "none"
    BY <1>1, <1>4 DEF EnrollOrg, MayEnroll
  <2>2. /\ EnrollFor(r, ToOrgTLS) /\ pc' = [pc EXCEPT ![r] = "tls"]
        /\ UNCHANGED <<answer, secret, disk, identities, affiliations>>
    BY <1>4 DEF EnrollOrg, Goto
  <2>3. Affiliated(r)'
    BY <2>1, <2>2 DEF MaterialInv, MaterialTyped, Affiliated, AdminPlaces
  <2>4. QED BY <1>2, <2>1, <2>2, <2>3, EnrollInv DEF MaterialInv, MaterialTyped, RunPlaces
<1>5. CASE EnrollClient(r)
  <2>1. Role[NodeOf[r]] # "admin"
    BY <1>5 DEF EnrollClient
  <2>2. /\ EnrollFor(r, <<>>) /\ pc' = [pc EXCEPT ![r] = "idle"]
        /\ answer' = [answer EXCEPT ![r] = "done"]
        /\ UNCHANGED <<secret, disk, identities, affiliations>>
    BY <1>5 DEF EnrollClient, Return
  <2>3. Affiliated(r)'
    BY <2>1, <2>2 DEF MaterialInv, MaterialTyped, Affiliated, AdminPlaces
  <2>4. QED BY <1>2, <2>2, <2>3, EnrollInv DEF MaterialInv, MaterialTyped, RunPlaces
<1>6. CASE EnrollAdmin(r)
  <2>1. answer[r] = "none" /\ pc[r] \in AdminPlaces
    BY <1>1, <1>6 DEF EnrollAdmin, AdminPlaces
  <2>2. /\ EnrollFor(r, ToMSP \o ToOrgAdmin \o ToAdminCerts) /\ pc' = [pc EXCEPT ![r] = "admin"]
        /\ UNCHANGED <<answer, secret, disk, identities, affiliations>>
    BY <1>6 DEF EnrollAdmin, Goto
  <2>3. Affiliated(r)'
    BY <2>1, <2>2 DEF MaterialInv, MaterialTyped, Affiliated, AdminPlaces
  <2>4. QED BY <1>2, <2>1, <2>2, <2>3, EnrollInv DEF MaterialInv, MaterialTyped, RunPlaces, AdminPlaces
<1>7. QED BY <1>3, <1>4, <1>5, <1>6
-----------------------------------------------------------------------------
LEMMA WriteInv ==
    ASSUME MaterialInv, NEW r \in Runs, WriteFile(r)
    PROVE  MaterialInv'
<1> DEFINE n == NodeOf[r]
           file == Head(writes[r])
<1>1. n \in Nodes
  BY CryptoGenAssumption
<1>2. /\ writes[r] \in Seq(Files) /\ writes[r] # <<>> /\ material[r] \in Nat
      /\ material[r] <= issued[n]
  BY DEF MaterialInv, MaterialTyped, Writing, WriteFile
<1>3. file \in Files /\ Tail(writes[r]) \in Seq(Files)
  BY <1>2, HeadTailProperties
<1>4. /\ disk' = [disk EXCEPT ![n] = [disk[n] EXCEPT ![file] = material[r]]]
      /\ writes' = [writes EXCEPT ![r] = Tail(writes[r])]
      /\ UNCHANGED <<pc, answer, secret, material, identities, affiliations, issued>>
  BY DEF WriteFile
<1>5. disk \in [Nodes -> [Files -> Nat]] /\ writes \in [Runs -> Seq(Files)]
  BY DEF MaterialInv, MaterialTyped
<1>6. disk' \in [Nodes -> [Files -> Nat]]
  <2>1. [disk[n] EXCEPT ![file] = material[r]] \in [Files -> Nat]
    BY <1>1, <1>2, <1>5
  <2>2. QED BY <1>1, <1>4, <1>5, <2>1
<1>7. writes' \in [Runs -> Seq(Files)]
  BY <1>3, <1>4, <1>5
<1>8. MaterialTyped'
  BY <1>4, <1>6, <1>7 DEF MaterialInv, MaterialTyped
<1>9. Affiliated(r)' /\ Writing(r)'
  BY <1>2, <1>4 DEF MaterialInv, Affiliated, Writing
<1>10. ASSUME NEW m \in Nodes PROVE issued[m] <= issued'[m] /\ DiskOf(m)'
  <2>1. issued[m] \in Nat /\ issued'[m] = issued[m]
    BY <1>4 DEF MaterialInv, MaterialTyped
  <2>2. ASSUME NEW f \in Files PROVE disk'[m][f] <= issued'[m] + 1
    <3>1. disk[m][f] \in Nat /\ disk[m][f] <= issued[m] + 1
      BY <1>5 DEF MaterialInv, DiskOf
    <3>2. disk'[m][f] = disk[m][f] \/ (m = n /\ disk'[m][f] = material[r])
      BY <1>1, <1>4, <1>5
    <3>3. QED BY <1>2, <2>1, <3>1, <3>2
  <2>3. QED BY <2>1, <2>2 DEF DiskOf
<1>11. \A s \in Runs \ {r} : writes'[s] = writes[s]
  BY <1>4, <1>5
<1>12. QED BY <1>4, <1>8, <1>9, <1>10, <1>11, RunStep

LEMMA AfterInv ==
    ASSUME MaterialInv, NEW r \in Runs,
           AfterMSP(r) \/ AfterTLS(r) \/ AdminWritten(r)
    PROVE  MaterialInv'
<1>1. /\ pc[r] \in {"msp", "tls", "admin"} /\ writes[r] = <<>>
      /\ UNCHANGED <<secret, writes, material, disk, identities, affiliations, issued>>
  BY DEF AfterMSP, AfterTLS, AdminWritten
<1>2. answer[r] = "none"
  BY <1>1 DEF MaterialInv, Writing
<1>3. CASE AfterMSP(r) \/ AfterTLS(r)
  <2>1. Role[NodeOf[r]] # "admin"
    BY <1>3 DEF MaterialInv, Affiliated, AdminPlaces, AfterMSP, AfterTLS
  <2>2. PICK p \in {"enrollTLS", "idle"} : pc' = [pc EXCEPT ![r] = p]
            /\ \/ p = "enrollTLS" /\ answer' = answer
               \/ p = "idle" /\ answer' = [answer EXCEPT ![r] = "done"]
    BY <1>3 DEF AfterMSP, AfterTLS, Goto, Return
  <2>3. Affiliated(r)'
    BY <2>1, <2>2 DEF MaterialInv, MaterialTyped, Affiliated, AdminPlaces
  <2>4. p \in RunPlaces
    BY DEF RunPlaces
  <2>5. /\ answer' \in [Runs -> {"none", "done", "exist", "error"}]
        /\ p # "idle" => answer'[r] = "none"
        /\ \A s \in Runs \ {r} : answer'[s] = answer[s]
    BY <1>2, <2>2 DEF MaterialInv, MaterialTyped
  <2>6. QED BY <1>1, <2>2, <2>3, <2>4, <2>5, MoveInv DEF MaterialInv, MaterialTyped
<1>4. CASE AdminWritten(r)
  <2>1. pc' = [pc EXCEPT ![r] = "lookup1"] /\ answer' = answer
    BY <1>4 DEF AdminWritten, Goto
  <2>2. Role[NodeOf[r]] = "admin"
    BY <1>4 DEF MaterialInv, Affiliated, AdminPlaces, AdminWritten
  <2>3. Affiliated(r)'
    BY <1>2, <2>1, <2>2 DEF MaterialInv, MaterialTyped, Affiliated, AdminPlaces
  <2>4. QED BY <1>1, <1>2, <2>1, <2>3, MoveInv DEF MaterialInv, MaterialTyped, RunPlaces, AdminPlaces
<1>5. QED BY <1>3, <1>4

\* Where NextAffiliation takes a run that has the affiliation of its place.
LEMMA NextAffiliationInv ==
    ASSUME MaterialInv, NEW r \in Runs,
           NEW i \in 1..Len(Affiliations),
           pc[r] \in {LookupLabel(i), CreateLabel(i)}, NextAffiliation(r, i),
           affiliations' = affiliations \cup {Affiliations[i]},
           UNCHANGED <<secret, writes, material, disk, identities, issued>>
    PROVE  MaterialInv'
<1>1. /\ pc[r] \in {"lookup1", "lookup2", "lookup3", "create1", "create2", "create3"}
      /\ writes[r] = <<>> /\ answer[r] = "none" /\ Role[NodeOf[r]] = "admin"
  BY AffiliationPlaces, NothingToWrite DEF MaterialInv, Writing, Affiliated, AdminPlaces
<1>2. affiliations' \subseteq {"client", "user", "node"}
  BY AffiliationPlaces DEF MaterialInv, MaterialTyped
<1>3. PICK p \in {"lookup2", "lookup3", "idle"} :
          /\ pc' = [pc EXCEPT ![r] = p]
          /\ p = "idle" => answer' = [answer EXCEPT ![r] = "done"]
                           /\ affiliations' = {"client", "user", "node"}
          /\ p # "idle" => answer' = answer /\ "client" \in affiliations'
          /\ p = "lookup3" => "user" \in affiliations'
  <2>1. Affiliated(r)
    BY DEF MaterialInv
  <2>2. CASE i = 1
    BY <2>2, AffiliationPlaces DEF NextAffiliation, Goto
  <2>3. CASE i = 2
    BY <2>1, <2>3, AffiliationPlaces DEF NextAffiliation, Goto, Affiliated
  <2>4. CASE i = 3
    <3>1. "client" \in affiliations /\ "user" \in affiliations
      BY <2>1, <2>4, AffiliationPlaces DEF Affiliated
    <3>2. Return(r, "done")
      BY <2>4, AffiliationPlaces DEF NextAffiliation
    <3>3. affiliations' = {"client", "user", "node"}
      BY <1>2, <2>4, <3>1, AffiliationPlaces
    <3>4. QED BY <3>2, <3>3 DEF Return
  <2>5. QED BY <2>2, <2>3, <2>4, AffiliationPlaces
<1>4. Affiliated(r)'
  BY <1>1, <1>3 DEF MaterialInv, MaterialTyped, Affiliated, AdminPlaces
<1>5. p \in RunPlaces
  BY DEF RunPlaces, AdminPlaces
<1>6. /\ answer' \in [Runs -> {"none", "done", "exist", "error"}]
      /\ p # "idle" => answer'[r] = "none"
      /\ \A s \in Runs \ {r} : answer'[s] = answer[s]
  BY <1>1, <1>3 DEF MaterialInv, MaterialTyped
<1>7. QED BY <1>1, <1>2, <1>3, <1>4, <1>5, <1>6, MoveInv DEF MaterialInv, MaterialTyped

LEMMA AffiliationInv ==
    ASSUME MaterialInv, NEW r \in Runs,
           NEW i \in 1..Len(Affiliations),
           LookupAffiliation(r, i) \/ CreateAffiliation(r, i)
    PROVE  MaterialInv'
<1>1. /\ pc[r] \in {LookupLabel(i), CreateLabel(i)}
      /\ UNCHANGED <<secret, writes, material, disk, identities, issued>>
  BY DEF LookupAffiliation, CreateAffiliation
<1>2. /\ pc[r] \in {"lookup1", "lookup2", "lookup3", "create1", "create2", "create3"}
      /\ writes[r] = <<>> /\ answer[r] = "none" /\ Role[NodeOf[r]] = "admin"
  BY <1>1, AffiliationPlaces, NothingToWrite DEF MaterialInv, Writing, Affiliated, AdminPlaces
<1>3. CASE NextAffiliation(r, i) /\ affiliations' = affiliations \cup {Affiliations[i]}
  BY <1>1, <1>3, NextAffiliationInv
<1>4. CASE /\ pc[r] = LookupLabel(i) /\ Goto(r, CreateLabel(i))
           /\ UNCHANGED <<answer, affiliations>>
  <2>1. PICK p \in {"create1", "create2", "create3"} : p = CreateLabel(i)
    BY AffiliationPlaces
  <2>2. pc' = [pc EXCEPT ![r] = p]
    BY <1>4, <2>1 DEF Goto
  <2>3. Affiliated(r)'
    BY <1>2, <1>4, <2>1, <2>2, AffiliationPlaces DEF MaterialInv, MaterialTyped, Affiliated, AdminPlaces
  <2>4. p \in RunPlaces
    BY DEF RunPlaces, AdminPlaces
  <2>5. QED BY <1>1, <1>2, <1>4, <2>2, <2>3, <2>4, MoveInv DEF MaterialInv, MaterialTyped
<1>5. CASE Return(r, "error") /\ UNCHANGED affiliations
  <2>1. pc' = [pc EXCEPT ![r] = "idle"] /\ answer' = [answer EXCEPT ![r] = "error"]
    BY <1>5 DEF Return
  <2>2. Affiliated(r)'
    BY <2>1 DEF MaterialInv, MaterialTyped, Affiliated, AdminPlaces
  <2>3. QED BY <1>1, <1>2, <1>5, <2>1, <2>2, MoveInv DEF MaterialInv, MaterialTyped, RunPlaces
<1>6. QED
  <2>1. CASE LookupAffiliation(r, i) /\ Affiliations[i] \in affiliations
    <3>1. affiliations' = affiliations \cup {Affiliations[i]}
      BY <2>1 DEF LookupAffiliation
    <3>2. QED BY <1>3, <2>1, <3>1 DEF LookupAffiliation
  <2>2. CASE LookupAffiliation(r, i) /\ Affiliations[i] \notin affiliations
    BY <1>4, <2>2 DEF LookupAffiliation
  <2>3. CASE CreateAffiliation(r, i)
    BY <1>3, <1>5, <2>3 DEF CreateAffiliation
  <2>4. QED BY <2>1, <2>2, <2>3
-----------------------------------------------------------------------------
LEMMA FailureInv ==
    ASSUME MaterialInv, NEW r \in Runs, RequestFails(r) \/ Crash(r)
    PROVE  MaterialInv'
<1>1. /\ pc' = [pc EXCEPT ![r] = "idle"] /\ answer' = [answer EXCEPT ![r] = "error"]
      /\ UNCHANGED <<secret, material, disk, issued>>
  BY DEF RequestFails, Crash, Return
<1>2. CASE RequestFails(r)
  <2>1. writes[r] = <<>> /\ writes' = writes
    BY <1>2, NothingToWrite DEF RequestFails, Asking
  <2>2. identities' \in [Nodes -> {"none", "given", "generated"}]
    BY <1>2 DEF RequestFails, MaterialInv, MaterialTyped
  <2>3. affiliations \subseteq affiliations' /\ affiliations' \subseteq {"client", "user", "node"}
    <3>1. affiliations \subseteq {"client", "user", "node"}
      BY DEF MaterialInv, MaterialTyped
    <3>2. \A i \in 1..Len(Affiliations) : Affiliations[i] \in {"client", "user", "node"}
      BY AffiliationPlaces
    <3>3. \/ affiliations' = affiliations
          \/ \E i \in 1..Len(Affiliations) : affiliations' = affiliations \cup {Affiliations[i]}
      BY <1>2 DEF RequestFails
    <3>4. QED BY <3>1, <3>2, <3>3
  <2>4. Affiliated(r)'
    BY <1>1 DEF MaterialInv, MaterialTyped, Affiliated, AdminPlaces
  <2>5. QED BY <1>1, <2>1, <2>2, <2>3, <2>4, MoveInv DEF MaterialInv, MaterialTyped, RunPlaces
<1>3. CASE Crash(r)
  <2>1. writes' = [writes EXCEPT ![r] = <<>>] /\ UNCHANGED <<identities, affiliations>>
    BY <1>3 DEF Crash
  <2>2. MaterialTyped'
    BY <1>1, <2>1 DEF MaterialInv, MaterialTyped, RunPlaces
  <2>3. pc'[r] = "idle" /\ answer'[r] = "error" /\ writes'[r] = <<>>
    BY <1>1, <2>1 DEF MaterialInv, MaterialTyped
  <2>4. Affiliated(r)' /\ Writing(r)'
    BY <1>1, <2>3 DEF MaterialInv, Affiliated, Writing, AdminPlaces
  <2>5. \A n \in Nodes : issued[n] <= issued'[n] /\ DiskOf(n)'
    BY <1>1 DEF MaterialInv, MaterialTyped, DiskOf
  <2>6. \A s \in Runs \ {r} : /\ pc'[s] = pc[s] /\ answer'[s] = answer[s]
                              /\ writes'[s] = writes[s] /\ material'[s] = material[s]
    BY <1>1, <2>1 DEF MaterialInv, MaterialTyped
  <2>7. QED BY <2>1, <2>2, <2>4, <2>5, <2>6, RunStep
<1>4. QED BY <1>2, <1>3

LEMMA MaterialNext ==
    ASSUME MaterialInv, [CryptoNext]_(cryptoVars)
    PROVE  MaterialInv'
<1>1. CASE UNCHANGED cryptoVars
  BY <1>1 DEF cryptoVars, MaterialInv, MaterialTyped, Affiliated, Writing, DiskOf
<1>2. ASSUME NEW r \in Runs, Step(r) \/ Exists(r) \/ ExistThrows(r) \/ RequestFails(r)
                             \/ Crash(r) \/ Repeat(r)
      PROVE  MaterialInv'
  <2>1. CASE Step(r)
    BY <2>1, GenerateInv, RegisterInv, EnrollsInv, WriteInv, AfterInv, AffiliationInv DEF Step
  <2>2. CASE Exists(r) \/ ExistThrows(r) \/ Repeat(r)
    BY <2>2, GenerateInv DEF Repeat
  <2>3. CASE RequestFails(r) \/ Crash(r)
    BY <2>3, FailureInv
  <2>4. QED BY <1>2, <2>1, <2>2, <2>3
<1>3. QED BY <1>1, <1>2 DEF CryptoNext

LEMMA MaterialSafe == CryptoSpec => []MaterialInv
<1>1. CryptoInit => MaterialInv
  BY MaterialInit
<1>2. MaterialInv /\ [CryptoNext]_(cryptoVars) => MaterialInv'
  BY MaterialNext
<1>3. QED BY <1>1, <1>2, PTL DEF CryptoSpec

\* Where a run is, what it writes and what is on disk fit together: nothing
\* is on disk, or about to be written, that its enrollments do not account
\* for, and a run that goes on has no answer yet.
THEOREM MaterialTypeCorrect == CryptoSpec => []CryptoTypeOK
<1>1. MaterialInv => CryptoTypeOK
  <2> SUFFICES ASSUME MaterialInv PROVE CryptoTypeOK
    OBVIOUS
  <2>1. ASSUME NEW r \in Runs
        PROVE  /\ pc[r] # "idle" => answer[r] = "none"
               /\ writes[r] # <<>> => pc[r] \in {"msp", "tls", "admin"}
               /\ material[r] \in 0..issued[NodeOf[r]]
               /\ secret[r] \in {"none", "given", "generated"}
    <3>1. issued[NodeOf[r]] \in Nat /\ material[r] \in Nat
      BY CryptoGenAssumption DEF MaterialInv, MaterialTyped
    <3>2. QED BY <3>1 DEF MaterialInv, MaterialTyped, Writing
  <2>2. ASSUME NEW n \in Nodes PROVE disk[n] \in [Files -> 0..(issued[n] + 1)]
    <3>1. disk[n] \in [Files -> Nat] /\ issued[n] \in Nat
      BY DEF MaterialInv, MaterialTyped
    <3>2. \A f \in Files : disk[n][f] <= issued[n] + 1
      BY DEF MaterialInv, DiskOf
    <3>3. QED BY <3>1, <3>2
  <2>3. QED BY <2>1, <2>2 DEF CryptoTypeOK, MaterialInv, MaterialTyped
<1>2. QED BY <1>1, MaterialSafe, PTL

\* An init that returned has its three affiliations at the CA, however many
\* other inits look them up and create them at the same time, and whatever
\* answers are lost (init, nodejs/ca/ca-crypto-gen.js).
THEOREM AffiliationsThere == CryptoSpec => []InitMeansAffiliated
<1>1. MaterialInv => InitMeansAffiliated
  BY DEF MaterialInv, Affiliated, InitMeansAffiliated
<1>2. QED BY <1>1, MaterialSafe, PTL
-----------------------------------------------------------------------------
\* A step of another run leaves the pair of a node or a user alone.
LEMMA PairStays ==
    ASSUME NEW r \in Runs, Pair(r), pc'[r] = pc[r], answer'[r] = answer[r],
           writes'[r] = writes[r], material'[r] = material[r],
           disk'[NodeOf[r]]["signcerts"] = disk[NodeOf[r]]["signcerts"],
           disk'[NodeOf[r]]["keystore"] = disk[NodeOf[r]]["keystore"]
    PROVE  Pair(r)'
BY DEF Pair

\* A step changes the places and answers of one run, and files of its identity.
LEMMA OneRunMoves ==
    ASSUME MaterialInv, NEW s \in Runs,
           \/ Step(s) \/ Exists(s) \/ ExistThrows(s) \/ RequestFails(s) \/ Crash(s)
           \/ Repeat(s),
           NEW r \in Runs \ {s}, NodeOf[s] # NodeOf[r]
    PROVE  /\ pc'[r] = pc[r] /\ answer'[r] = answer[r]
           /\ writes'[r] = writes[r] /\ material'[r] = material[r]
           /\ disk'[NodeOf[r]] = disk[NodeOf[r]]
<1>1. NodeOf[r] \in Nodes /\ NodeOf[s] \in Nodes
  BY CryptoGenAssumption
<1>2. pc'[r] = pc[r] /\ answer'[r] = answer[r]
  <2>1. \/ pc' = pc \/ \E p : Goto(s, p) \/ \E a : Return(s, a)
    BY DEF Step, Exists, ExistThrows, RequestFails, Crash, Repeat, Generate, GenerateAnew,
       IdentityExists, IdentityMissing, Register, Enroll, EnrollOrg, EnrollClient,
       Refused, WriteFile, AfterMSP, AfterTLS, EnrollAdmin, AdminWritten,
       InitAdmin, LookupAffiliation, CreateAffiliation, NextAffiliation
  <2>2. \/ answer' = answer \/ answer' = [answer EXCEPT ![s] = "none"] \/ \E a : Return(s, a)
    BY DEF Step, Exists, ExistThrows, RequestFails, Crash, Repeat, Generate, GenerateAnew,
       IdentityExists, IdentityMissing, Register, Enroll, EnrollOrg, EnrollClient,
       Refused, WriteFile, AfterMSP, AfterTLS, EnrollAdmin, AdminWritten,
       InitAdmin, LookupAffiliation, CreateAffiliation, NextAffiliation
  <2>3. QED BY <2>1, <2>2 DEF Goto, Return, MaterialInv, MaterialTyped
<1>3. writes'[r] = writes[r] /\ material'[r] = material[r]
  <2>1. \/ writes' = writes /\ material' = material
        \/ \E files : EnrollFor(s, files)
        \/ \E rest : writes' = [writes EXCEPT ![s] = rest] /\ material' = material
    BY DEF Step, Exists, ExistThrows, RequestFails, Crash, Repeat, Generate, GenerateAnew,
       IdentityExists, IdentityMissing, Register, Enroll, EnrollOrg, EnrollClient,
       Refused, WriteFile, AfterMSP, AfterTLS, EnrollAdmin, AdminWritten,
       InitAdmin, LookupAffiliation, CreateAffiliation
  <2>2. QED BY <2>1 DEF EnrollFor, MaterialInv, MaterialTyped
<1>4. disk'[NodeOf[r]] = disk[NodeOf[r]]
  <2>1. \/ disk' = disk \/ \E files : disk' = [disk EXCEPT ![NodeOf[s]] = files]
    BY DEF Step, Exists, ExistThrows, RequestFails, Crash, Repeat, Generate, GenerateAnew,
       IdentityExists, IdentityMissing, Register, Enroll, EnrollOrg, EnrollClient,
       Refused, WriteFile, AfterMSP, AfterTLS, EnrollAdmin, AdminWritten,
       InitAdmin, LookupAffiliation, CreateAffiliation
  <2>2. QED BY <1>1, <2>1 DEF MaterialInv, MaterialTyped
<1>5. QED BY <1>2, <1>3, <1>4

LEMMA KeptRoles ==
    ASSUME NEW n, Kept(n)
    PROVE  Role[n] \notin {"admin", "org", "client"}
BY DEF Kept

\* Where the run of a node or a user can be.
LEMMA KeptPlaces ==
    ASSUME MaterialInv, NEW r \in Runs, Kept(NodeOf[r])
    PROVE  pc[r] \in {"idle", "lookup", "register", "enroll", "msp", "enrollTLS", "tls"}
<1>1. pc[r] \in RunPlaces /\ pc[r] \notin AdminPlaces
  BY KeptRoles DEF MaterialInv, MaterialTyped, Affiliated
<1>2. QED BY <1>1 DEF RunPlaces

\* A run that touches neither its files nor its enrollment, and goes where the
\* pair on disk allows.
LEMMA PairMoves ==
    ASSUME MaterialInv, NEW r \in Runs, Pair(r), NEW p, NEW a,
           pc'[r] = p, answer'[r] = a,
           disk'[NodeOf[r]]["signcerts"] = disk[NodeOf[r]]["signcerts"],
           disk'[NodeOf[r]]["keystore"] = disk[NodeOf[r]]["keystore"],
           p \notin {"msp", "tls"},
           p \in {"lookup", "register", "enroll"} => disk[NodeOf[r]]["keystore"] = 0,
           p = "enrollTLS" \/ a \in {"done", "exist"} => disk[NodeOf[r]]["keystore"] # 0
    PROVE  Pair(r)'
BY DEF Pair

LEMMA GeneratePair ==
    ASSUME MaterialInv, NEW r \in Runs, Kept(NodeOf[r]), Pair(r),
           Generate(r) \/ Exists(r) \/ ExistThrows(r)
    PROVE  Pair(r)'
<1>1. NodeOf[r] \in Nodes /\ {"signcerts", "keystore", "admincerts"} \subseteq Files
  BY CryptoGenAssumption DEF Files
<1>2. CASE Generate(r)
  <2>1. disk[NodeOf[r]]["keystore"] = 0
    BY <1>2 DEF Generate, CryptoExistLocal, Pair
  <2>2. pc'[r] = "lookup" /\ answer'[r] = "none"
    BY <1>2 DEF Generate, Goto, MaterialInv, MaterialTyped
  <2>3. \/ disk' = disk
        \/ disk' = [disk EXCEPT ![NodeOf[r]] = [disk[NodeOf[r]] EXCEPT !["admincerts"] = 1]]
    BY <1>2 DEF Generate
  <2>4. disk \in [Nodes -> [Files -> Nat]]
    BY DEF MaterialInv, MaterialTyped
  <2>5. /\ disk'[NodeOf[r]]["signcerts"] = disk[NodeOf[r]]["signcerts"]
        /\ disk'[NodeOf[r]]["keystore"] = disk[NodeOf[r]]["keystore"]
    BY <1>1, <2>3, <2>4
  <2>6. QED BY <2>1, <2>2, <2>5, PairMoves
<1>3. CASE Exists(r)
  <2>1. disk[NodeOf[r]]["keystore"] # 0 /\ disk' = disk
    BY <1>3 DEF Exists, CryptoExistLocal
  <2>2. pc'[r] = "idle" /\ answer'[r] = "exist"
    BY <1>3 DEF Exists, Return, MaterialInv, MaterialTyped
  <2>3. QED BY <2>1, <2>2, PairMoves
<1>4. CASE ExistThrows(r)
  <2>1. pc'[r] = "idle" /\ answer'[r] = "error" /\ disk' = disk
    BY <1>4 DEF ExistThrows, Return, MaterialInv, MaterialTyped
  <2>2. QED BY <2>1, PairMoves
<1>5. QED BY <1>2, <1>3, <1>4

LEMMA AskPair ==
    ASSUME MaterialInv, NEW r \in Runs, Kept(NodeOf[r]), Pair(r),
           \/ IdentityExists(r) \/ IdentityMissing(r) \/ Register(r) \/ Refused(r)
           \/ RequestFails(r) \/ Crash(r)
    PROVE  Pair(r)'
<1>1. disk' = disk
  BY DEF IdentityExists, IdentityMissing, Register, Refused, RequestFails, Crash
<1>2. CASE IdentityExists(r) \/ IdentityMissing(r) \/ Register(r)
  <2>1. disk[NodeOf[r]]["keystore"] = 0 /\ pc[r] \in {"lookup", "register"}
    BY <1>2 DEF Pair, IdentityExists, IdentityMissing, Register
  <2>2. pc'[r] \in {"enroll", "register"} /\ answer'[r] = answer[r]
    BY <1>2 DEF IdentityExists, IdentityMissing, Register, Goto,
       MaterialInv, MaterialTyped
  <2>3. answer[r] = "none"
    BY <2>1 DEF MaterialInv, Writing
  <2>4. QED BY <1>1, <2>1, <2>2, <2>3, PairMoves
<1>3. CASE Refused(r) \/ RequestFails(r) \/ Crash(r)
  <2>1. pc'[r] = "idle" /\ answer'[r] = "error"
    BY <1>3 DEF Refused, RequestFails, Crash, Return, MaterialInv, MaterialTyped
  <2>2. QED BY <1>1, <2>1, PairMoves
<1>4. QED BY <1>2, <1>3

LEMMA EnrollPair ==
    ASSUME MaterialInv, NEW r \in Runs, Kept(NodeOf[r]), Pair(r),
           Enroll(r)
    PROVE  Pair(r)'
<1>1. /\ NodeOf[r] \in Nodes /\ issued[NodeOf[r]] \in Nat /\ disk' = disk
      /\ answer'[r] = "none"
  BY CryptoGenAssumption DEF MaterialInv, MaterialTyped, Enroll, MayEnroll, Writing
<1>2. CASE pc[r] = "enroll"
  <2>1. pc'[r] = "msp" /\ writes'[r] = ToMSP /\ material'[r] = issued[NodeOf[r]] + 1
    BY <1>2 DEF Enroll, EnrollFor, Goto, MaterialInv, MaterialTyped
  <2>2. disk[NodeOf[r]]["keystore"] = 0
    BY <1>2 DEF Pair
  <2>3. QED BY <1>1, <2>1, <2>2 DEF Pair, ToMSP
<1>3. CASE pc[r] = "enrollTLS"
  <2>1. pc'[r] = "tls" /\ writes'[r] = ToTLS
    BY <1>3 DEF Enroll, EnrollFor, Goto, MaterialInv, MaterialTyped
  <2>2. disk[NodeOf[r]]["keystore"] # 0
    BY <1>3 DEF Pair
  <2>3. QED BY <1>1, <2>1, <2>2 DEF Pair, ToTLS
<1>4. QED BY <1>2, <1>3 DEF Enroll, MayEnroll

LEMMA WritePair ==
    ASSUME MaterialInv, NEW r \in Runs, Kept(NodeOf[r]), Pair(r),
           WriteFile(r)
    PROVE  Pair(r)'
<1> DEFINE n == NodeOf[r]
           file == Head(writes[r])
<1>1. /\ n \in Nodes /\ {"signcerts", "keystore"} \subseteq Files
      /\ disk \in [Nodes -> [Files -> Nat]]
  BY CryptoGenAssumption DEF Files, MaterialInv, MaterialTyped
<1>2. /\ writes[r] # <<>> /\ writes'[r] = Tail(writes[r])
      /\ disk' = [disk EXCEPT ![n] = [disk[n] EXCEPT ![file] = material[r]]]
      /\ pc'[r] = pc[r] /\ answer'[r] = "none" /\ material'[r] = material[r]
  BY KeptPlaces DEF WriteFile, MaterialInv, MaterialTyped, Writing
<1>3. pc[r] \in {"msp", "tls"}
  BY <1>2, KeptPlaces DEF MaterialInv, Writing
<1>4. /\ disk'[n]["signcerts"] = IF file = "signcerts" THEN material[r] ELSE disk[n]["signcerts"]
      /\ disk'[n]["keystore"] = IF file = "keystore" THEN material[r] ELSE disk[n]["keystore"]
  BY <1>1, <1>2
<1>5. CASE pc[r] = "msp" /\ writes[r] = <<"signcerts", "keystoredir", "keystore", "cacerts">>
  <2>1. file = "signcerts" /\ writes'[r] = <<"keystoredir", "keystore", "cacerts">>
    BY <1>2, <1>5
  <2>2. disk[n]["keystore"] = 0 /\ material[r] # 0
    BY <1>5 DEF Pair
  <2>3. QED BY <1>2, <1>4, <1>5, <2>1, <2>2 DEF Pair
<1>10. CASE pc[r] = "msp" /\ writes[r] = <<"keystoredir", "keystore", "cacerts">>
  <2>1. file = "keystoredir" /\ writes'[r] = <<"keystore", "cacerts">>
    BY <1>2, <1>10
  <2>2. /\ disk[n]["keystore"] = 0 /\ disk[n]["signcerts"] = material[r] /\ material[r] # 0
    BY <1>10 DEF Pair
  <2>3. QED BY <1>2, <1>4, <1>10, <2>1, <2>2 DEF Pair
<1>6. CASE pc[r] = "msp" /\ writes[r] = <<"keystore", "cacerts">>
  <2>1. file = "keystore" /\ writes'[r] = <<"cacerts">>
    BY <1>2, <1>6
  <2>2. disk[n]["signcerts"] = material[r] /\ material[r] # 0
    BY <1>6 DEF Pair
  <2>3. QED BY <1>2, <1>4, <1>6, <2>1, <2>2 DEF Pair
<1>7. CASE pc[r] = "msp" /\ writes[r] = <<"cacerts">>
  <2>1. file = "cacerts" /\ writes'[r] = <<>>
    BY <1>2, <1>7
  <2>2. disk[n]["keystore"] = material[r] /\ material[r] # 0
    BY <1>7 DEF Pair
  <2>3. QED BY <1>2, <1>4, <1>7, <2>1, <2>2 DEF Pair
<1>8. CASE pc[r] = "tls"
  <2>1. disk[n]["keystore"] # 0
    BY <1>8 DEF Pair
  <2>2. /\ file \in {"tlskey", "tlscert", "tlsca", "tlscacerts"}
        /\ writes'[r] \in {<<"tlscert", "tlsca", "tlscacerts">>, <<"tlsca", "tlscacerts">>,
                            <<"tlscacerts">>, <<>>}
    <3>1. CASE writes[r] = <<"tlskey", "tlscert", "tlsca", "tlscacerts">>
      BY <1>2, <3>1
    <3>2. CASE writes[r] = <<"tlscert", "tlsca", "tlscacerts">>
      BY <1>2, <3>2
    <3>3. CASE writes[r] = <<"tlsca", "tlscacerts">>
      BY <1>2, <3>3
    <3>4. CASE writes[r] = <<"tlscacerts">>
      BY <1>2, <3>4
    <3>5. QED BY <1>2, <1>8, <3>1, <3>2, <3>3, <3>4 DEF Pair
  <2>3. QED BY <1>2, <1>4, <1>8, <2>1, <2>2 DEF Pair
<1>9. QED BY <1>2, <1>3, <1>5, <1>10, <1>6, <1>7, <1>8 DEF Pair

LEMMA AfterPair ==
    ASSUME MaterialInv, NEW r \in Runs, Kept(NodeOf[r]), Pair(r),
           AfterMSP(r) \/ AfterTLS(r)
    PROVE  Pair(r)'
<1>1. disk' = disk /\ writes[r] = <<>> /\ pc[r] \in {"msp", "tls"} /\ answer[r] = "none"
  BY DEF AfterMSP, AfterTLS, MaterialInv, Writing
<1>2. pc'[r] \in {"idle", "enrollTLS"}
  BY DEF AfterMSP, AfterTLS, Goto, Return, MaterialInv, MaterialTyped
<1>3. disk[NodeOf[r]]["keystore"] # 0
  BY <1>1 DEF Pair
<1>4. QED BY <1>1, <1>2, <1>3, PairMoves

LEMMA PairNext ==
    ASSUME PairInv, OneRunEach, [CryptoNext]_(cryptoVars)
    PROVE  PairInv'
<1>1. MaterialInv /\ MaterialInv'
  BY MaterialNext DEF PairInv
<1>2. CASE UNCHANGED cryptoVars
  BY <1>1, <1>2 DEF cryptoVars, PairInv, Pair
<1>3. ASSUME NEW s \in Runs,
             \/ Step(s) \/ Exists(s) \/ ExistThrows(s) \/ RequestFails(s) \/ Crash(s)
             \/ Repeat(s),
             NEW r \in Runs, Kept(NodeOf[r])
      PROVE  Pair(r)'
  <2>1. Pair(r)
    BY <1>3 DEF PairInv
  <2>2. CASE s # r
    <3>1. NodeOf[s] # NodeOf[r]
      BY <1>3, <2>2 DEF OneRunEach
    <3>2. QED BY <1>1, <1>3, <2>1, <2>2, <3>1, OneRunMoves, PairStays
  <2>3. CASE s = r
    <3>1. ~EnrollOrg(r) /\ ~EnrollClient(r) /\ ~Repeat(r)
      BY <1>3, KeptRoles DEF EnrollOrg, EnrollClient, Repeat, InitAdmin, GenerateAnew
    <3>2. ~EnrollAdmin(r) /\ ~AdminWritten(r)
      BY <1>1, <1>3, KeptPlaces DEF EnrollAdmin, AdminWritten
    <3>3. \A i \in 1..Len(Affiliations) :
              ~LookupAffiliation(r, i) /\ ~CreateAffiliation(r, i)
      BY <1>1, <1>3, KeptPlaces, AffiliationPlaces DEF LookupAffiliation, CreateAffiliation
    <3>4. \/ Generate(r) \/ Exists(r) \/ ExistThrows(r) \/ IdentityExists(r) \/ IdentityMissing(r)
          \/ Register(r) \/ Refused(r) \/ RequestFails(r) \/ Crash(r)
          \/ Enroll(r) \/ WriteFile(r) \/ AfterMSP(r) \/ AfterTLS(r)
      BY <1>3, <2>3, <3>1, <3>2, <3>3 DEF Step
    <3>5. QED BY <1>1, <1>3, <2>1, <3>4, GeneratePair, AskPair, EnrollPair, WritePair, AfterPair
  <2>4. QED BY <2>2, <2>3
<1>4. QED BY <1>1, <1>2, <1>3 DEF PairInv, CryptoNext, Kept

\* Whoever is told that the material of a node or a user is there, now or from
\* before, has a key that belongs to its certificate, whatever requests failed
\* and wherever the process ended before (genOrderer, genPeer, genUser of
\* nodejs/ca/ca-crypto-gen.js), if no two of them run for the same identity.
THEOREM PairsMatch == ASSUME OneRunEach PROVE CryptoSpec => []PairMatches
<1>1. CryptoInit => PairInv
  <2> SUFFICES ASSUME CryptoInit PROVE PairInv
    OBVIOUS
  <2>1. ASSUME NEW r \in Runs PROVE Pair(r)
    <3>1. NodeOf[r] \in Nodes /\ {"signcerts", "keystore"} \subseteq Files
      BY CryptoGenAssumption DEF Files
    <3>2. /\ pc[r] = "idle" /\ answer[r] = "none"
          /\ disk[NodeOf[r]]["signcerts"] = 0 /\ disk[NodeOf[r]]["keystore"] = 0
      BY <3>1 DEF CryptoInit
    <3>3. QED BY <3>2 DEF Pair
  <2>2. QED BY <2>1, MaterialInit DEF PairInv
<1>2. PairInv /\ [CryptoNext]_(cryptoVars) => PairInv'
  BY PairNext
<1>3. PairInv => PairMatches
  BY DEF PairInv, Pair, PairMatches
<1>4. QED BY <1>1, <1>2, <1>3, PTL DEF CryptoSpec

(***************************************************************************)
(* Policies: what is written, what is sent, and what it means.             *)
(***************************************************************************)
\* How many of the places are at or before one of them.
Rank(places, o) == Cardinality({q \in places : AtOrBefore(q, o)})

\* No two places have the same rank.
LEMMA RanksDiffer ==
    ASSUME NEW places \in SUBSET (Nat \X Nat), IsFiniteSet(places)
    PROVE  /\ Cardinality(places) \in Nat
           /\ \A o \in places : Rank(places, o) \in 1..Cardinality(places)
           /\ \A o, q \in places : Rank(places, o) = Rank(places, q) => o = q
<1>0. Cardinality(places) \in Nat
  BY FS_CardinalityType
<1> DEFINE Upto(o) == {q \in places : AtOrBefore(q, o)}
<1>1. ASSUME NEW o \in places
      PROVE  /\ IsFiniteSet(Upto(o)) /\ Cardinality(Upto(o)) \in Nat
             /\ Cardinality(Upto(o)) <= Cardinality(places)
             /\ o \in Upto(o)
  <2>1. Upto(o) \in SUBSET places
    OBVIOUS
  <2>2. o \in Upto(o)
    <3>1. o \in Nat \X Nat
      OBVIOUS
    <3> QED BY <3>1 DEF AtOrBefore
  <2> HIDE DEF Upto
  <2> QED BY <2>1, <2>2, FS_Subset, FS_CardinalityType
<1>2. ASSUME NEW o \in places PROVE Rank(places, o) \in 1..Cardinality(places)
  <2>1. Cardinality(Upto(o)) # 0
    <3> HIDE DEF Upto
    <3> QED BY <1>1, FS_EmptySet
  <2>2. Rank(places, o) = Cardinality(Upto(o))
    BY DEF Rank
  <2> HIDE DEF Upto
  <2> QED BY <1>0, <1>1, <2>1, <2>2
<1>3. ASSUME NEW o \in places, NEW q \in places, ~AtOrBefore(q, o)
      PROVE  Rank(places, o) # Rank(places, q)
  <2>1. o \in Nat \X Nat /\ q \in Nat \X Nat
    OBVIOUS
  <2>2. Upto(o) \in SUBSET Upto(q)
    <3> SUFFICES ASSUME NEW r \in places, AtOrBefore(r, o) PROVE AtOrBefore(r, q)
      OBVIOUS
    <3>1. r \in Nat \X Nat
      OBVIOUS
    <3> QED BY <1>3, <2>1, <3>1 DEF AtOrBefore
  <2>3. q \notin Upto(o)
    BY <1>3
  <2>4. q \in Upto(q) /\ IsFiniteSet(Upto(q))
    BY <1>1
  <2>5. Upto(o) # Upto(q)
    BY <2>3, <2>4
  <2>6. Cardinality(Upto(o)) # Cardinality(Upto(q))
    <3> HIDE DEF Upto
    <3> QED BY <2>2, <2>4, <2>5, FS_Subset
  <2> QED BY <2>6 DEF Rank
<1>4. ASSUME NEW o \in places, NEW q \in places, Rank(places, o) = Rank(places, q) PROVE o = q
  <2>1. o \in Nat \X Nat /\ q \in Nat \X Nat
    OBVIOUS
  <2>2. AtOrBefore(q, o) /\ AtOrBefore(o, q)
    BY <1>3, <1>4
  <2> QED BY <2>1, <2>2 DEF AtOrBefore
<1> QED BY <1>0, <1>2, <1>4

\* InOrder has every place of a finite set, and nothing else.
LEMMA InOrderOnto ==
    ASSUME NEW places \in SUBSET (Nat \X Nat), IsFiniteSet(places)
    PROVE  /\ Cardinality(places) \in Nat
           /\ DOMAIN InOrder(places) = 1..Cardinality(places)
           /\ \A k \in 1..Cardinality(places) :
                  InOrder(places)[k] \in places /\ Rank(places, InOrder(places)[k]) = k
           /\ \A o \in places : \E k \in 1..Cardinality(places) : InOrder(places)[k] = o
<1> DEFINE N == Cardinality(places)
           rank == [o \in places |-> Rank(places, o)]
<1>1. N \in Nat
  BY RanksDiffer
<1>2. rank \in Injection(places, 1..N)
  <2>1. rank \in [places -> 1..N]
    BY RanksDiffer
  <2>2. \A o, q \in places : rank[o] = rank[q] => o = q
    BY RanksDiffer
  <2> HIDE DEF rank
  <2> QED BY <2>1, <2>2 DEF Injection, IsInjective
<1>3. IsFiniteSet(1..N) /\ Cardinality(1..N) = N
  <2>1. Cardinality(1..N) = IF 1 > N THEN 0 ELSE N - 1 + 1
    BY <1>1, FS_Interval
  <2> HIDE DEF N
  <2> QED BY <1>1, <2>1, FS_Interval
<1>4. rank \in Surjection(places, 1..N)
  <2> HIDE DEF rank
  <2> QED BY <1>2, <1>3, FS_Injection
<1>5. ASSUME NEW k \in 1..N PROVE \E o \in places : Rank(places, o) = k
  <2>1. PICK o \in places : rank[o] = k
    <3> HIDE DEF rank
    <3> QED BY <1>4 DEF Surjection
  <2> QED BY <2>1
<1>6. ASSUME NEW k \in 1..N
      PROVE  InOrder(places)[k] \in places /\ Rank(places, InOrder(places)[k]) = k
  BY <1>5, <1>6 DEF InOrder, Rank
<1>7. ASSUME NEW o \in places PROVE \E k \in 1..N : InOrder(places)[k] = o
  <2>1. Rank(places, o) \in 1..N
    BY RanksDiffer
  <2>2. InOrder(places)[Rank(places, o)] = o
    BY <1>6, <2>1, RanksDiffer
  <2> QED BY <2>1, <2>2
<1>8. DOMAIN InOrder(places) = 1..N
  BY DEF InOrder
<1> QED BY <1>1, <1>6, <1>7, <1>8

\* The first place where a thing holds is one before all others where it does.
LEMMA FirstOf ==
    ASSUME NEW places \in SUBSET (Nat \X Nat), IsFiniteSet(places), places # {}
    PROVE  \E o \in places : \A q \in places : AtOrBefore(o, q)
<1>1. Cardinality(places) # 0 /\ Cardinality(places) \in Nat
  BY FS_EmptySet, FS_CardinalityType
<1>2. PICK o \in places : Rank(places, o) = 1
  BY <1>1, InOrderOnto
<1> DEFINE Upto == {q \in places : AtOrBefore(q, o)}
<1>3. o \in Nat \X Nat
  OBVIOUS
<1>4. IsFiniteSet(Upto) /\ o \in Upto
  <2>1. Upto \in SUBSET places /\ o \in Upto
    BY <1>3 DEF AtOrBefore
  <2> HIDE DEF Upto
  <2> QED BY <2>1, FS_Subset
<1>5. PICK x : Upto = {x}
  <2>1. Cardinality(Upto) = 1
    BY <1>2 DEF Rank
  <2> HIDE DEF Upto
  <2> QED BY <1>4, <2>1, FS_Singleton
<1>6. ASSUME NEW q \in places PROVE AtOrBefore(o, q)
  <2>1. q \in Nat \X Nat
    OBVIOUS
  <2>2. CASE q = o
    BY <1>3, <2>2 DEF AtOrBefore
  <2>3. CASE q # o
    <3>1. q \notin Upto
      <4> HIDE DEF Upto
      <4> QED BY <1>4, <1>5, <2>3
    <3>2. ~AtOrBefore(q, o)
      BY <3>1
    <3> QED BY <1>3, <2>1, <3>2 DEF AtOrBefore
  <2> QED BY <2>2, <2>3
<1> QED BY <1>6

\* How many of 1..m is at least one, and is all of them.
LEMMA Counting ==
    ASSUME NEW m \in Nat, NEW S \in SUBSET (1..m)
    PROVE  /\ Cardinality(S) >= 1 <=> S # {}
           /\ Cardinality(S) >= m <=> S = 1..m
<1>1. IsFiniteSet(1..m) /\ Cardinality(1..m) = m
  <2>1. Cardinality(1..m) = IF 1 > m THEN 0 ELSE m - 1 + 1
    BY FS_Interval
  <2> QED BY <2>1, FS_Interval
<1>2. IsFiniteSet(S) /\ Cardinality(S) \in Nat /\ Cardinality(S) <= m
  BY <1>1, FS_Subset, FS_CardinalityType
<1>3. Cardinality(S) = 0 <=> S = {}
  BY <1>2, FS_EmptySet
<1>4. Cardinality(S) = m => S = 1..m
  BY <1>1, FS_Subset
<1>5. Cardinality(S) >= 1 <=> S # {}
  <2>1. CASE S = {}
    BY <1>3, <2>1
  <2>2. CASE S # {}
    <3>1. Cardinality(S) # 0
      BY <1>3, <2>2
    <3> QED BY <1>2, <2>2, <3>1
  <2> QED BY <2>1, <2>2
<1>6. S = 1..m => Cardinality(S) >= m
  BY <1>1
<1>7. Cardinality(S) >= m => S = 1..m
  BY <1>2, <1>4
<1> QED BY <1>5, <1>6, <1>7

\* What the items of a text are, as sequences.
LEMMA ItemsOfText ==
    ASSUME NEW text, IsText(text)
    PROVE  /\ DOMAIN text.items = 1..Len(text.items) /\ Len(text.items) \in Nat /\ 1 \in DOMAIN text.items
           /\ ToSet(text.items) = {text.items[i] : i \in DOMAIN text.items}
           /\ \A i \in DOMAIN text.items : IsItem(text.items[i])
<1> DEFINE s == text.items
<1>1. s \in Seq(ToSet(s)) /\ s # <<>>
  BY DEF IsText, IsGateClause
<1>2. ToSet(s) = {s[i] : i \in DOMAIN s}
  BY DEF ToSet
<1>3. DOMAIN s = 1..Len(s) /\ Len(s) \in Nat /\ Len(s) # 0
  <2> HIDE DEF s
  <2> QED BY <1>1, LenProperties, EmptySeq
<1>4. \A i \in DOMAIN s : IsItem(s[i])
  BY <1>2 DEF IsText, IsGateClause
<1> QED BY <1>2, <1>3, <1>4

\* An item's principals, alone or of its gate.
LEMMA PrincipalsOfItem ==
    ASSUME NEW item, IsItem(item)
    PROVE  /\ DOMAIN ItemsOf(item) = 1..Len(ItemsOf(item)) /\ Len(ItemsOf(item)) \in Nat
           /\ 1 \in DOMAIN ItemsOf(item)
           /\ \A j \in DOMAIN ItemsOf(item) : IsPrincipal(ItemsOf(item)[j])
           /\ IsGate(item) => /\ item.gate \in {"AND", "OR"}
                              /\ ToSet(item.items) = {ItemsOf(item)[j] : j \in DOMAIN ItemsOf(item)}
<1>1. CASE IsGate(item)
  <2> DEFINE s == item.items
  <2>1. s \in Seq(ToSet(s)) /\ s # <<>> /\ item.gate \in {"AND", "OR"}
    BY <1>1 DEF IsItem, IsGateClause
  <2>2. ToSet(s) = {s[i] : i \in DOMAIN s}
    BY DEF ToSet
  <2>3. DOMAIN s = 1..Len(s) /\ Len(s) \in Nat /\ Len(s) # 0
    <3> HIDE DEF s
    <3> QED BY <2>1, LenProperties, EmptySeq
  <2>4. \A i \in DOMAIN s : IsPrincipal(s[i])
    BY <1>1, <2>2 DEF IsItem, IsGateClause
  <2> QED BY <1>1, <2>1, <2>2, <2>3, <2>4 DEF ItemsOf
<1>2. CASE ~IsGate(item)
  <2>1. ItemsOf(item) = <<item>> /\ IsPrincipal(item)
    BY <1>2 DEF ItemsOf, IsItem
  <2> QED BY <1>2, <2>1
<1> QED BY <1>1, <1>2

\* The places of a text are finitely many.
LEMMA PlacesFinite ==
    ASSUME NEW text, IsText(text)
    PROVE  /\ Places(text) \in SUBSET (Nat \X Nat) /\ IsFiniteSet(Places(text))
           /\ Places(text) # {}
           /\ \A o : o \in Places(text) <=>
                 \E i \in DOMAIN text.items : \E j \in DOMAIN ItemsOf(text.items[i]) : o = <<i, j>>
<1> DEFINE n == Len(text.items)
           row == [i \in 1..n |-> {i} \X DOMAIN ItemsOf(text.items[i])]
           rows == {row[i] : i \in 1..n}
<1>1. n \in Nat /\ DOMAIN text.items = 1..n /\ 1 \in 1..n
  BY ItemsOfText
<1>2. Places(text) = UNION rows
  <2>1. rows = {{i} \X DOMAIN ItemsOf(text.items[i]) : i \in 1..n}
    OBVIOUS
  <2> QED BY <1>1, <2>1 DEF Places
<1>3. ASSUME NEW i \in 1..n
      PROVE  /\ DOMAIN ItemsOf(text.items[i]) \in SUBSET Nat
             /\ 1 \in DOMAIN ItemsOf(text.items[i])
             /\ IsFiniteSet(row[i])
  <2> DEFINE d == DOMAIN ItemsOf(text.items[i])
  <2>1. d = 1..Len(ItemsOf(text.items[i])) /\ Len(ItemsOf(text.items[i])) \in Nat /\ 1 \in d
    BY <1>1, ItemsOfText, PrincipalsOfItem
  <2>2. IsFiniteSet(d) /\ IsFiniteSet({i})
    <3>1. IsFiniteSet(1..Len(ItemsOf(text.items[i])))
      BY <2>1, FS_Interval
    <3>2. IsFiniteSet({i})
      BY FS_Singleton
    <3> HIDE DEF d
    <3> QED BY <2>1, <3>1, <3>2
  <2>3. IsFiniteSet({i} \X d)
    <3> HIDE DEF d
    <3> QED BY <2>2, FS_Product
  <2>4. row[i] = {i} \X d
    OBVIOUS
  <2>5. d \in SUBSET Nat
    <3> HIDE DEF d
    <3> QED BY <2>1
  <2>6. IsFiniteSet(row[i])
    <3> HIDE DEF d, row
    <3> QED BY <2>3, <2>4
  <2> QED BY <2>1, <2>5, <2>6
<1>4. IsFiniteSet(rows)
  <2>1. row \in Surjection(1..n, rows)
    <3> HIDE DEF row
    <3>1. row \in [1..n -> rows]
      BY DEF row
    <3> QED BY <3>1 DEF Surjection
  <2>2. IsFiniteSet(1..n)
    BY <1>1, FS_Interval
  <2> QED BY <2>1, <2>2, FS_Surjection
<1>5. IsFiniteSet(Places(text))
  <2>1. \A T \in rows : IsFiniteSet(T)
    BY <1>3
  <2> HIDE DEF rows
  <2> QED BY <1>2, <1>4, <2>1, FS_UNION
<1>6. ASSUME NEW o
      PROVE  o \in Places(text) <=>
                 \E i \in DOMAIN text.items : \E j \in DOMAIN ItemsOf(text.items[i]) : o = <<i, j>>
  BY DEF Places
<1>7. Places(text) \in SUBSET (Nat \X Nat)
  BY <1>1, <1>3, <1>6
<1>8. <<1, 1>> \in Places(text)
  BY <1>1, <1>3, <1>6
<1> QED BY <1>5, <1>6, <1>7, <1>8

\* In a plain text each item has one principal, and the patterns see them all.
LEMMA PlainText ==
    ASSUME NEW text, IsText(text), Plain(text)
    PROVE  /\ \A i \in DOMAIN text.items : Len(ItemsOf(text.items[i])) = 1
           /\ \A o \in Places(text) : o[1] \in DOMAIN text.items /\ o = <<o[1], 1>>
           /\ \A i \in DOMAIN text.items : <<i, 1>> \in Places(text)
           /\ \A o \in Places(text) : IsNamed(text, o) /\ IsPrincipal(PrincipalAt(text, o))
           /\ Matched(text) = Places(text)
<1>1. ASSUME NEW i \in DOMAIN text.items
      PROVE  /\ Len(ItemsOf(text.items[i])) = 1
             /\ DOMAIN ItemsOf(text.items[i]) = {1}
             /\ \A j \in DOMAIN ItemsOf(text.items[i]) : IsPrincipal(ItemsOf(text.items[i])[j])
  <2> DEFINE item == text.items[i]
  <2>1. item \in ToSet(text.items) /\ IsItem(item)
    BY ItemsOfText
  <2>2. Len(ItemsOf(item)) = 1
    <3>1. CASE IsGate(item)
      <4>1. Len(item.items) = 1
        BY <2>1, <3>1 DEF Plain
      <4> QED BY <3>1, <4>1 DEF ItemsOf
    <3>2. CASE ~IsGate(item)
      BY <3>2 DEF ItemsOf
    <3> QED BY <3>1, <3>2
  <2>3. DOMAIN ItemsOf(item) = 1..Len(ItemsOf(item))
    BY <2>1, PrincipalsOfItem
  <2>4. \A j \in DOMAIN ItemsOf(item) : IsPrincipal(ItemsOf(item)[j])
    BY <2>1, PrincipalsOfItem
  <2> QED BY <2>2, <2>3, <2>4
<1>2. ASSUME NEW o \in Places(text) PROVE o[1] \in DOMAIN text.items /\ o = <<o[1], 1>>
  <2>1. PICK i \in DOMAIN text.items : \E j \in DOMAIN ItemsOf(text.items[i]) : o = <<i, j>>
    BY PlacesFinite
  <2> QED BY <1>1, <2>1
<1>3. ASSUME NEW i \in DOMAIN text.items PROVE <<i, 1>> \in Places(text)
  <2>1. 1 \in DOMAIN ItemsOf(text.items[i])
    BY <1>1
  <2> QED BY <2>1, PlacesFinite
<1>4. ASSUME NEW o \in Places(text) PROVE IsNamed(text, o) /\ IsPrincipal(PrincipalAt(text, o))
  <2>1. PrincipalAt(text, o) \in Principals(text)
    BY DEF Principals
  <2>2. o[1] \in DOMAIN text.items /\ o[2] = 1
    BY <1>2
  <2>3. IsPrincipal(PrincipalAt(text, o))
    BY <1>1, <2>2 DEF PrincipalAt
  <2> QED BY <2>1, <2>3 DEF Plain, IsNamed
<1>5. ASSUME NEW o \in Places(text) PROVE o \in Matched(text)
  <2>1. o[1] \in DOMAIN text.items /\ o = <<o[1], 1>> /\ IsNamed(text, o)
    BY <1>2, <1>4
  <2>2. Len(ItemsOf(text.items[o[1]])) = 1
    BY <1>1, <2>1
  <2>3. text.spaced => o = <<1, 1>>
    <3> SUFFICES ASSUME text.spaced PROVE o[1] = 1
      BY <2>1
    <3>1. ~(Len(text.items) > 1)
      BY DEF Plain
    <3>2. DOMAIN text.items = 1..Len(text.items) /\ Len(text.items) \in Nat
      BY ItemsOfText
    <3> QED BY <2>1, <3>1, <3>2
  <2>4. ~(Len(ItemsOf(text.items[o[1]])) > 1)
    BY <2>2
  <2> QED BY <2>1, <2>3, <2>4, Zenon DEF Matched
<1>6. Matched(text) \subseteq Places(text)
  BY DEF Matched
<1> QED BY <1>1, <1>2, <1>3, <1>4, <1>5, <1>6

\* Where the patterns see a principal.
NamedPlaces(text) == {o \in Matched(text) : IsNamed(text, o)}

\* For any text, the identities are the principals that the patterns see, each
\* of them once.
LEMMA IdentitiesOf ==
    ASSUME NEW text, IsText(text)
    PROVE  /\ \E n \in Nat : DOMAIN Identities(text) = 1..n
           /\ \A o \in NamedPlaces(text) :
                  \E k \in DOMAIN Identities(text) : Identities(text)[k] = PrincipalAt(text, o)
           /\ \A k \in DOMAIN Identities(text) :
                  \E o \in NamedPlaces(text) : Identities(text)[k] = PrincipalAt(text, o)
           /\ \A k, l \in DOMAIN Identities(text) : Identities(text)[k] = Identities(text)[l] => k = l
<1> DEFINE F == FirstPlaces(text)
           named == NamedPlaces(text)
<1>1. \A o : o \in F <=>
         /\ o \in named
         /\ \A q \in named : PrincipalAt(text, q) = PrincipalAt(text, o) => AtOrBefore(o, q)
  BY DEF FirstPlaces, NamedPlaces
<1>2. named \in SUBSET (Nat \X Nat) /\ IsFiniteSet(named)
  <2>1. named \in SUBSET Places(text)
    BY DEF NamedPlaces, Matched
  <2> HIDE DEF named
  <2> QED BY <2>1, PlacesFinite, FS_Subset
<1> HIDE DEF named
<1>3. F \in SUBSET named
  BY <1>1
<1> HIDE DEF F
<1>4. F \in SUBSET (Nat \X Nat) /\ IsFiniteSet(F)
  BY <1>2, <1>3, FS_Subset
<1>5. /\ Cardinality(F) \in Nat
      /\ DOMAIN InOrder(F) = 1..Cardinality(F)
      /\ \A k \in 1..Cardinality(F) : InOrder(F)[k] \in F /\ Rank(F, InOrder(F)[k]) = k
      /\ \A o \in F : \E k \in 1..Cardinality(F) : InOrder(F)[k] = o
  BY <1>4, InOrderOnto
<1>6. /\ DOMAIN Identities(text) = 1..Cardinality(F)
      /\ \A k \in 1..Cardinality(F) : Identities(text)[k] = PrincipalAt(text, InOrder(F)[k])
  BY <1>5 DEF Identities, F
<1>7. ASSUME NEW r \in named
      PROVE  \E k \in DOMAIN Identities(text) : Identities(text)[k] = PrincipalAt(text, r)
  <2> DEFINE Q == {o \in named : PrincipalAt(text, o) = PrincipalAt(text, r)}
  <2>1. Q # {} /\ Q \in SUBSET named
    OBVIOUS
  <2>2. Q \in SUBSET (Nat \X Nat) /\ IsFiniteSet(Q)
    <3> HIDE DEF Q
    <3> QED BY <1>2, <2>1, FS_Subset
  <2>3. PICK o \in Q : \A q \in Q : AtOrBefore(o, q)
    <3> HIDE DEF Q
    <3> QED BY <2>1, <2>2, FirstOf
  <2>4. o \in F /\ PrincipalAt(text, o) = PrincipalAt(text, r)
    BY <1>1, <2>3
  <2>5. PICK k \in 1..Cardinality(F) : InOrder(F)[k] = o
    BY <1>5, <2>4
  <2> QED BY <1>6, <2>4, <2>5
<1>8. ASSUME NEW k \in DOMAIN Identities(text)
      PROVE  \E o \in named : Identities(text)[k] = PrincipalAt(text, o)
  BY <1>3, <1>5, <1>6
<1>9. ASSUME NEW k \in DOMAIN Identities(text), NEW l \in DOMAIN Identities(text),
             Identities(text)[k] = Identities(text)[l]
      PROVE  k = l
  <2> DEFINE o == InOrder(F)[k]
             q == InOrder(F)[l]
  <2>1. /\ o \in F /\ q \in F /\ PrincipalAt(text, o) = PrincipalAt(text, q)
        /\ Rank(F, o) = k /\ Rank(F, q) = l
    BY <1>5, <1>6, <1>9
  <2> HIDE DEF o, q
  <2>2. AtOrBefore(o, q) /\ AtOrBefore(q, o)
    BY <1>1, <1>3, <2>1
  <2>3. o \in Nat \X Nat /\ q \in Nat \X Nat
    BY <1>4, <2>1
  <2>4. o = q
    BY <2>2, <2>3 DEF AtOrBefore
  <2> QED BY <2>1, <2>4
<1> QED BY <1>5, <1>6, <1>7, <1>8, <1>9 DEF named

\* The identities of a plain text are its principals.
LEMMA PlainIdentities ==
    ASSUME NEW text, IsText(text), Plain(text)
    PROVE  /\ \E n \in Nat : DOMAIN Identities(text) = 1..n
           /\ \A p \in Principals(text) : \E k \in DOMAIN Identities(text) : Identities(text)[k] = p
           /\ \A k \in DOMAIN Identities(text) : Identities(text)[k] \in Principals(text)
<1>1. NamedPlaces(text) = Places(text)
  BY PlainText DEF NamedPlaces
<1> QED BY <1>1, IdentitiesOf DEF Principals

\* A principal, an MSP and a role, is decoded as itself.
LEMMA DecodedPrincipal ==
    ASSUME NEW p, IsPrincipal(p)
    PROVE  [msp |-> DecodeMSPPrincipal(p).msp_identifier, role |-> DecodeMSPPrincipal(p).Role] = p
BY DEF IsPrincipal, DecodeMSPPrincipal

\* An index made for a principal stands for it when it is decoded.
LEMMA SignedByRead ==
    ASSUME NEW ids, NEW n \in Nat, DOMAIN ids = 1..n, NEW p, NEW signers,
           \E k \in DOMAIN ids : ids[k] = p, IsPrincipal(p)
    PROVE  SatisfiesRole(signers, DecodeRole(SignedBy(ids, p)),
                         [i \in DOMAIN ids |-> DecodeMSPPrincipal(ids[i])]) <=> p \in signers
<1> DEFINE k == CHOOSE i \in DOMAIN ids : ids[i] = p
           decoded == [i \in DOMAIN ids |-> DecodeMSPPrincipal(ids[i])]
<1>1. k \in 1..n /\ ids[k] = p
  OBVIOUS
<1>2. DecodeRole(SignedBy(ids, p)).signed_by + 1 = k
  <2>1. DecodeRole(SignedBy(ids, p)).signed_by = k - 1
    BY DEF DecodeRole, SignedBy
  <2> HIDE DEF k
  <2> QED BY <1>1, <2>1
<1>3. decoded[k] = DecodeMSPPrincipal(p)
  <2> HIDE DEF k
  <2> QED BY <1>1
<1> HIDE DEF k, decoded
<1>4. [msp |-> decoded[k].msp_identifier, role |-> decoded[k].Role] = p
  BY <1>3, DecodedPrincipal
<1>5. SatisfiesRole(signers, DecodeRole(SignedBy(ids, p)), decoded) <=> p \in signers
  BY <1>2, <1>4 DEF SatisfiesRole
<1> QED BY <1>5 DEF decoded

\* What the envelope of a plain text says at the k-th of its rules.
LEMMA PlainRules ==
    ASSUME NEW text, IsText(text), Plain(text), NEW signers
    PROVE  LET pieces == InOrder(Places(text))
               ids == Identities(text)
               decoded == [i \in DOMAIN ids |-> DecodeMSPPrincipal(ids[i])]
           IN \A k \in DOMAIN pieces :
                 SatisfiesInner(signers, DecodeInner(Rule(text, pieces[k])), decoded)
                     <=> PrincipalAt(text, pieces[k]) \in signers
<1> DEFINE pieces == InOrder(Places(text))
           ids == Identities(text)
           decoded == [i \in DOMAIN ids |-> DecodeMSPPrincipal(ids[i])]
<1> SUFFICES ASSUME NEW k \in DOMAIN pieces
             PROVE  SatisfiesInner(signers, DecodeInner(Rule(text, pieces[k])), decoded)
                        <=> PrincipalAt(text, pieces[k]) \in signers
  OBVIOUS
<1> DEFINE o == pieces[k]
           p == PrincipalAt(text, o)
           role == SignedBy(ids, p)
<1>1. o \in Places(text)
  BY PlacesFinite, InOrderOnto
<1>2. IsPrincipal(p) /\ p \in Principals(text) /\ IsNamed(text, o)
  <2> HIDE DEF o
  <2> QED BY <1>1, PlainText DEF Principals
<1>3. SatisfiesRole(signers, DecodeRole(role), decoded) <=> p \in signers
  <2>1. PICK n \in Nat : DOMAIN ids = 1..n
    BY PlainIdentities
  <2>2. \E i \in DOMAIN ids : ids[i] = p
    <3> HIDE DEF p, ids
    <3> QED BY <1>2, PlainIdentities DEF ids
  <2> HIDE DEF ids, p
  <2> QED BY <1>2, <2>1, <2>2, SignedByRead
<1>4. CASE IsWholeGate(text, o)
  <2> DEFINE g == text.items[o[1]].gate
             rule == NOutOf(g, <<role>>)
  <2>1. Rule(text, o) = rule
    <3> HIDE DEF o
    <3> QED BY <1>2, <1>4 DEF Rule
  <2>2. rule = [n |-> 1, rules |-> <<role>>]
    <3> HIDE DEF role
    <3> QED BY DEF NOutOf
  <2>3. DecodeInner(rule) = [Type |-> "n_out_of", N |-> 1, rules |-> [i \in {1} |-> DecodeRole(role)]]
    <3>1. ~("signed_by" \in DOMAIN rule) /\ rule.n = 1 /\ rule.rules = <<role>>
      <4> HIDE DEF rule, role
      <4> QED BY <2>2
    <3>2. [i \in DOMAIN <<role>> |-> DecodeRole(<<role>>[i])] = [i \in {1} |-> DecodeRole(role)]
      <4> HIDE DEF role
      <4> QED OBVIOUS
    <3> HIDE DEF rule, role
    <3> QED BY <3>1, <3>2 DEF DecodeInner, DecodeRole
  <2> DEFINE S == {i \in {1} : SatisfiesRole(signers, DecodeRole(role), decoded)}
  <2>4. SatisfiesInner(signers, DecodeInner(rule), decoded) <=> Cardinality(S) >= 1
    <3> HIDE DEF rule, role, decoded
    <3> QED BY <2>3 DEF SatisfiesInner
  <2>5. S \in SUBSET (1..1)
    OBVIOUS
  <2>6. Cardinality(S) >= 1 <=> S # {}
    <3> HIDE DEF S
    <3> QED BY <2>5, Counting
  <2>7. S # {} <=> SatisfiesRole(signers, DecodeRole(role), decoded)
    <3> HIDE DEF role, decoded
    <3> QED OBVIOUS
  <2> HIDE DEF S, rule, role, decoded, o, p
  <2> QED BY <1>3, <2>1, <2>4, <2>6, <2>7 DEF o, p
<1>5. CASE ~IsWholeGate(text, o)
  <2>1. Rule(text, o) = role
    <3> HIDE DEF o
    <3> QED BY <1>5 DEF Rule
  <2>2. DecodeInner(role) = DecodeRole(role) /\ DecodeRole(role).Type = "signed_by"
    BY DEF DecodeInner, DecodeRole, SignedBy
  <2>3. SatisfiesInner(signers, DecodeInner(role), decoded) <=> SatisfiesRole(signers, DecodeRole(role), decoded)
    <3> HIDE DEF role, decoded
    <3> QED BY <2>2 DEF SatisfiesInner
  <2> HIDE DEF role, decoded, o, p
  <2> QED BY <1>3, <2>1, <2>3 DEF o, p
<1> HIDE DEF o, p, decoded, ids
<1> QED BY <1>4, <1>5 DEF o, p

\* What a plain text accepts, place by place.
LEMMA PlainAccepts ==
    ASSUME NEW text, IsText(text), Plain(text), NEW signers
    PROVE  TextAccepts(text, signers) <=>
               IF text.gate = "OR" THEN \E o \in Places(text) : PrincipalAt(text, o) \in signers
               ELSE \A o \in Places(text) : PrincipalAt(text, o) \in signers
<1>1. ASSUME NEW i \in DOMAIN text.items
      PROVE  ItemAccepts(text.items[i], signers) <=> PrincipalAt(text, <<i, 1>>) \in signers
  <2> DEFINE item == text.items[i]
  <2>1. IsItem(item) /\ Len(ItemsOf(item)) = 1
    BY ItemsOfText, PlainText
  <2>2. DOMAIN ItemsOf(item) = {1}
    BY <2>1, PrincipalsOfItem
  <2>3. PrincipalAt(text, <<i, 1>>) = ItemsOf(item)[1]
    BY DEF PrincipalAt
  <2>4. CASE IsGate(item)
    <3> HIDE DEF item
    <3>1. ToSet(item.items) = {ItemsOf(item)[j] : j \in DOMAIN ItemsOf(item)}
      BY <2>1, <2>4, PrincipalsOfItem
    <3>2. \A q : q \in ToSet(item.items) <=> q = ItemsOf(item)[1]
      BY <2>2, <3>1
    <3>3. ItemAccepts(item, signers) <=> ItemsOf(item)[1] \in signers
      <4>1. CASE item.gate = "OR"
        BY <2>4, <3>2, <4>1 DEF ItemAccepts
      <4>2. CASE item.gate # "OR"
        BY <2>4, <3>2, <4>2 DEF ItemAccepts
      <4> QED BY <4>1, <4>2
    <3> QED BY <2>3, <3>3 DEF item
  <2>5. CASE ~IsGate(item)
    BY <2>3, <2>5 DEF ItemAccepts, ItemsOf
  <2> QED BY <2>4, <2>5
<1>2. \A i \in DOMAIN text.items : <<i, 1>> \in Places(text)
  BY PlainText
<1>3. \A o \in Places(text) : o[1] \in DOMAIN text.items /\ o = <<o[1], 1>>
  BY PlainText
<1>4. ToSet(text.items) = {text.items[i] : i \in DOMAIN text.items}
  BY ItemsOfText
<1>5. (\E i \in ToSet(text.items) : ItemAccepts(i, signers))
          <=> \E o \in Places(text) : PrincipalAt(text, o) \in signers
  BY <1>1, <1>2, <1>3, <1>4
<1>6. (\A i \in ToSet(text.items) : ItemAccepts(i, signers))
          <=> \A o \in Places(text) : PrincipalAt(text, o) \in signers
  BY <1>1, <1>2, <1>3, <1>4
<1> QED BY <1>5, <1>6 DEF TextAccepts

\* The envelope of a plain text is satisfied by whom the text accepts.
LEMMA PlainMeans ==
    ASSUME NEW text, IsText(text), Plain(text)
    PROVE  Means(text, FromString(text))
<1> SUFFICES ASSUME NEW signers \in SUBSET Principals(text)
             PROVE  Accepts(FromString(text), signers) <=> TextAccepts(text, signers)
  BY DEF Means
<1> DEFINE pieces == InOrder(Places(text))
           m == Cardinality(Places(text))
           ids == Identities(text)
           decoded == [i \in DOMAIN ids |-> DecodeMSPPrincipal(ids[i])]
           rules == [k \in DOMAIN pieces |-> Rule(text, pieces[k])]
           N == IF text.gate = "OR" THEN 1 ELSE m
           read == [k \in DOMAIN pieces |-> DecodeInner(rules[k])]
           S == {k \in 1..m : PrincipalAt(text, pieces[k]) \in signers}
<1>1. /\ m \in Nat /\ DOMAIN pieces = 1..m
      /\ \A k \in 1..m : pieces[k] \in Places(text)
      /\ \A o \in Places(text) : \E k \in 1..m : pieces[k] = o
  BY PlacesFinite, InOrderOnto
<1>2. m # 0
  BY PlacesFinite, FS_EmptySet
<1>3. FromString(text) = [rule |-> NOutOf(text.gate, rules), identities |-> ids]
  <2>1. Matched(text) = Places(text)
    BY PlainText
  <2> QED BY <2>1 DEF FromString
<1>4. NOutOf(text.gate, rules) = [n |-> N, rules |-> rules]
  <2>1. Len(rules) = m
    <3>1. DOMAIN rules = 1..m
      BY <1>1
    <3> HIDE DEF rules, m
    <3> QED BY <1>1, <3>1
  <2> HIDE DEF rules, m
  <2> QED BY <2>1 DEF NOutOf
<1>5. DecodeEnvelope(FromString(text)) =
        [rule |-> [Type |-> "n_out_of", N |-> N, rules |-> read], identities |-> decoded]
  <2>1. DecodeSignaturePolicy([n |-> N, rules |-> rules]) = [Type |-> "n_out_of", N |-> N, rules |-> read]
    <3>1. DOMAIN rules = DOMAIN pieces
      OBVIOUS
    <3> HIDE DEF rules, N, pieces
    <3> QED BY <3>1 DEF DecodeSignaturePolicy, DecodeRole
  <2> HIDE DEF rules, N, ids, pieces, read
  <2> QED BY <1>3, <1>4, <2>1 DEF DecodeEnvelope
<1>6. \A k \in 1..m : SatisfiesInner(signers, read[k], decoded) <=> PrincipalAt(text, pieces[k]) \in signers
  BY <1>1, PlainRules
<1>7. {k \in DOMAIN read : SatisfiesInner(signers, read[k], decoded)} = S
  <2>1. DOMAIN read = 1..m
    BY <1>1
  <2> HIDE DEF read, decoded, pieces, m
  <2> QED BY <1>6, <2>1
<1>8. Accepts(FromString(text), signers) <=> Cardinality(S) >= N
  <2> HIDE DEF read, decoded, N, S
  <2> QED BY <1>5, <1>7 DEF Accepts, Satisfies
<1>9. /\ Cardinality(S) >= 1 <=> S # {}
      /\ Cardinality(S) >= m <=> S = 1..m
  <2>1. S \in SUBSET (1..m)
    OBVIOUS
  <2> HIDE DEF S, m
  <2> QED BY <1>1, <2>1, Counting
<1>10. S # {} <=> \E o \in Places(text) : PrincipalAt(text, o) \in signers
  <2> HIDE DEF pieces, m
  <2> QED BY <1>1
<1>11. S = 1..m <=> \A o \in Places(text) : PrincipalAt(text, o) \in signers
  <2>1. S = 1..m <=> \A k \in 1..m : PrincipalAt(text, pieces[k]) \in signers
    OBVIOUS
  <2> HIDE DEF pieces, m, S
  <2> QED BY <1>1, <2>1
<1>12. CASE text.gate = "OR"
  <2>1. N = 1
    BY <1>12
  <2>2. TextAccepts(text, signers) <=> \E o \in Places(text) : PrincipalAt(text, o) \in signers
    BY <1>12, PlainAccepts
  <2> HIDE DEF N, S
  <2> QED BY <1>8, <1>9, <1>10, <2>1, <2>2
<1>13. CASE text.gate # "OR"
  <2>1. N = m
    BY <1>13
  <2>2. TextAccepts(text, signers) <=> \A o \in Places(text) : PrincipalAt(text, o) \in signers
    BY <1>13, PlainAccepts
  <2> HIDE DEF N, S, m
  <2> QED BY <1>8, <1>9, <1>11, <2>1, <2>2
<1> QED BY <1>12, <1>13

\* A standard collection's text, when plain, leaves its organisations.
LEMMA PlainStandard ==
    ASSUME NEW text, IsText(text), Plain(text)
    PROVE  {p.msp : p \in Principals(text)} =
               {p.msp : p \in ToSet(FromStandard(text).member_orgs.identities)}
<1> DEFINE ids == Identities(text)
           made == FromStandard(text).member_orgs.identities
<1>1. FromString(text).identities = ids
  BY DEF FromString
<1>2. made = [i \in DOMAIN ids |-> [msp |-> ids[i].msp, role |-> "member"]]
  <2> HIDE DEF ids
  <2> QED BY <1>1 DEF FromStandard, BuildCollectionConfig
<1>3. ToSet(made) = {made[i] : i \in DOMAIN made}
  BY DEF ToSet
<1>4. ToSet(made) = {[msp |-> ids[i].msp, role |-> "member"] : i \in DOMAIN ids}
  <2> HIDE DEF ids, made
  <2> QED BY <1>2, <1>3
<1>5. /\ \A p \in Principals(text) : \E k \in DOMAIN ids : ids[k] = p
      /\ \A k \in DOMAIN ids : ids[k] \in Principals(text)
  BY PlainIdentities
<1> HIDE DEF ids, made
<1>6. {p.msp : p \in ToSet(made)} = {ids[i].msp : i \in DOMAIN ids}
  <2>1. ASSUME NEW i \in DOMAIN ids PROVE \E p \in ToSet(made) : p.msp = ids[i].msp
    <3>1. [msp |-> ids[i].msp, role |-> "member"] \in ToSet(made)
      BY <1>4
    <3> QED BY <3>1
  <2>2. ASSUME NEW p \in ToSet(made) PROVE \E i \in DOMAIN ids : p.msp = ids[i].msp
    <3>1. PICK i \in DOMAIN ids : p = [msp |-> ids[i].msp, role |-> "member"]
      BY <1>4
    <3> QED BY <3>1
  <2> QED BY <2>1, <2>2
<1>7. {p.msp : p \in Principals(text)} = {ids[i].msp : i \in DOMAIN ids}
  BY <1>5
<1> QED BY <1>6, <1>7 DEF made

\* The policy of a collection is satisfied by a member of each organisation that
\* it names, and by none without one.
LEMMA MembersAccepted ==
    ASSUME NEW c, c.identities \in Seq(ToSet(c.identities)), NEW endorsement, NEW signers
    PROVE  Accepts(BuildCollectionConfig(c, endorsement).member_orgs, signers) <=>
               \E org \in ToSet(c.identities) : [msp |-> org, role |-> "member"] \in signers
<1> DEFINE orgs == c.identities
           n == Len(orgs)
           envelope == BuildCollectionConfig(c, endorsement).member_orgs
           rules == [i \in 1..n |-> [signed_by |-> i - 1]]
           read == [i \in 1..n |-> [Type |-> "signed_by", signed_by |-> i - 1]]
           decoded == [i \in 1..n |-> [msp_identifier |-> orgs[i], Role |-> "member"]]
           S == {i \in 1..n : SatisfiesInner(signers, read[i], decoded)}
<1>1. n \in Nat /\ DOMAIN orgs = 1..n
  <2> HIDE DEF orgs
  <2> QED BY LenProperties DEF orgs
<1>2. \A org : org \in ToSet(orgs) <=> \E k \in 1..n : orgs[k] = org
  <2> HIDE DEF orgs, n
  <2> QED BY <1>1 DEF ToSet
<1> HIDE DEF n
<1>3. envelope = [rule |-> [n |-> 1, rules |-> rules],
                  identities |-> [i \in 1..n |-> [msp |-> orgs[i], role |-> "member"]]]
  <2> HIDE DEF orgs
  <2> QED BY <1>1 DEF BuildCollectionConfig, NOutOf, orgs
<1>4. \A i \in 1..n : DecodeInner(rules[i]) = read[i]
  BY DEF DecodeInner, DecodeRole
<1>5. DecodeSignaturePolicy([n |-> 1, rules |-> rules]) = [Type |-> "n_out_of", N |-> 1, rules |-> read]
  <2>1. DOMAIN rules = 1..n
    OBVIOUS
  <2>2. [i \in DOMAIN rules |-> DecodeInner(rules[i])] = read
    <3> HIDE DEF rules
    <3> QED BY <1>4, <2>1
  <2> HIDE DEF rules, read
  <2> QED BY <2>2 DEF DecodeSignaturePolicy, DecodeRole
<1>6. DecodeEnvelope(envelope) =
        [rule |-> [Type |-> "n_out_of", N |-> 1, rules |-> read], identities |-> decoded]
  <2> HIDE DEF rules, read, envelope, orgs
  <2> QED BY <1>3, <1>5 DEF DecodeEnvelope, DecodeMSPPrincipal
<1>7. Accepts(envelope, signers) <=> Cardinality(S) >= 1
  <2>1. {i \in DOMAIN read : SatisfiesInner(signers, read[i], decoded)} = S
    OBVIOUS
  <2> DEFINE gate == [Type |-> "n_out_of", N |-> 1, rules |-> read]
  <2>2. Satisfies(signers, gate, decoded) <=> Cardinality(S) >= 1
    <3>1. gate.Type # "signed_by" /\ gate.N = 1 /\ gate.rules = read
      <4> HIDE DEF read
      <4> QED OBVIOUS
    <3> HIDE DEF read, decoded, S, gate
    <3> QED BY <2>1, <3>1 DEF Satisfies
  <2> HIDE DEF gate, decoded, envelope, S
  <2>3. Accepts(envelope, signers) <=> Satisfies(signers, gate, decoded)
    BY <1>6 DEF Accepts, gate
  <2> QED BY <2>2, <2>3
<1>8. ASSUME NEW k \in 1..n
      PROVE  k \in S <=> [msp |-> orgs[k], role |-> "member"] \in signers
  <2>1. SatisfiesInner(signers, read[k], decoded) <=> SatisfiesRole(signers, read[k], decoded)
    BY DEF SatisfiesInner
  <2>2. read[k].signed_by + 1 = k
    BY <1>1
  <2>3. decoded[k].msp_identifier = orgs[k] /\ decoded[k].Role = "member"
    OBVIOUS
  <2>4. SatisfiesRole(signers, read[k], decoded) <=> [msp |-> orgs[k], role |-> "member"] \in signers
    <3> HIDE DEF read, decoded, orgs
    <3> QED BY <2>2, <2>3 DEF SatisfiesRole
  <2> HIDE DEF read, decoded, orgs
  <2> QED BY <2>1, <2>4
<1>9. Cardinality(S) >= 1 <=> S # {}
  <2>1. S \in SUBSET (1..n)
    OBVIOUS
  <2> HIDE DEF S
  <2> QED BY <1>1, <2>1, Counting
<1>10. S \subseteq 1..n
  OBVIOUS
<1> HIDE DEF S, envelope, orgs
<1>11. Accepts(envelope, signers) <=> \E k \in 1..n : [msp |-> orgs[k], role |-> "member"] \in signers
  BY <1>7, <1>8, <1>9, <1>10
<1>12. Accepts(envelope, signers) <=> \E org \in ToSet(orgs) : [msp |-> org, role |-> "member"] \in signers
  BY <1>2, <1>11
<1> QED BY <1>12 DEF envelope, orgs

\* What a proposal or a configuration may have kept: nothing, or a policy that
\* was assigned to it.
LeftBehind(x, what) ==
    x = Absent \/ \E p : p # Absent /\ <<what, p>> \in assigned /\ x = ApplicationPolicy(p)

\* The same of its encoded form.
LeftBehindOneOf(x, what) ==
    x = Absent \/ \E p : p # Absent /\ <<what, p>> \in assigned /\ x = OneOf(ApplicationPolicy(p))

PackageMade ==
    /\ package # Absent => package \in packages
    /\ package # Absent /\ package.from \in Standards => package.config = FromStandard(package.from)

\* What a collection is sent as, under a policy of its own or one left behind.
MadeOf(c, made) ==
    \E e : /\ made = BuildCollectionConfig(c, e)
           /\ IF c.endorsementPolicy = Absent THEN LeftBehind(e, "collection")
              ELSE e = ApplicationPolicy(c.endorsementPolicy)

\* A request has what its caller had set, translated, or what was left behind.
SentMade ==
    sent # Absent =>
        /\ sent.policy \in Written \cup {Absent}
        /\ sent.collection = Absent \/ IsCollection(sent.collection)
        /\ IF sent.policy = Absent THEN LeftBehindOneOf(sent.parameter, "chaincode")
           ELSE sent.parameter = OneOf(ApplicationPolicy(sent.policy))
        /\ IF sent.collection = Absent THEN sent.package \in {Absent} \cup packages
           ELSE MadeOf(sent.collection, sent.package.config)
        /\ sent.init_required = sent.init

\* The policy of a configured collection may be taken back.
CollectionOK ==
    collection # Absent =>
        IsCollection(collection) /\ IsCollection([collection EXCEPT !.endorsementPolicy = Absent])

PoliciesInv ==
    /\ policy \in Written \cup {Absent}
    /\ CollectionOK
    /\ LeftBehindOneOf(parameter, "chaincode")
    /\ LeftBehind(written, "collection")
    /\ PackageMade
    /\ SentMade

\* A plain text in a collections_config.json keeps every organisation it names.
PlainStandardKept ==
    package # Absent /\ package.from \in Standards /\ Plain(package.from) =>
        {p.msp : p \in Principals(package.from)} =
            {p.msp : p \in ToSet(package.config.member_orgs.identities)}

\* What was assigned stays assigned, and what was a package stays one.
LEMMA SentStays ==
    ASSUME SentMade, assigned \subseteq assigned', packages \subseteq packages', sent' = sent
    PROVE  SentMade'
<1>1. \A c, made : MadeOf(c, made) => MadeOf(c, made)'
  BY DEF MadeOf, LeftBehind
<1>2. \A x, what : LeftBehindOneOf(x, what) => LeftBehindOneOf(x, what)'
  BY DEF LeftBehindOneOf
<1> QED BY <1>1, <1>2 DEF SentMade

\* A request takes what is set, or what is left of an earlier assign.
LEMMA AssignKeeps ==
    ASSUME PoliciesInv, NEW required \in BOOLEAN, Assign(required)
    PROVE  PoliciesInv'
<1>1. /\ policy' = policy /\ collection' = collection
      /\ assigned \subseteq assigned' /\ <<"chaincode", policy>> \in assigned'
      /\ collection # Absent => <<"collection", collection.endorsementPolicy>> \in assigned'
  BY DEF Assign
<1>2. parameter' = IF policy = Absent THEN parameter ELSE OneOf(ApplicationPolicy(policy))
  BY DEF Assign, AssignPolicy
<1>3. initRequired' = required
  BY DEF Assign, AssignInit
<1>4. sent' = [policy |-> policy, collection |-> collection, init |-> required,
               parameter |-> parameter', package |-> package', init_required |-> initRequired']
  BY DEF Assign
<1>5. policy' \in Written \cup {Absent} /\ CollectionOK'
  BY <1>1 DEF PoliciesInv, CollectionOK
<1>6. LeftBehindOneOf(parameter, "chaincode")'
  <2>1. CASE policy = Absent
    BY <1>1, <1>2, <2>1 DEF PoliciesInv, LeftBehindOneOf
  <2>2. CASE policy # Absent
    BY <1>1, <1>2, <2>2 DEF LeftBehindOneOf
  <2> QED BY <2>1, <2>2
<1>7. /\ LeftBehind(written, "collection")' /\ PackageMade' /\ packages \subseteq packages'
      /\ package' # Absent => package' \in packages'
      /\ collection # Absent => MadeOf(collection, package.config)'
  <2>1. CASE collection = Absent
    <3>1. UNCHANGED <<written, package, packages>>
      BY <2>1 DEF Assign, AssignCollection
    <3> QED BY <1>1, <2>1, <3>1 DEF PoliciesInv, LeftBehind, PackageMade
  <2>2. CASE collection # Absent
    <3>1. /\ written' = IF collection.endorsementPolicy = Absent THEN written
                        ELSE ApplicationPolicy(collection.endorsementPolicy)
          /\ package' = [from |-> Absent, config |-> BuildCollectionConfig(collection, written')]
          /\ packages' = packages \cup {package'}
      BY <2>2 DEF Assign, AssignCollection
    <3>2. package'.from \notin Standards /\ package'.config = BuildCollectionConfig(collection, written')
      BY <3>1, PoliciesAssumption
    <3>3. LeftBehind(written, "collection")'
      BY <1>1, <2>2, <3>1 DEF PoliciesInv, LeftBehind
    <3>4. MadeOf(collection, package.config)'
      BY <1>1, <3>1, <3>2, <3>3 DEF MadeOf
    <3>5. PackageMade' /\ packages \subseteq packages' /\ package' \in packages'
      BY <3>1, <3>2 DEF PackageMade
    <3> QED BY <3>3, <3>4, <3>5
  <2> QED BY <2>1, <2>2
<1>8. SentMade'
  <2>1. /\ sent'.policy = policy /\ sent'.collection = collection
        /\ sent'.parameter = parameter' /\ sent'.package = package'
        /\ sent'.init_required = required /\ sent'.init = required
    BY <1>3, <1>4
  <2>2. IF policy = Absent THEN LeftBehindOneOf(parameter, "chaincode")'
        ELSE parameter' = OneOf(ApplicationPolicy(policy))
    BY <1>2, <1>6
  <2>3. IF collection = Absent THEN package' \in {Absent} \cup packages'
        ELSE MadeOf(collection, package.config)'
    BY <1>7
  <2>4. policy \in Written \cup {Absent} /\ (collection = Absent \/ IsCollection(collection))
    BY DEF PoliciesInv, CollectionOK
  <2> QED BY <1>1, <2>1, <2>2, <2>3, <2>4 DEF SentMade
<1> QED BY <1>5, <1>6, <1>7, <1>8 DEF PoliciesInv

\* What an assign that throws leaves behind is of a policy it took.
LEMMA AssignThrowsKeeps ==
    ASSUME PoliciesInv, AssignThrows
    PROVE  PoliciesInv'
<1>1. UNCHANGED <<policy, collection, written, package, packages, sent>> /\ assigned \subseteq assigned'
  BY DEF AssignThrows
<1>2. LeftBehindOneOf(parameter, "chaincode")'
  <2>1. CASE parameter' = parameter
    BY <1>1, <2>1 DEF PoliciesInv, LeftBehindOneOf
  <2>2. CASE parameter' # parameter
    BY <2>2 DEF AssignThrows, AssignPolicy, LeftBehindOneOf
  <2> QED BY <2>1, <2>2
<1>3. CollectionOK' /\ PackageMade' /\ LeftBehind(written, "collection")'
  BY <1>1 DEF PoliciesInv, CollectionOK, PackageMade, LeftBehind
<1>4. SentMade'
  BY <1>1, SentStays DEF PoliciesInv
<1> QED BY <1>1, <1>2, <1>3, <1>4 DEF PoliciesInv

\* Every step keeps what the proposal and the last request are made of.
LEMMA PoliciesInductive == PoliciesSpec => []PoliciesInv
<1>1. PoliciesInit => PoliciesInv
  BY DEF PoliciesInit, PoliciesInv, PackageMade, SentMade, LeftBehind, LeftBehindOneOf, CollectionOK
<1>2. PoliciesInv /\ [PoliciesNext]_policyVars => PoliciesInv'
  <2> SUFFICES ASSUME PoliciesInv, [PoliciesNext]_policyVars PROVE PoliciesInv'
    OBVIOUS
  <2>1. ASSUME UNCHANGED <<proposal, sent, history, written>>, policy' \in Written \cup {Absent}, CollectionOK'
        PROVE  PoliciesInv'
    <3>1. SentMade'
      BY <2>1, SentStays DEF PoliciesInv, history
    <3> QED BY <2>1, <3>1 DEF history, proposal, PoliciesInv, PackageMade, LeftBehind, LeftBehindOneOf
  <2>2. ASSUME NEW p \in Written \cup {Absent}, SetEndorsementPolicy(p) PROVE PoliciesInv'
    BY <2>1, <2>2 DEF SetEndorsementPolicy, Setting, PoliciesInv, CollectionOK
  <2>3. ASSUME NEW c \in Collections \cup {Absent}, SetCollectionsConfig(c) PROVE PoliciesInv'
    <3>1. UNCHANGED <<proposal, sent, history, policy>> /\ written' = Absent /\ collection' = c
      BY <2>3 DEF SetCollectionsConfig, Setting
    <3>2. CollectionOK'
      BY <3>1, PoliciesAssumption DEF CollectionOK
    <3>3. SentMade'
      BY <3>1, SentStays DEF PoliciesInv, history
    <3> QED BY <3>1, <3>2, <3>3 DEF history, proposal, PoliciesInv, PackageMade, LeftBehind, LeftBehindOneOf
  <2>4. CASE TakeBackCollectionPolicy
    <3>1. /\ UNCHANGED <<proposal, sent, history, written, policy>>
          /\ collection # Absent /\ collection' = [collection EXCEPT !.endorsementPolicy = Absent]
      BY <2>4 DEF TakeBackCollectionPolicy, Setting
    <3>2. IsCollection(collection')
      BY <3>1 DEF PoliciesInv, CollectionOK
    <3>3. [collection' EXCEPT !.endorsementPolicy = Absent] = collection'
      BY <3>1
    <3>4. CollectionOK'
      BY <3>2, <3>3 DEF CollectionOK
    <3> QED BY <2>1, <3>1, <3>4 DEF PoliciesInv
  <2>5. ASSUME NEW text \in Standards, UseStandard(text) PROVE PoliciesInv'
    <3>1. /\ UNCHANGED <<policy, collection, written, parameter, sent, assigned>>
          /\ package' = [from |-> text, config |-> FromStandard(text)]
          /\ packages' = packages \cup {package'}
      BY <2>5 DEF UseStandard
    <3>2. package'.from = text /\ package'.config = FromStandard(text)
      BY <3>1
    <3>3. PackageMade'
      BY <3>1, <3>2 DEF PackageMade
    <3>4. SentMade'
      BY <3>1, SentStays DEF PoliciesInv
    <3> QED BY <3>1, <3>3, <3>4 DEF PoliciesInv, CollectionOK, LeftBehind, LeftBehindOneOf
  <2>6. ASSUME NEW required \in BOOLEAN, Assign(required) PROVE PoliciesInv'
    BY <2>6, AssignKeeps
  <2>7. CASE AssignThrows
    BY <2>7, AssignThrowsKeeps
  <2>8. CASE UNCHANGED policyVars
    BY <2>1, <2>8 DEF policyVars, PoliciesInv, CollectionOK
  <2> QED BY <2>2, <2>3, <2>4, <2>5, <2>6, <2>7, <2>8 DEF PoliciesNext
<1> QED BY <1>1, <1>2, PTL DEF PoliciesSpec

\* A reference goes alone, and a plain text means what it says.
LEMMA PolicyEnforced ==
    ASSUME NEW p, IsPolicy(p)
    PROVE  Enforces(p, OneOf(ApplicationPolicy(p)))
<1> DEFINE made == OneOf(ApplicationPolicy(p))
<1>1. made = [signature_policy |-> IF p.reference # Absent THEN Absent
                                   ELSE ApplicationPolicy(p).signature_policy,
              reference |-> p.reference]
  BY DEF ApplicationPolicy, OneOf
<1>2. ASSUME p.reference = Absent, p.json = Absent, p.gate # Absent, Plain(p.gate)
      PROVE  Means(p.gate, made.signature_policy)
  <2>1. made.signature_policy = FromString(p.gate)
    BY <1>1, <1>2 DEF ApplicationPolicy
  <2>2. IsText(p.gate)
    BY <1>2 DEF IsPolicy
  <2> HIDE DEF made
  <2> QED BY <1>2, <2>1, <2>2, PlainMeans
<1>3. p.reference # Absent => made = [signature_policy |-> Absent, reference |-> p.reference]
  BY <1>1
<1> QED BY <1>2, <1>3 DEF Enforces

LEMMA LeftBehindAssigned ==
    ASSUME NEW x, NEW what, LeftBehindOneOf(x, what)
    PROVE  x \in {Absent} \cup AssignedTo(what)
<1> SUFFICES ASSUME NEW p, p # Absent, <<what, p>> \in assigned, x = OneOf(ApplicationPolicy(p))
             PROVE  x \in AssignedTo(what)
  BY DEF LeftBehindOneOf
<1>1. <<what, p>> \in {b \in assigned : b[1] = what /\ b[2] # Absent}
  OBVIOUS
<1> QED BY <1>1 DEF AssignedTo

\* From the shape of a request to what its policy means.
LEMMA PolicyOfRequest ==
    ASSUME PoliciesInv PROVE PolicyKept
<1> SUFFICES ASSUME sent # Absent
             PROVE  IF sent.policy = Absent THEN sent.parameter \in {Absent} \cup AssignedTo("chaincode")
                    ELSE Enforces(sent.policy, sent.parameter)
  BY DEF PolicyKept
<1>1. CASE sent.policy = Absent
  BY <1>1, LeftBehindAssigned DEF PoliciesInv, SentMade
<1>2. CASE sent.policy # Absent
  <2>1. IsPolicy(sent.policy) /\ sent.parameter = OneOf(ApplicationPolicy(sent.policy))
    BY <1>2, PoliciesAssumption DEF PoliciesInv, SentMade
  <2> QED BY <1>2, <2>1, PolicyEnforced
<1> QED BY <1>1, <1>2

\* What is made of a collection says what the collection says.
LEMMA CollectionMade ==
    ASSUME NEW c, IsCollection(c), NEW made, MadeOf(c, made)
    PROVE  CollectionSays(c, made)
<1>1. PICK e : /\ made = BuildCollectionConfig(c, e)
               /\ IF c.endorsementPolicy = Absent THEN LeftBehind(e, "collection")
                  ELSE e = ApplicationPolicy(c.endorsementPolicy)
  BY DEF MadeOf
<1>2. /\ c.required \in Nat /\ c.identities \in Seq(ToSet(c.identities))
      /\ c.memberOnlyRead \in BOOLEAN \cup {Absent} /\ c.memberOnlyWrite \in BOOLEAN \cup {Absent}
      /\ Absent \notin BOOLEAN
      /\ c.endorsementPolicy # Absent => IsPolicy(c.endorsementPolicy)
  BY PoliciesAssumption DEF IsCollection
<1>3. ASSUME NEW signers
      PROVE  Accepts(made.member_orgs, signers) <=>
                 \E o \in ToSet(c.identities) : [msp |-> o, role |-> "member"] \in signers
  BY <1>1, <1>2, MembersAccepted
<1>4. /\ made.member_only_read = Given(c.memberOnlyRead, TRUE)
      /\ made.member_only_write = Given(c.memberOnlyWrite, TRUE)
      /\ made.maximum = IF c.maximum \in {Absent, 0} THEN c.required ELSE c.maximum
      /\ made.required = c.required
      /\ made.endorsement_policy = IF e = Absent THEN Absent ELSE OneOf(e)
  BY <1>1 DEF BuildCollectionConfig
<1>5. /\ made.member_only_read = (c.memberOnlyRead # FALSE)
      /\ made.member_only_write = (c.memberOnlyWrite # FALSE)
  BY <1>2, <1>4 DEF Given
<1>6. c.maximum = Absent \/ c.maximum >= c.required => made.maximum >= made.required
  BY <1>2, <1>4
<1>7. ASSUME c.endorsementPolicy = Absent
      PROVE  made.endorsement_policy \in {Absent} \cup AssignedTo("collection")
  <2>1. LeftBehindOneOf(made.endorsement_policy, "collection")
    BY <1>1, <1>4, <1>7 DEF LeftBehind, LeftBehindOneOf
  <2> QED BY <2>1, LeftBehindAssigned
<1>8. ASSUME c.endorsementPolicy # Absent
      PROVE  Enforces(c.endorsementPolicy, made.endorsement_policy)
  <2>1. IsPolicy(c.endorsementPolicy) /\ e = ApplicationPolicy(c.endorsementPolicy) /\ e # Absent
    BY <1>1, <1>2, <1>8 DEF IsPolicy
  <2>2. made.endorsement_policy = OneOf(ApplicationPolicy(c.endorsementPolicy))
    BY <1>4, <2>1
  <2> QED BY <2>1, <2>2, PolicyEnforced
<1> QED BY <1>3, <1>5, <1>6, <1>7, <1>8 DEF CollectionSays

\* From the shape of a request to what its collection says.
LEMMA CollectionOfRequest ==
    ASSUME PoliciesInv PROVE CollectionKept
BY CollectionMade DEF PoliciesInv, SentMade, CollectionKept

\* A request carries a policy that is satisfied by exactly the signers its
\* caller's gate text accepts, or the reference its caller gave, whatever was set,
\* assigned, thrown or sent before on the operation (assign,
\* nodejs/chaincodeOperation.js:86-104); without one it has none, or one that was
\* assigned before.
THEOREM PoliciesKept == PoliciesSpec => []PolicyKept
<1>1. PoliciesInv => PolicyKept
  BY PolicyOfRequest
<1> QED BY <1>1, PoliciesInductive, PTL

\* A request carries the collection its caller set, open to the organisations it
\* names and to no others, for members alone to read and to write but where the
\* caller said otherwise, under the endorsement policy written for it
\* (buildCollectionConfig, nodejs/formatter/SideDB.js:17-83), with the flag of this
\* very call; without one it has none, or a package that was assigned before.
THEOREM CollectionsKept == PoliciesSpec => []CollectionKept
<1>1. PoliciesInv => CollectionKept
  BY CollectionOfRequest
<1> QED BY <1>1, PoliciesInductive, PTL

\* FromStandard (nodejs/formatter/SideDB.js:109-126) keeps the organisations
\* of every text that is plain, without a blank among others.
THEOREM PlainStandardsKept == PoliciesSpec => []PlainStandardKept
<1>1. PoliciesInv => PlainStandardKept
  <2> SUFFICES ASSUME PoliciesInv, package # Absent, package.from \in Standards, Plain(package.from)
               PROVE  {p.msp : p \in Principals(package.from)} =
                          {p.msp : p \in ToSet(package.config.member_orgs.identities)}
    BY DEF PlainStandardKept
  <2>1. IsText(package.from)
    BY PoliciesAssumption
  <2>2. package.config = FromStandard(package.from)
    BY DEF PoliciesInv, PackageMade
  <2> QED BY <2>1, <2>2, PlainStandard
<1> QED BY <1>1, PoliciesInductive, PTL

\* GatePolicy.FromString numbers the principals of any text, plain or not, once
\* each (nodejs/formatter/gatePolicy.js:48-61): no two indices are the same
\* principal, and the index a rule has for one is its own and in range.
THEOREM IndicesAreTheirPrincipals ==
    ASSUME NEW text, IsText(text)
    PROVE  LET ids == FromString(text).identities IN
           /\ \A k, l \in DOMAIN ids : ids[k] = ids[l] => k = l
           /\ \A o \in Matched(text) : IsNamed(text, o) =>
                  LET index == SignedBy(ids, PrincipalAt(text, o)).signed_by IN
                  index + 1 \in DOMAIN ids /\ ids[index + 1] = PrincipalAt(text, o)
<1> DEFINE ids == Identities(text)
<1>1. FromString(text).identities = ids
  BY DEF FromString
<1>2. \A k, l \in DOMAIN ids : ids[k] = ids[l] => k = l
  BY IdentitiesOf
<1>3. ASSUME NEW o \in Matched(text), IsNamed(text, o)
      PROVE  LET index == SignedBy(ids, PrincipalAt(text, o)).signed_by IN
             index + 1 \in DOMAIN ids /\ ids[index + 1] = PrincipalAt(text, o)
  <2> DEFINE p == PrincipalAt(text, o)
             k == CHOOSE i \in DOMAIN ids : ids[i] = p
  <2>1. \E i \in DOMAIN ids : ids[i] = p
    BY <1>3, IdentitiesOf DEF NamedPlaces
  <2>2. PICK n \in Nat : DOMAIN ids = 1..n
    BY IdentitiesOf
  <2> HIDE DEF ids, p
  <2>3. k \in DOMAIN ids /\ ids[k] = p
    BY <2>1
  <2>4. SignedBy(ids, p).signed_by = k - 1
    BY DEF SignedBy
  <2> HIDE DEF k
  <2>5. SignedBy(ids, p).signed_by + 1 = k
    BY <2>2, <2>3, <2>4
  <2> QED BY <2>3, <2>5 DEF p
<1> HIDE DEF ids
<1> QED BY <1>1, <1>2, <1>3

\* After a comma with a blank nothing is seen (nodejs/formatter/gatePolicy.js:77,
\* 82): of such a text at most the first principal has an identity, whatever
\* else it names. This is how CollectionAsWritten fails.
THEOREM BlankKeepsFirst ==
    ASSUME NEW text, IsText(text), text.spaced
    PROVE  LET ids == FromString(text).identities IN
           \A k \in DOMAIN ids : k = 1 /\ ids[k] = PrincipalAt(text, <<1, 1>>)
<1> DEFINE ids == Identities(text)
<1>1. FromString(text).identities = ids
  BY DEF FromString
<1>2. ASSUME NEW k \in DOMAIN ids PROVE ids[k] = PrincipalAt(text, <<1, 1>>)
  <2>1. PICK o \in NamedPlaces(text) : ids[k] = PrincipalAt(text, o)
    BY IdentitiesOf
  <2>2. o = <<1, 1>>
    BY DEF NamedPlaces, Matched
  <2> QED BY <2>1, <2>2
<1>3. PICK n \in Nat : DOMAIN ids = 1..n
  BY IdentitiesOf
<1>4. \A k, l \in DOMAIN ids : ids[k] = ids[l] => k = l
  BY IdentitiesOf
<1> HIDE DEF ids
<1>5. ASSUME NEW k \in DOMAIN ids PROVE k = 1
  <2>1. 1 \in DOMAIN ids
    BY <1>3
  <2>2. ids[1] = ids[k]
    BY <1>2, <2>1
  <2> QED BY <1>4, <2>1, <2>2
<1> QED BY <1>1, <1>2, <1>5

=============================================================================

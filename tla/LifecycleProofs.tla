--------------------------- MODULE LifecycleProofs ---------------------------
(***************************************************************************)
(* Proofs about Lifecycle, for any operations, organisations, peers,       *)
(* policies and bounds.                                                    *)
(***************************************************************************)
EXTENDS Lifecycle, SequenceTheorems, FiniteSetTheorems, TLAPS

\* The responses a result handler may have been told to let pass.
Passing == {AlreadyInstalled, NoDefinition} \cup {NoChange(s) : s \in Nat}

Places == {"idle", "proposed", "broadcast", "waiting"}
Answers == {"none", "error", "installed", "read", "undefined", "unchanged", "done", "invalid"}
Replies == {Success, NoRaftLeader, Rejected, Pending}

\* Every variable but those of the ordering is of its kind.
Typed ==
    /\ policy \in [Ops -> Contents] /\ parameter \in [Ops -> Contents]
    /\ handler \in [Ops -> SUBSET Passing]
    /\ asserting \in [Ops -> BOOLEAN]
    /\ call \in [Ops -> Calls]
    /\ pc \in [Ops -> Places]
    /\ answer \in [Ops -> Answers]
    /\ reply \in [Ops -> Replies]
    /\ DOMAIN envelope = Ops
    /\ installed \subseteq Peers

\* An entry of the ledger, or an envelope: what it says of the call it is of.
OfItsCall(e) ==
    /\ e.op \in Ops /\ e.id \in Nat /\ e.kind \in {"approve", "commit"}
    /\ e.sequence \in Nat /\ e.content \in Contents
    /\ e.id <= call[e.op].id
    /\ e.id = call[e.op].id => /\ e.kind = call[e.op].kind
                               /\ e.sequence = call[e.op].sequence
                               /\ e.content = call[e.op].content

\* After the first h transactions the content can be committed for the
\* sequence.
CommittableAt(h, sequence, content) ==
    /\ sequence = SequenceAt(h) + 1
    /\ \A org \in Orgs : content \in ApprovalAt(h, org, sequence)

\* An envelope carries what its endorsers read: no later state than the
\* ledger, and for a commit one in which they let it pass.
Endorsements(e) ==
    /\ DOMAIN e.reads # {}
    /\ \A p \in DOMAIN e.reads : e.reads[p] \in 0..Len(ledger)
    /\ e.kind = "commit" =>
          /\ DOMAIN e.reads = EndorsersOf[e.op]
          /\ \A p \in DOMAIN e.reads : CommittableAt(e.reads[p], e.sequence, e.content)

\* The envelopes of the calls that are committing, and those on their way.
Committing == {o \in Ops : pc[o] \in {"broadcast", "waiting"}}
Sent == broadcast \cup accepted \cup {envelope[o] : o \in Committing}

EnvelopesOK == \A e \in Sent : OfItsCall(e) /\ Endorsements(e)

OwnEnvelope ==
    \A o \in Committing : envelope[o].op = o /\ envelope[o].id = call[o].id

Entry == [op : Ops, id : Nat, kind : {"approve", "commit"}, valid : BOOLEAN,
          sequence : Nat, content : Contents]

\* A commit in the ledger defined its sequence, and all had approved of it.
Defined(i) ==
    ledger[i].kind = "commit" /\ ledger[i].valid =>
        /\ SequenceAt(i) = ledger[i].sequence
        /\ \A org \in Orgs : ledger[i].content \in ApprovalAt(i, org, ledger[i].sequence)

LedgerOK ==
    /\ ledger \in Seq(Entry)
    /\ \A i \in 1..Len(ledger) : OfItsCall(ledger[i]) /\ Defined(i)

SeenOK ==
    /\ seen \in [Peers -> Nat]
    /\ \A p \in Peers : seen[p] <= Len(ledger)

\* What an operation was told is so: an approval is recorded, a definition was
\* approved by all, a package is installed.
AnswerReal(o) ==
    /\ call[o].kind = "approve" /\ answer[o] \in {"done", "unchanged"} =>
           Recorded(o, "approve", call[o].sequence, call[o].content)
    /\ call[o].kind = "commit" /\ answer[o] = "done" =>
           \E i \in 1..Len(ledger) :
               /\ ledger[i].op = o /\ ledger[i].id = call[o].id /\ ledger[i].valid
               /\ SequenceAt(i) = call[o].sequence
               /\ \A org \in Orgs : call[o].content \in ApprovalAt(i, org, call[o].sequence)
    /\ answer[o] = "installed" => EndorsersOf[o] \subseteq installed

AnswersReal == \A o \in Ops : AnswerReal(o)

Inv == Typed /\ EnvelopesOK /\ OwnEnvelope /\ LedgerOK /\ SeenOK /\ AnswersReal
-----------------------------------------------------------------------------
\* The ledger grows at its end, and calls follow each other.
Grows ==
    /\ Len(ledger) <= Len(ledger')
    /\ \A i \in 1..Len(ledger) : ledger'[i] = ledger[i]

Later == \A o \in Ops : call'[o] = call[o] \/ call'[o].id > call[o].id

LEMMA LengthNat == LedgerOK => Len(ledger) \in Nat
BY LenProperties DEF LedgerOK

\* What was the world state after some transactions, stays it.
LEMMA WorldKept ==
    ASSUME LedgerOK, Grows, NEW h \in 0..Len(ledger)
    PROVE  /\ SequenceAt(h)' = SequenceAt(h)
           /\ \A org \in Orgs, s \in Nat : ApprovalAt(h, org, s)' = ApprovalAt(h, org, s)
<1>1. \A i \in 1..h : i \in 1..Len(ledger) /\ ledger'[i] = ledger[i]
  BY LengthNat DEF Grows
<1>2. CommitsAt(h)' = CommitsAt(h)
  BY <1>1 DEF CommitsAt
<1>3. ASSUME NEW org \in Orgs, NEW s \in Nat
      PROVE  ApprovalAt(h, org, s)' = ApprovalAt(h, org, s)
  <2> DEFINE A == {i \in 1..h : /\ ledger[i].kind = "approve" /\ ledger[i].valid
                                /\ OrgOf[ledger[i].op] = org /\ ledger[i].sequence = s}
             B == {i \in 1..h : /\ ledger'[i].kind = "approve" /\ ledger'[i].valid
                                /\ OrgOf[ledger'[i].op] = org /\ ledger'[i].sequence = s}
             L == {j \in A : \A k \in A : k <= j}
  <2>1. A = B
    BY <1>1
  <2>2. ApprovalAt(h, org, s) = {ledger[i].content : i \in L}
    BY DEF ApprovalAt
  <2>3. ApprovalAt(h, org, s)' = {ledger'[i].content : i \in {j \in B : \A k \in B : k <= j}}
    BY DEF ApprovalAt
  <2>4. \A i \in L : ledger'[i] = ledger[i]
    BY <1>1
  <2> HIDE DEF A, B
  <2>5. {ledger'[i].content : i \in L} = {ledger[i].content : i \in L}
    BY <2>4
  <2>6. QED BY <2>1, <2>2, <2>3, <2>5
<1>4. QED BY <1>2, <1>3 DEF SequenceAt

LEMMA CommittableKept ==
    ASSUME LedgerOK, Grows, NEW h \in 0..Len(ledger), NEW s \in Nat, NEW c, CommittableAt(h, s, c)
    PROVE  CommittableAt(h, s, c)'
BY WorldKept DEF CommittableAt

LEMMA OfItsCallKept ==
    ASSUME Typed, Typed', Later, NEW e, OfItsCall(e)
    PROVE  OfItsCall(e)'
<1>1. e.op \in Ops /\ e.id \in Nat /\ call[e.op].id \in Nat /\ call'[e.op].id \in Nat
  BY DEF OfItsCall, Typed, Calls
<1>2. CASE call'[e.op] = call[e.op]
  BY <1>2 DEF OfItsCall
<1>3. CASE call'[e.op].id > call[e.op].id
  BY <1>1, <1>3 DEF OfItsCall
<1>4. QED BY <1>1, <1>2, <1>3 DEF Later

LEMMA EndorsementsKept ==
    ASSUME LedgerOK, LedgerOK', Grows, NEW e, e.sequence \in Nat, Endorsements(e)
    PROVE  Endorsements(e)'
<1>1. Len(ledger) \in Nat /\ Len(ledger') \in Nat /\ Len(ledger) <= Len(ledger')
  BY LengthNat, LenProperties DEF Grows, LedgerOK
<1>2. \A p \in DOMAIN e.reads : e.reads[p] \in 0..Len(ledger')
  BY <1>1 DEF Endorsements
<1>3. e.kind = "commit" =>
          /\ DOMAIN e.reads = EndorsersOf[e.op]
          /\ \A p \in DOMAIN e.reads : CommittableAt(e.reads[p], e.sequence, e.content)'
  BY CommittableKept DEF Endorsements
<1>4. QED BY <1>2, <1>3 DEF Endorsements

LEMMA EnvelopesKept ==
    ASSUME Inv, Typed', LedgerOK', Later, Grows, Sent' \subseteq Sent
    PROVE  EnvelopesOK'
<1> SUFFICES ASSUME NEW e \in Sent' PROVE OfItsCall(e)' /\ Endorsements(e)'
  BY DEF EnvelopesOK
<1>1. OfItsCall(e) /\ Endorsements(e) /\ e.sequence \in Nat
  BY DEF Inv, EnvelopesOK, OfItsCall
<1>2. QED BY <1>1, OfItsCallKept, EndorsementsKept DEF Inv

LEMMA LedgerKept ==
    ASSUME Inv, Typed', Later, UNCHANGED ledger
    PROVE  LedgerOK' /\ Grows
<1>1. Len(ledger) \in Nat /\ Grows
  BY LengthNat DEF Inv, Grows
<1>2. ASSUME NEW i \in 1..Len(ledger)
      PROVE  OfItsCall(ledger[i])' /\ Defined(i)'
  <2>1. OfItsCall(ledger[i]) /\ Defined(i)
    BY DEF Inv, LedgerOK
  <2>2. PICK e : e = ledger[i]
    OBVIOUS
  <2>3. OfItsCall(e)'
    BY <2>1, <2>2, OfItsCallKept DEF Inv
  <2>4. ledger'[i] = e
    BY <2>2
  <2>5. Defined(i)'
    BY <2>1 DEF Defined, SequenceAt, CommitsAt, ApprovalAt
  <2>6. OfItsCall(ledger[i])'
    BY <2>3, <2>4 DEF OfItsCall
  <2>7. QED BY <2>5, <2>6
<1>3. QED BY <1>1, <1>2 DEF LedgerOK, Inv

LEMMA AnswerKept ==
    ASSUME Inv, Grows, LedgerOK', NEW o \in Ops, AnswerReal(o),
           \/ answer'[o] \notin {"done", "unchanged", "installed"}
           \/ answer'[o] = answer[o] /\ call'[o] = call[o],
           installed \subseteq installed'
    PROVE  AnswerReal(o)'
<1>1. CASE answer'[o] \notin {"done", "unchanged", "installed"}
  BY <1>1 DEF AnswerReal
<1>2. CASE answer'[o] = answer[o] /\ call'[o] = call[o]
  <2>1. Len(ledger) \in Nat /\ Len(ledger') \in Nat
    BY LengthNat, LenProperties DEF Inv, LedgerOK
  <2>2. \A i \in 1..Len(ledger) : i \in 1..Len(ledger') /\ i \in 0..Len(ledger) /\ ledger'[i] = ledger[i]
    BY <2>1 DEF Grows
  <2>3. call[o].sequence \in Nat
    BY DEF Inv, Typed, Calls
  <2>4. call[o].kind = "approve" /\ answer[o] \in {"done", "unchanged"} =>
            Recorded(o, "approve", call[o].sequence, call[o].content)'
    BY <1>2, <2>2 DEF AnswerReal, Recorded
  <2>5. ASSUME call[o].kind = "commit", answer[o] = "done"
        PROVE  \E i \in 1..Len(ledger') :
               /\ ledger'[i].op = o /\ ledger'[i].id = call[o].id /\ ledger'[i].valid
               /\ SequenceAt(i)' = call[o].sequence
               /\ \A org \in Orgs : call[o].content \in ApprovalAt(i, org, call[o].sequence)'
    <3>1. PICK i \in 1..Len(ledger) :
              /\ ledger[i].op = o /\ ledger[i].id = call[o].id /\ ledger[i].valid
              /\ SequenceAt(i) = call[o].sequence
              /\ \A org \in Orgs : call[o].content \in ApprovalAt(i, org, call[o].sequence)
      BY <2>5 DEF AnswerReal
    <3>2. /\ SequenceAt(i)' = SequenceAt(i)
          /\ \A org \in Orgs, s \in Nat : ApprovalAt(i, org, s)' = ApprovalAt(i, org, s)
      BY <2>2, WorldKept DEF Inv
    <3>3. \A org \in Orgs : call[o].content \in ApprovalAt(i, org, call[o].sequence)'
      <4>1. call'[o].sequence = call[o].sequence
        BY <1>2
      <4>2. QED BY <2>3, <3>1, <3>2, <4>1
    <3>4. QED BY <2>2, <3>1, <3>2, <3>3
  <2>6. QED BY <1>2, <2>4, <2>5 DEF AnswerReal
<1>3. QED BY <1>1, <1>2

\* A step that puts nothing new on its way or into the ledger.
LEMMA Undisturbed ==
    ASSUME Inv, Typed', SeenOK', Later, UNCHANGED ledger,
           broadcast' \cup accepted' \subseteq Sent,
           \A o \in Committing' :
               o \in Committing /\ envelope'[o] = envelope[o] /\ call'[o] = call[o],
           AnswersReal'
    PROVE  Inv'
<1>1. LedgerOK' /\ Grows
  BY LedgerKept
<1>2. Sent' \subseteq Sent
  BY DEF Sent
<1>3. EnvelopesOK'
  BY <1>1, <1>2, EnvelopesKept
<1>4. OwnEnvelope'
  BY DEF Inv, OwnEnvelope
<1>5. QED BY <1>1, <1>3, <1>4 DEF Inv

\* A call of an operation returns with an answer, and what that answer says is so.
Returning(o, a) ==
    /\ a \in Answers /\ Return(o, a)
    /\ handler' \in [Ops -> SUBSET Passing]
    /\ installed \subseteq installed' /\ installed' \subseteq Peers
    /\ UNCHANGED <<policy, parameter, asserting, call, ordering, ledger, seen>>

AnswerBacked(o, a) ==
    /\ a = "installed" => EndorsersOf[o] \subseteq installed'
    /\ a = "done" => \E i \in 1..Len(ledger) :
                        ledger[i].op = o /\ ledger[i].id = call[o].id /\ ledger[i].valid
    /\ a = "unchanged" => /\ call[o].kind = "approve"
                          /\ \E h \in 0..Len(ledger) :
                                call[o].content \in ApprovalAt(h, OrgOf[o], call[o].sequence)

\* An approval in force after some transactions is one of them.
LEMMA ApprovalRecorded ==
    ASSUME LedgerOK, NEW o \in Ops, NEW h \in 0..Len(ledger), NEW s, NEW c,
           c \in ApprovalAt(h, OrgOf[o], s)
    PROVE  Recorded(o, "approve", s, c)
<1>1. PICK i \in 1..h : /\ ledger[i].kind = "approve" /\ ledger[i].valid
                        /\ OrgOf[ledger[i].op] = OrgOf[o]
                        /\ ledger[i].sequence = s /\ ledger[i].content = c
  BY DEF ApprovalAt
<1>2. i \in 1..Len(ledger)
  BY LengthNat
<1>3. QED BY <1>1, <1>2 DEF Recorded

\* The entry that tells a call it is done is about what the call asked for.
LEMMA DoneIsReal ==
    ASSUME Inv, NEW o \in Ops, NEW i \in 1..Len(ledger),
           ledger[i].op = o, ledger[i].id = call[o].id, ledger[i].valid
    PROVE  /\ call[o].kind = "approve" =>
                  Recorded(o, "approve", call[o].sequence, call[o].content)
           /\ call[o].kind = "commit" =>
                  /\ SequenceAt(i) = call[o].sequence
                  /\ \A org \in Orgs : call[o].content \in ApprovalAt(i, org, call[o].sequence)
<1>1. OfItsCall(ledger[i]) /\ Defined(i)
  BY DEF Inv, LedgerOK
<1>2. /\ ledger[i].kind = call[o].kind
      /\ ledger[i].sequence = call[o].sequence /\ ledger[i].content = call[o].content
  BY <1>1 DEF OfItsCall
<1>3. call[o].kind = "commit" =>
                  /\ SequenceAt(i) = call[o].sequence
                  /\ \A org \in Orgs : call[o].content \in ApprovalAt(i, org, call[o].sequence)
  BY <1>1, <1>2 DEF Defined
<1>4. call[o].kind = "approve" => Recorded(o, "approve", call[o].sequence, call[o].content)
  BY <1>2 DEF Recorded
<1>5. QED BY <1>3, <1>4

LEMMA ReturnInv ==
    ASSUME Inv, NEW o \in Ops, NEW a, Returning(o, a), AnswerBacked(o, a)
    PROVE  Inv'
<1>1. Typed'
  BY DEF Inv, Typed, Returning, Return, ordering, Places
<1>2. SeenOK' /\ Later /\ Grows /\ LedgerOK'
  BY <1>1, LedgerKept DEF Inv, SeenOK, Returning, Later
<1>3. broadcast' \cup accepted' \subseteq Sent
  BY DEF Sent, Returning, ordering
<1>4. \A x \in Committing' :
               x \in Committing /\ envelope'[x] = envelope[x] /\ call'[x] = call[x]
  BY DEF Inv, Typed, Committing, Returning, Return, ordering
<1>5. ASSUME NEW x \in Ops \ {o}
      PROVE  AnswerReal(x)'
  <2>1. answer'[x] = answer[x] /\ call'[x] = call[x] /\ installed \subseteq installed'
    BY DEF Inv, Typed, Returning, Return
  <2>2. QED BY <1>2, <2>1, AnswerKept DEF Inv, AnswersReal
<1>6. AnswerReal(o)'
  <2>1. answer'[o] = a /\ call' = call /\ ledger' = ledger
    BY DEF Inv, Typed, Returning, Return
  <2>2. a = "installed" => EndorsersOf[o] \subseteq installed'
    BY DEF AnswerBacked
  <2>3. a \in {"done", "unchanged"} /\ call[o].kind = "approve" =>
            Recorded(o, "approve", call[o].sequence, call[o].content)
    BY DoneIsReal, ApprovalRecorded DEF AnswerBacked, Inv
  <2>4. a = "done" /\ call[o].kind = "commit" =>
            \E i \in 1..Len(ledger) :
               /\ ledger[i].op = o /\ ledger[i].id = call[o].id /\ ledger[i].valid
               /\ SequenceAt(i) = call[o].sequence
               /\ \A org \in Orgs : call[o].content \in ApprovalAt(i, org, call[o].sequence)
    BY DoneIsReal DEF AnswerBacked
  <2>5. Recorded(o, "approve", call[o].sequence, call[o].content) =>
            Recorded(o, "approve", call[o].sequence, call[o].content)'
    BY <2>1 DEF Recorded
  <2>6. \A i \in 1..Len(ledger) : /\ SequenceAt(i)' = SequenceAt(i)
                                  /\ \A org \in Orgs : ApprovalAt(i, org, call[o].sequence)'
                                                         = ApprovalAt(i, org, call[o].sequence)
    BY <2>1 DEF SequenceAt, CommitsAt, ApprovalAt
  <2>7. a = "done" /\ call[o].kind = "commit" =>
            \E i \in 1..Len(ledger') :
               /\ ledger'[i].op = o /\ ledger'[i].id = call'[o].id /\ ledger'[i].valid
               /\ SequenceAt(i)' = call'[o].sequence
               /\ \A org \in Orgs : call'[o].content \in ApprovalAt(i, org, call[o].sequence)'
    BY <2>1, <2>4, <2>6
  <2>8. QED BY <2>1, <2>2, <2>3, <2>5, <2>7 DEF AnswerReal
<1>7. AnswersReal'
  BY <1>5, <1>6 DEF AnswersReal
<1>8. QED BY <1>1, <1>2, <1>3, <1>4, <1>7, Undisturbed DEF Returning
-----------------------------------------------------------------------------
\* The responses a peer can give, and what they say of the world it knows.
LEMMA ResponsesApart ==
    /\ Refusal \notin Passing /\ Refusal.status # 200
    /\ SystemError # Endorsed
    /\ \A s \in Nat : NoChange(s) # Refusal /\ NoChange(s) # Endorsed /\ NoChange(s).status # 200
    /\ Refusal # Endorsed
<1>1. ASSUME NEW s \in Nat
      PROVE  NoChange(s) # Refusal /\ NoChange(s) # Endorsed /\ NoChange(s).status # 200
  <2>1. NoChange(s).message # Refusal.message
    BY DEF NoChange, Refusal
  <2>2. NoChange(s).status # 200
    BY DEF NoChange
  <2>3. NoChange(s).status # Endorsed.status
    BY DEF NoChange, Endorsed
  <2>4. NoChange(s) # Refusal
    BY <2>1
  <2>5. NoChange(s) # Endorsed
    BY <2>3
  <2>6. QED BY <2>2, <2>4, <2>5
<1>2. AlreadyInstalled.message # Refusal.message /\ NoDefinition.message # Refusal.message
  BY DEF AlreadyInstalled, NoDefinition, Refusal
<1>3. Refusal \notin Passing
  BY <1>1, <1>2 DEF Passing
<1>4. Refusal.status # 200 /\ SystemError.status # Endorsed.status /\ Refusal.status # Endorsed.status
  BY DEF Refusal, SystemError, Endorsed
<1>5. QED BY <1>1, <1>3, <1>4

LEMMA ApproveResponse ==
    ASSUME NEW o \in Ops, NEW p, call[o].kind = "approve"
    PROVE  \/ Response(p, o) \in {Endorsed, Refusal}
           \/ /\ Response(p, o) = NoChange(call[o].sequence)
              /\ call[o].content \in ApprovalAt(seen[p], OrgOf[o], call[o].sequence)
BY DEF Response

LEMMA CommitResponse ==
    ASSUME NEW o \in Ops, NEW p, call[o].kind = "commit"
    PROVE  \/ Response(p, o) = Refusal
           \/ /\ Response(p, o) = Endorsed
              /\ CommittableAt(seen[p], call[o].sequence, call[o].content)
BY DEF Response, CommittableAt

\* What gets past EndorseALL: responses of peers, endorsements or of those a
\* handler lets pass, whichever call left the handler.
LEMMA Passed ==
    ASSUME Inv, NEW o \in Ops, NEW results \in Responses(o), EndorseALL(results, handler[o]),
           NEW p \in EndorsersOf[o]
    PROVE  /\ results[p] = Response(p, o)
           /\ results[p].status = 200 \/ results[p] \in Passing
<1>1. DOMAIN results = EndorsersOf[o] /\ results[p] \in {Response(p, o), Refusal, SystemError}
  BY DEF Responses, MayAnswer
<1>2. results[p] # SystemError /\ (p \in SanCheck(results) => results[p] \in handler[o])
  BY <1>1 DEF EndorseALL, Unreachable
<1>3. handler[o] \subseteq Passing
  BY DEF Inv, Typed
<1>4. results[p] # Refusal
  BY <1>1, <1>2, <1>3, ResponsesApart DEF SanCheck
<1>5. QED BY <1>1, <1>2, <1>3, <1>4 DEF SanCheck

LEMMA InstallResponse ==
    ASSUME NEW o \in Ops, NEW p, call[o].kind = "install"
    PROVE  Response(p, o) = IF p \in installed THEN AlreadyInstalled ELSE Endorsed
BY DEF Response

LEMMA EndorsersThere ==
    ASSUME NEW o \in Ops
    PROVE  EndorsersOf[o] # {} /\ EndorsersOf[o] \subseteq Peers
BY LifecycleAssumption

LEMMA KnownLedger ==
    ASSUME Inv, NEW p \in Peers
    PROVE  seen[p] \in 0..Len(ledger)
BY LengthNat DEF Inv, SeenOK
-----------------------------------------------------------------------------
\* The calls that return, one lemma for each way.
LEMMA ProposalFailsInv == ASSUME Inv, NEW o \in Ops, ProposalFails(o) PROVE Inv'
<1>1. installed \subseteq installed' /\ installed' \subseteq Peers
  BY EndorsersThere DEF ProposalFails, Endorsing, Inv, Typed
<1>2. Returning(o, "error")
  BY <1>1 DEF ProposalFails, Returning, object, Inv, Typed, Answers
<1>3. AnswerBacked(o, "error")
  BY DEF AnswerBacked
<1>4. QED BY <1>2, <1>3, ReturnInv

LEMMA InstalledInv == ASSUME Inv, NEW o \in Ops, Installed(o) PROVE Inv'
<1>0. PICK results \in Responses(o) :
        /\ EndorseALL(results, handler[o])
        /\ installed' = installed \cup Endorsing(o, results)
  BY DEF Installed
<1>1. /\ installed \subseteq installed' /\ installed' \subseteq Peers
      /\ EndorsersOf[o] \subseteq installed'
  <2>1. installed \subseteq installed' /\ installed' \subseteq Peers
    BY <1>0, EndorsersThere DEF Endorsing, Inv, Typed
  <2>2. ASSUME NEW p \in EndorsersOf[o], p \notin installed
        PROVE  p \in installed'
    <3>1. results[p] = Response(p, o)
      BY <1>0, Passed
    <3>2. results[p] = Endorsed
      BY <2>2, <3>1, InstallResponse DEF Installed
    <3>3. QED BY <1>0, <3>2 DEF Endorsing
  <2>3. QED BY <2>1, <2>2
<1>2. handler' \in [Ops -> SUBSET Passing]
  BY DEF Installed, Inv, Typed
<1>3. Returning(o, "installed")
  BY <1>1, <1>2 DEF Installed, Returning, Answers
<1>4. AnswerBacked(o, "installed")
  BY <1>1 DEF AnswerBacked
<1>5. QED BY <1>3, <1>4, ReturnInv

LEMMA QuietReturn ==
    ASSUME Inv, NEW o \in Ops, NEW a \in Answers, Return(o, a),
           UNCHANGED <<call, object, ordering, network>>
    PROVE  Returning(o, a)
BY DEF Returning, object, network, Inv, Typed

LEMMA QueriedInv == ASSUME Inv, NEW o \in Ops, Queried(o) PROVE Inv'
<1>1. PICK a \in {"undefined", "read"} : Return(o, a)
  BY DEF Queried
<1>2. UNCHANGED <<call, object, ordering, network>>
  BY DEF Queried
<1>3. Returning(o, a) /\ AnswerBacked(o, a)
  BY <1>1, <1>2, QuietReturn DEF Answers, AnswerBacked
<1>4. QED BY <1>3, ReturnInv

LEMMA NothingToApproveInv == ASSUME Inv, NEW o \in Ops, NothingToApprove(o) PROVE Inv'
<1>1. Returning(o, "unchanged")
  BY QuietReturn DEF NothingToApprove, Answers
<1>2. PICK results \in Responses(o) :
        /\ EndorseALL(results, handler[o])
        /\ \A p \in EndorsersOf[o] : results[p] = NoChange(call[o].sequence)
  BY DEF NothingToApprove
<1>3. PICK p \in EndorsersOf[o] : p \in Peers
  BY EndorsersThere
<1>4. Response(p, o) = NoChange(call[o].sequence) /\ call[o].sequence \in Nat
  BY <1>2, Passed DEF Inv, Typed, Calls
<1>5. call[o].content \in ApprovalAt(seen[p], OrgOf[o], call[o].sequence)
  BY <1>4, ApproveResponse, ResponsesApart DEF NothingToApprove
<1>6. AnswerBacked(o, "unchanged")
  BY <1>3, <1>5, KnownLedger DEF AnswerBacked, NothingToApprove
<1>7. QED BY <1>1, <1>6, ReturnInv

LEMMA ErrorInv ==
    ASSUME Inv, NEW o \in Ops, CommitRefused(o) \/ CommitTimedOut(o) \/ WaitFails(o)
    PROVE  Inv'
<1>1. Returning(o, "error")
  BY QuietReturn DEF CommitRefused, CommitTimedOut, WaitFails, Answers
<1>2. AnswerBacked(o, "error")
  BY DEF AnswerBacked
<1>3. QED BY <1>1, <1>2, ReturnInv

LEMMA TransactionSeenInv == ASSUME Inv, NEW o \in Ops, TransactionSeen(o) PROVE Inv'
<1>0. PICK p \in EndorsersOf[o] : \E i \in 1..seen[p] :
        /\ ledger[i].op = o /\ ledger[i].id = call[o].id
        /\ Return(o, IF ledger[i].valid THEN "done" ELSE "invalid")
  BY DEF TransactionSeen
<1>1. PICK i \in 1..seen[p] :
        /\ ledger[i].op = o /\ ledger[i].id = call[o].id
        /\ Return(o, IF ledger[i].valid THEN "done" ELSE "invalid")
  BY <1>0
<1>2. i \in 1..Len(ledger)
  BY EndorsersThere, KnownLedger, LengthNat DEF Inv
<1> DEFINE a == IF ledger[i].valid THEN "done" ELSE "invalid"
<1>3. Returning(o, a)
  BY <1>1, QuietReturn DEF TransactionSeen, Answers
<1>4. AnswerBacked(o, a)
  BY <1>1, <1>2 DEF AnswerBacked
<1>5. QED BY <1>3, <1>4, ReturnInv
-----------------------------------------------------------------------------
\* The steps that leave the answers alone, and the start of a call.
LEMMA AnswersKept ==
    ASSUME Inv, Grows, LedgerOK', installed \subseteq installed',
           \A o \in Ops : \/ answer'[o] \notin {"done", "unchanged", "installed"}
                          \/ answer'[o] = answer[o] /\ call'[o] = call[o]
    PROVE  AnswersReal'
BY AnswerKept DEF Inv, AnswersReal

LEMMA SetPolicyInv ==
    ASSUME Inv, NEW o \in Ops, NEW p \in Contents, SetEndorsementPolicy(o, p)
    PROVE  Inv'
<1>1. Typed' /\ SeenOK' /\ Later
  BY DEF Inv, Typed, SeenOK, Later, SetEndorsementPolicy, calling, ordering, network
<1>2. LedgerOK' /\ Grows
  BY <1>1, LedgerKept DEF SetEndorsementPolicy, network
<1>3. AnswersReal'
  BY <1>2, AnswersKept DEF SetEndorsementPolicy, calling, network
<1>4. /\ broadcast' \cup accepted' \subseteq Sent /\ UNCHANGED ledger
      /\ \A x \in Committing' : x \in Committing /\ envelope'[x] = envelope[x] /\ call'[x] = call[x]
  BY DEF SetEndorsementPolicy, calling, ordering, network, Sent, Committing
<1>5. QED BY <1>1, <1>3, <1>4, Undisturbed

\* The five calls: they start alike, and differ in the handler they leave.
LEMMA ProposeInv ==
    ASSUME Inv, NEW o \in Ops, NEW kind \in Kinds, NEW s \in Nat, NEW c \in Contents,
           Propose(o, kind, s, c),
           handler' \in [Ops -> SUBSET Passing], parameter' \in [Ops -> Contents]
    PROVE  Inv'
<1>1. call[o] \in Calls /\ call[o].id \in Nat
  BY DEF Inv, Typed, Calls
<1>2. [kind |-> kind, id |-> call[o].id + 1, sequence |-> s, content |-> c,
       wish |-> policy[o]] \in Calls
  BY <1>1 DEF Calls, Inv, Typed
<1>3. /\ call' = [call EXCEPT ![o] = [kind |-> kind, id |-> call[o].id + 1, sequence |-> s,
                                       content |-> c, wish |-> policy[o]]]
      /\ call' \in [Ops -> Calls] /\ call'[o].id = call[o].id + 1
      /\ \A x \in Ops \ {o} : call'[x] = call[x]
  BY <1>2 DEF Propose, Inv, Typed
<1>4. Later
  BY <1>1, <1>3 DEF Later
<1>5. Typed' /\ SeenOK'
  BY <1>3 DEF Propose, Inv, Typed, SeenOK, ordering, network, Places, Answers
<1>6. LedgerOK' /\ Grows
  BY <1>4, <1>5, LedgerKept DEF Propose, network
<1>7. \A x \in Ops : \/ answer'[x] \notin {"done", "unchanged", "installed"}
                     \/ answer'[x] = answer[x] /\ call'[x] = call[x]
  BY <1>3 DEF Propose, Inv, Typed
<1>8. AnswersReal'
  BY <1>6, <1>7, AnswersKept DEF Propose, network
<1>9. \A x \in Committing' : x \in Committing /\ envelope'[x] = envelope[x] /\ call'[x] = call[x]
  BY <1>3 DEF Propose, Inv, Typed, Committing, ordering
<1>10. broadcast' \cup accepted' \subseteq Sent /\ UNCHANGED ledger
  BY DEF Propose, ordering, network, Sent
<1>11. QED BY <1>4, <1>5, <1>8, <1>9, <1>10, Undisturbed

\* install and queryChaincodeDefinition, which set their own handler.
LEMMA PlainCallInv ==
    ASSUME Inv, NEW o \in Ops,
           Install(o) \/ QueryChaincodeDefinition(o) \/ QueryChaincodeDefinitions(o)
    PROVE  Inv'
<1>1. Default \in Contents /\ 0 \in Nat
  BY DEF Contents
<1>2. handler' \in [Ops -> SUBSET Passing] /\ parameter' \in [Ops -> Contents]
  BY DEF Inv, Typed, Install, QueryChaincodeDefinition, QueryChaincodeDefinitions, Passing
<1>3. PICK kind \in Kinds : Propose(o, kind, 0, Default)
  BY DEF Install, QueryChaincodeDefinition, QueryChaincodeDefinitions, Kinds
<1>4. QED BY <1>1, <1>2, <1>3, ProposeInv

\* The calls about a sequence, of which approve alone sets a handler.
LEMMA SequenceCallInv ==
    ASSUME Inv, NEW o \in Ops, NEW s \in 1..MaxSequence,
           Approve(o, s) \/ CheckCommitReadiness(o, s) \/ CommitChaincodeDefinition(o, s)
    PROVE  Inv'
<1>1. s \in Nat
  BY LifecycleAssumption
<1>2. Assigned(o) \in Contents
  BY DEF Inv, Typed, Assigned, Contents
<1>3. handler' \in [Ops -> SUBSET Passing]
  BY <1>1 DEF Inv, Typed, Passing, Approve, CheckCommitReadiness, CommitChaincodeDefinition
<1>4. parameter' \in [Ops -> Contents]
  BY <1>2 DEF Inv, Typed, Approve, CheckCommitReadiness, CommitChaincodeDefinition
<1>5. PICK kind \in Kinds : Propose(o, kind, s, Assigned(o))
  BY DEF Approve, CheckCommitReadiness, CommitChaincodeDefinition, Kinds
<1>6. QED BY <1>1, <1>2, <1>3, <1>4, <1>5, ProposeInv

LEMMA CommitAcceptedInv == ASSUME Inv, NEW o \in Ops, CommitAccepted(o) PROVE Inv'
<1>1. Typed' /\ SeenOK' /\ Later
  BY DEF Inv, Typed, SeenOK, Later, CommitAccepted, object, ordering, network, Places
<1>2. LedgerOK' /\ Grows
  BY <1>1, LedgerKept DEF CommitAccepted, network
<1>3. AnswersReal'
  BY <1>2, AnswersKept DEF CommitAccepted, network
<1>4. /\ broadcast' \cup accepted' \subseteq Sent /\ UNCHANGED ledger
      /\ \A x \in Committing' : x \in Committing /\ envelope'[x] = envelope[x] /\ call'[x] = call[x]
  BY DEF CommitAccepted, Inv, Typed, ordering, network, Sent, Committing
<1>5. QED BY <1>1, <1>3, <1>4, Undisturbed

LEMMA RetryCommitInv == ASSUME Inv, NEW o \in Ops, RetryCommit(o) PROVE Inv'
<1>1. Typed' /\ SeenOK' /\ Later
  BY DEF Inv, Typed, SeenOK, Later, RetryCommit, Broadcast, object, calling, network, Replies
<1>2. LedgerOK' /\ Grows
  BY <1>1, LedgerKept DEF RetryCommit, network
<1>3. AnswersReal'
  BY <1>2, AnswersKept DEF RetryCommit, calling, network
<1>4. envelope[o] \in Sent
  BY DEF RetryCommit, Sent, Committing
<1>5. broadcast' \cup accepted' \subseteq Sent /\ UNCHANGED ledger
  BY <1>4 DEF RetryCommit, Broadcast, network, Sent
<1>6. \A x \in Committing' : x \in Committing /\ envelope'[x] = envelope[x] /\ call'[x] = call[x]
  BY DEF RetryCommit, Broadcast, Inv, Typed, calling, Committing
<1>7. QED BY <1>1, <1>3, <1>5, <1>6, Undisturbed

LEMMA OrdererAnswersInv ==
    ASSUME Inv, NEW e \in broadcast, NEW r \in {Success, NoRaftLeader, Rejected},
           OrdererAnswers(e, r)
    PROVE  Inv'
<1>1. e.op \in Ops
  BY DEF Inv, EnvelopesOK, Sent, OfItsCall
<1>2. reply' \in [Ops -> Replies]
  BY <1>1 DEF OrdererAnswers, Inv, Typed, Replies
<1>3. Typed' /\ SeenOK' /\ Later
  BY <1>2 DEF Inv, Typed, SeenOK, Later, OrdererAnswers, object, calling, network
<1>4. LedgerOK' /\ Grows
  BY <1>3, LedgerKept DEF OrdererAnswers, network
<1>5. AnswersReal'
  BY <1>4, AnswersKept DEF OrdererAnswers, calling, network
<1>6. broadcast' \cup accepted' \subseteq Sent /\ UNCHANGED ledger
  BY DEF OrdererAnswers, network, Sent
<1>7. \A x \in Committing' : x \in Committing /\ envelope'[x] = envelope[x] /\ call'[x] = call[x]
  BY DEF OrdererAnswers, calling, Committing
<1>8. QED BY <1>3, <1>5, <1>6, <1>7, Undisturbed

LEMMA PeerCommitsInv == ASSUME Inv, NEW p \in Peers, PeerCommits(p) PROVE Inv'
<1>1. Typed' /\ Later
  BY DEF Inv, Typed, Later, PeerCommits, object, calling, ordering
<1>2. SeenOK'
  BY LengthNat DEF Inv, SeenOK, PeerCommits
<1>3. LedgerOK' /\ Grows
  BY <1>1, LedgerKept DEF PeerCommits
<1>4. AnswersReal'
  BY <1>3, AnswersKept DEF PeerCommits, calling
<1>5. /\ broadcast' \cup accepted' \subseteq Sent /\ UNCHANGED ledger
      /\ \A x \in Committing' : x \in Committing /\ envelope'[x] = envelope[x] /\ call'[x] = call[x]
  BY DEF PeerCommits, calling, ordering, Sent, Committing
<1>6. QED BY <1>1, <1>2, <1>4, <1>5, Undisturbed
-----------------------------------------------------------------------------
\* A transaction is broadcast: what its endorsers read lets it pass.
LEMMA CommitInv == ASSUME Inv, NEW o \in Ops, Commit(o) PROVE Inv'
<1> DEFINE E(results) == Endorsing(o, results)
<1>1. PICK results \in Responses(o) :
        /\ EndorseALL(results, handler[o])
        /\ \E p \in EndorsersOf[o] : results[p] # NoChange(call[o].sequence)
        /\ Broadcast(o, EnvelopeOf(o, E(results)))
  BY DEF Commit
<1> DEFINE e == EnvelopeOf(o, E(results))
<1>2. call[o].kind \in {"approve", "commit"} /\ call[o] \in Calls
  BY DEF Commit, Inv, Typed
<1>0. \A p : p \in E(results) <=> p \in EndorsersOf[o] /\ results[p] = Endorsed
  BY DEF Endorsing
<1>3. /\ e.op = o /\ e.id = call[o].id /\ e.kind = call[o].kind
      /\ e.sequence = call[o].sequence /\ e.content = call[o].content
      /\ DOMAIN e.reads = E(results) /\ \A p \in E(results) : e.reads[p] = seen[p]
  BY DEF EnvelopeOf
<1>4. OfItsCall(e)
  BY <1>2, <1>3 DEF OfItsCall, Calls
<1>5. \A p \in E(results) : seen[p] \in 0..Len(ledger)
  BY <1>0, EndorsersThere, KnownLedger
<1>6. call[o].kind = "commit" =>
        \A p \in EndorsersOf[o] : /\ results[p] = Endorsed
                                  /\ CommittableAt(seen[p], call[o].sequence, call[o].content)
  BY <1>1, Passed, CommitResponse, ResponsesApart
<1>7. E(results) # {}
  <2>1. CASE call[o].kind = "commit"
    BY <1>0, <1>6, <2>1, EndorsersThere
  <2>2. CASE call[o].kind = "approve"
    <3>1. PICK p \in EndorsersOf[o] : results[p] # NoChange(call[o].sequence)
      BY <1>1
    <3>2. results[p] = Endorsed
      BY <1>1, <2>2, <3>1, Passed, ApproveResponse, ResponsesApart
    <3>3. QED BY <1>0, <3>2
  <2>3. QED BY <1>2, <2>1, <2>2
<1>8. Endorsements(e)
  <2>1. call[o].kind = "commit" => E(results) = EndorsersOf[o]
    BY <1>0, <1>6
  <2>2. QED BY <1>3, <1>5, <1>6, <1>7, <2>1 DEF Endorsements
<1> HIDE DEF e
<1>9. /\ broadcast' = broadcast \cup {e} /\ accepted' = accepted
      /\ envelope' = [envelope EXCEPT ![o] = e] /\ reply' = [reply EXCEPT ![o] = Pending]
  BY <1>1 DEF Broadcast, e
<1>10. Typed' /\ SeenOK' /\ Later
  BY <1>9 DEF Inv, Typed, SeenOK, Later, Commit, network, Places, Replies
<1>11. LedgerOK' /\ Grows
  BY <1>10, LedgerKept DEF Commit, network
<1>12. AnswersReal'
  BY <1>11, AnswersKept DEF Commit, network
<1>13. Sent' \subseteq Sent \cup {e}
  BY <1>9 DEF Sent, Committing, Inv, Typed, Commit
<1>14. EnvelopesOK'
  <2> SUFFICES ASSUME NEW x \in Sent' PROVE OfItsCall(x)' /\ Endorsements(x)'
    BY DEF EnvelopesOK
  <2>1. OfItsCall(x) /\ Endorsements(x) /\ x.sequence \in Nat
    BY <1>4, <1>8, <1>13 DEF Inv, EnvelopesOK, OfItsCall
  <2>2. QED BY <1>10, <1>11, <2>1, OfItsCallKept, EndorsementsKept DEF Inv
<1>15. OwnEnvelope'
  BY <1>3, <1>9 DEF e, OwnEnvelope, Committing, Inv, Typed, Commit
<1>16. QED BY <1>10, <1>11, <1>12, <1>14, <1>15 DEF Inv
-----------------------------------------------------------------------------
\* What was committable when the endorsers read is so when a valid transaction
\* is put into the ledger, however long that took.
LEMMA ValidMeansCommittable ==
    ASSUME NEW e, OfItsCall(e), Endorsements(e), CanBeValid(e), e.kind = "commit"
    PROVE  CommittableAt(Len(ledger), e.sequence, e.content)
<1> DEFINE l == Len(ledger)
           R(h) == [g \in Orgs |-> ApprovalAt(h, g, e.sequence)]
<1>1. PICK p : p \in DOMAIN e.reads
  BY DEF Endorsements
<1>2. CommittableAt(e.reads[p], e.sequence, e.content)
  BY <1>1 DEF Endorsements
<1>3. \A h : ReadAt(h, e.kind, OrgOf[e.op], e.sequence) = <<SequenceAt(h), R(h)>>
  BY DEF ReadAt
<1>4. ReadAt(e.reads[p], e.kind, OrgOf[e.op], e.sequence) = ReadAt(l, e.kind, OrgOf[e.op], e.sequence)
  BY <1>1 DEF CanBeValid
<1>5. SequenceAt(e.reads[p]) = SequenceAt(l) /\ R(e.reads[p]) = R(l)
  <2>1. <<SequenceAt(e.reads[p]), R(e.reads[p])>> = <<SequenceAt(l), R(l)>>
    BY <1>3, <1>4
  <2> HIDE DEF R
  <2>2. QED BY <2>1
<1>6. \A org \in Orgs : ApprovalAt(e.reads[p], org, e.sequence) = ApprovalAt(l, org, e.sequence)
  BY <1>5
<1>7. QED BY <1>2, <1>5, <1>6 DEF CommittableAt

\* A valid commit at the end of the ledger defines the next sequence, and
\* changes no approval.
LEMMA CommitDefines ==
    ASSUME LedgerOK, NEW t \in Entry, ledger' = Append(ledger, t),
           t.kind = "commit", t.valid,
           NEW l \in Nat, l = Len(ledger), CommittableAt(l, t.sequence, t.content),
           NEW n \in Nat, n = l + 1
    PROVE  Defined(n)'
<1>1. /\ l \in Nat /\ n \in 1..n /\ Len(ledger') = n /\ ledger'[n] = t
      /\ \A i \in 1..l : ledger'[i] = ledger[i]
  BY AppendProperties DEF LedgerOK
<1>2. 1..n = (1..l) \cup {n} /\ n \notin 1..l
  BY <1>1
<1> DEFINE C == {i \in 1..l : ledger[i].kind = "commit" /\ ledger[i].valid}
           D == {i \in 1..n : ledger'[i].kind = "commit" /\ ledger'[i].valid}
<1>3. D = C \cup {n} /\ n \notin C
  BY <1>1, <1>2
<1>4. IsFiniteSet(C)
  <2>1. IsFiniteSet(1..l)
    BY <1>1, FS_Interval
  <2>2. QED BY <2>1, FS_Subset
<1>5. Cardinality(D) = Cardinality(C) + 1
  <2> HIDE DEF C, D
  <2>1. QED BY <1>3, <1>4, FS_AddElement
<1>6. ASSUME NEW org \in Orgs
      PROVE  /\ {i \in 1..n : /\ ledger'[i].kind = "approve" /\ ledger'[i].valid
                              /\ OrgOf[ledger'[i].op] = org /\ ledger'[i].sequence = t.sequence}
                = {i \in 1..l : /\ ledger[i].kind = "approve" /\ ledger[i].valid
                                /\ OrgOf[ledger[i].op] = org /\ ledger[i].sequence = t.sequence}
  BY <1>1, <1>2
<1>7. ASSUME NEW org \in Orgs
      PROVE  t.content \in ApprovalAt(n, org, t.sequence)'
  <2> DEFINE A == {i \in 1..l : /\ ledger[i].kind = "approve" /\ ledger[i].valid
                                /\ OrgOf[ledger[i].op] = org /\ ledger[i].sequence = t.sequence}
             B == {i \in 1..n : /\ ledger'[i].kind = "approve" /\ ledger'[i].valid
                                /\ OrgOf[ledger'[i].op] = org /\ ledger'[i].sequence = t.sequence}
  <2>1. t.content \in {ledger[i].content : i \in {j \in A : \A k \in A : k <= j}}
    BY DEF CommittableAt, ApprovalAt
  <2>2. PICK i \in A : ledger[i].content = t.content /\ \A k \in A : k <= i
    BY <2>1
  <2>3. i \in 1..l /\ ledger'[i].content = t.content
    BY <1>1, <2>2
  <2>4. A = B
    BY <1>6
  <2> HIDE DEF A, B
  <2>5. t.content \in {ledger'[j].content : j \in {j \in B : \A k \in B : k <= j}}
    BY <2>2, <2>3, <2>4
  <2>6. QED BY <2>5 DEF ApprovalAt, B
<1>8. SequenceAt(n)' = t.sequence
  <2>1. SequenceAt(n)' = Cardinality(D) /\ SequenceAt(l) = Cardinality(C)
    BY DEF SequenceAt, CommitsAt
  <2>2. t.sequence = SequenceAt(l) + 1
    BY DEF CommittableAt
  <2>3. QED BY <1>5, <2>1, <2>2
<1>9. QED BY <1>1, <1>7, <1>8 DEF Defined

LEMMA OrderInv == ASSUME Inv, NEW e \in accepted, Order(e) PROVE Inv'
<1>1. PICK valid \in BOOLEAN :
        /\ valid => CanBeValid(e)
        /\ ledger' = Append(ledger, [op |-> e.op, id |-> e.id, kind |-> e.kind, valid |-> valid,
                                     sequence |-> e.sequence, content |-> e.content])
  BY DEF Order
<1> DEFINE t == [op |-> e.op, id |-> e.id, kind |-> e.kind, valid |-> valid,
                 sequence |-> e.sequence, content |-> e.content]
<1>2. OfItsCall(e) /\ Endorsements(e)
  BY DEF Inv, EnvelopesOK, Sent
<1>3. t \in Entry /\ OfItsCall(t)
  BY <1>2 DEF OfItsCall, Entry
<1>4. PICK l \in Nat : l = Len(ledger)
  BY LengthNat DEF Inv
<1>5. PICK n \in Nat : n = l + 1
  OBVIOUS
<1>6. t.valid /\ t.kind = "commit" => CommittableAt(l, t.sequence, t.content)
  BY <1>1, <1>2, <1>4, ValidMeansCommittable
<1>7. ledger' = Append(ledger, t)
  BY <1>1
<1>8. t.kind = e.kind /\ t.valid = valid
  OBVIOUS
<1> HIDE DEF t
<1>9. Defined(n)'
  <2>1. CASE t.kind = "commit" /\ t.valid
    BY <1>3, <1>4, <1>5, <1>6, <1>7, <2>1, CommitDefines DEF Inv
  <2>2. CASE ~(t.kind = "commit" /\ t.valid)
    <3>1. ledger'[n] = t
      BY <1>3, <1>4, <1>5, <1>7, AppendProperties DEF Inv, LedgerOK
    <3>2. QED BY <2>2, <3>1 DEF Defined
  <2>3. QED BY <2>1, <2>2
<1>10. /\ ledger' \in Seq(Entry) /\ Len(ledger') = n /\ ledger'[n] = t
       /\ \A i \in 1..l : ledger'[i] = ledger[i]
  BY <1>3, <1>4, <1>5, <1>7, AppendProperties DEF Inv, LedgerOK
<1>11. Grows
  BY <1>4, <1>5, <1>10 DEF Grows
<1>12. Typed' /\ Later /\ SeenOK'
  BY <1>4, <1>5, <1>10 DEF Inv, Typed, SeenOK, Later, Order, object, calling
<1>13. LedgerOK'
  <2>1. ASSUME NEW i \in 1..l PROVE OfItsCall(ledger[i])' /\ Defined(i)'
    <3>1. OfItsCall(ledger[i]) /\ Defined(i) /\ i \in 0..Len(ledger) /\ i \in 1..Len(ledger)
      BY <1>4 DEF Inv, LedgerOK
    <3>2. PICK x : x = ledger[i]
      OBVIOUS
    <3>3. OfItsCall(x)' /\ ledger'[i] = x
      BY <1>10, <1>12, <3>1, <3>2, OfItsCallKept DEF Inv
    <3>4. x.sequence \in Nat
      BY <3>1, <3>2 DEF OfItsCall
    <3>5. /\ SequenceAt(i)' = SequenceAt(i)
          /\ \A org \in Orgs, s \in Nat : ApprovalAt(i, org, s)' = ApprovalAt(i, org, s)
      BY <1>11, <3>1, WorldKept DEF Inv
    <3>6. Defined(i)'
      BY <3>1, <3>2, <3>3, <3>4, <3>5 DEF Defined
    <3>7. QED BY <3>3, <3>6 DEF OfItsCall
  <2>2. OfItsCall(t)'
    BY <1>3, <1>12, OfItsCallKept DEF Inv
  <2>3. OfItsCall(ledger[n])'
    BY <1>10, <2>2 DEF OfItsCall
  <2>4. 1..n = (1..l) \cup {n}
    BY <1>5
  <2>5. QED BY <1>9, <1>10, <2>1, <2>3, <2>4 DEF LedgerOK
<1>14. AnswersReal'
  BY <1>11, <1>13, AnswersKept DEF Order, calling
<1>15. EnvelopesOK'
  <2>1. Sent' \subseteq Sent
    BY DEF Order, calling, Sent, Committing
  <2>2. QED BY <1>11, <1>12, <1>13, <2>1, EnvelopesKept
<1>16. OwnEnvelope'
  BY DEF Order, calling, Inv, OwnEnvelope, Committing
<1>17. QED BY <1>12, <1>13, <1>14, <1>15, <1>16 DEF Inv
-----------------------------------------------------------------------------
LEMMA Initially == Init => Inv
<1> SUFFICES ASSUME Init PROVE Inv
  OBVIOUS
<1>1. Len(ledger) = 0 /\ ledger \in Seq(Entry)
  BY EmptySeq DEF Init
<1>2. NoCall \in Calls /\ Default \in Contents
  BY DEF NoCall, Calls, Contents
<1>3. Typed
  BY <1>2 DEF Init, Typed, Places, Answers, Replies
<1>4. EnvelopesOK /\ OwnEnvelope
  BY DEF Init, EnvelopesOK, OwnEnvelope, Sent, Committing
<1>5. LedgerOK
  BY <1>1 DEF LedgerOK
<1>6. SeenOK
  BY <1>1 DEF Init, SeenOK
<1>7. AnswersReal
  BY DEF Init, AnswersReal, AnswerReal
<1>8. QED BY <1>3, <1>4, <1>5, <1>6, <1>7 DEF Inv

LEMMA StutterInv == ASSUME Inv, UNCHANGED vars PROVE Inv'
<1>1. Typed' /\ SeenOK' /\ Later
  BY DEF Inv, Typed, SeenOK, Later, vars, object, calling, ordering, network
<1>2. LedgerOK' /\ Grows
  BY <1>1, LedgerKept DEF vars, network
<1>3. AnswersReal'
  BY <1>2, AnswersKept DEF vars, calling, network
<1>4. /\ broadcast' \cup accepted' \subseteq Sent /\ UNCHANGED ledger
      /\ \A x \in Committing' : x \in Committing /\ envelope'[x] = envelope[x] /\ call'[x] = call[x]
  BY DEF vars, calling, ordering, network, Sent, Committing
<1>5. QED BY <1>1, <1>3, <1>4, Undisturbed

LEMMA OperationInv == ASSUME Inv, NEW o \in Ops, Operation(o) PROVE Inv'
<1>1. CASE \E p \in PoliciesOf[o] \cup {Default} : SetEndorsementPolicy(o, p)
  BY <1>1, SetPolicyInv, LifecycleAssumption DEF Contents
<1>2. CASE Install(o) \/ QueryChaincodeDefinition(o) \/ QueryChaincodeDefinitions(o)
  BY <1>2, PlainCallInv
<1>3. CASE \E s \in 1..MaxSequence : Approve(o, s) \/ CheckCommitReadiness(o, s)
                                     \/ CommitChaincodeDefinition(o, s)
  BY <1>3, SequenceCallInv
<1>4. CASE \/ ProposalFails(o) \/ Installed(o) \/ Queried(o) \/ NothingToApprove(o)
           \/ CommitRefused(o) \/ CommitTimedOut(o) \/ WaitFails(o) \/ TransactionSeen(o)
  BY <1>4, ProposalFailsInv, InstalledInv, QueriedInv, NothingToApproveInv, ErrorInv,
     TransactionSeenInv
<1>5. CASE Commit(o) \/ RetryCommit(o) \/ CommitAccepted(o)
  BY <1>5, CommitInv, RetryCommitInv, CommitAcceptedInv
<1>6. QED BY <1>1, <1>2, <1>3, <1>4, <1>5 DEF Operation

LEMMA Inductive == Inv /\ [Next]_vars => Inv'
<1> SUFFICES ASSUME Inv, [Next]_vars PROVE Inv'
  OBVIOUS
<1>1. CASE \E o \in Ops : Operation(o)
  BY <1>1, OperationInv
<1>2. CASE \E e \in broadcast, r \in {Success, NoRaftLeader, Rejected} : OrdererAnswers(e, r)
  BY <1>2, OrdererAnswersInv
<1>3. CASE \E e \in accepted : Order(e)
  BY <1>3, OrderInv
<1>4. CASE \E p \in Peers : PeerCommits(p)
  BY <1>4, PeerCommitsInv
<1>5. CASE UNCHANGED vars
  BY <1>5, StutterInv
<1>6. QED BY <1>1, <1>2, <1>3, <1>4, <1>5 DEF Next

LEMMA Invariant == Spec => []Inv
<1>1. Init => Inv
  BY Initially
<1>2. Inv /\ [Next]_vars => Inv'
  BY Inductive
<1>3. QED BY <1>1, <1>2, PTL DEF Spec
\* A call about a sequence has the policy that was set, if one was.
Wished ==
    \A o \in Ops : call[o].kind \in {"approve", "readiness", "commit"} =>
        call[o].wish \in {Default, call[o].content}

LEMMA ProposeWished ==
    ASSUME Inv, Wished, NEW o \in Ops, NEW kind, NEW s, NEW c, Propose(o, kind, s, c),
           kind \in {"approve", "readiness", "commit"} => c = Assigned(o)
    PROVE  Wished'
<1>1. /\ call'[o].kind = kind /\ call'[o].content = c /\ call'[o].wish = policy[o]
      /\ \A x \in Ops \ {o} : call'[x] = call[x]
  BY DEF Propose, Inv, Typed
<1>2. c = Assigned(o) => policy[o] \in {Default, c}
  BY DEF Assigned
<1>3. QED BY <1>1, <1>2 DEF Wished

LEMMA WishKept == Inv /\ Wished /\ [Next]_vars => Wished'
<1> SUFFICES ASSUME Inv, Wished, [Next]_vars PROVE Wished'
  OBVIOUS
<1>1. ASSUME UNCHANGED call PROVE Wished'
  BY <1>1 DEF Wished
<1>2. ASSUME NEW o \in Ops, Operation(o) PROVE Wished'
  <2>1. CASE Install(o) \/ QueryChaincodeDefinition(o) \/ QueryChaincodeDefinitions(o)
    <3>1. PICK kind \in {"install", "query", "list"} : Propose(o, kind, 0, Default)
      BY <2>1 DEF Install, QueryChaincodeDefinition, QueryChaincodeDefinitions
    <3>2. QED BY <3>1, ProposeWished
  <2>2. ASSUME NEW s \in 1..MaxSequence,
               Approve(o, s) \/ CheckCommitReadiness(o, s) \/ CommitChaincodeDefinition(o, s)
        PROVE  Wished'
    <3>1. PICK kind \in Kinds : Propose(o, kind, s, Assigned(o))
      BY <2>2 DEF Approve, CheckCommitReadiness, CommitChaincodeDefinition, Kinds
    <3>2. QED BY <3>1, ProposeWished
  <2>3. CASE \/ \E p \in PoliciesOf[o] \cup {Default} : SetEndorsementPolicy(o, p)
             \/ ProposalFails(o) \/ Installed(o) \/ Queried(o) \/ NothingToApprove(o)
             \/ Commit(o) \/ RetryCommit(o) \/ CommitAccepted(o) \/ CommitRefused(o)
             \/ CommitTimedOut(o) \/ TransactionSeen(o) \/ WaitFails(o)
    <3>1. UNCHANGED call
      BY <2>3 DEF SetEndorsementPolicy, ProposalFails, Installed, Queried, NothingToApprove,
         Commit, RetryCommit, CommitAccepted, CommitRefused, CommitTimedOut, TransactionSeen,
         WaitFails, calling
    <3>2. QED BY <1>1, <3>1
  <2>4. QED BY <1>2, <2>1, <2>2, <2>3 DEF Operation
<1>3. CASE \/ \E e \in broadcast, r \in {Success, NoRaftLeader, Rejected} : OrdererAnswers(e, r)
           \/ \E e \in accepted : Order(e)
           \/ \E p \in Peers : PeerCommits(p)
           \/ UNCHANGED vars
  <2>1. UNCHANGED call
    BY <1>3 DEF OrdererAnswers, Order, PeerCommits, vars, calling
  <2>2. QED BY <1>1, <2>1
<1>4. QED BY <1>2, <1>3 DEF Next

LEMMA WishedInvariant == Spec => []Wished
<1>1. Init => Wished
  BY DEF Init, Wished, NoCall
<1>2. QED BY <1>1, Invariant, WishKept, PTL DEF Spec
-----------------------------------------------------------------------------
\* The objects, calls, envelopes and peers keep their shape: no handler holds an
\* endorsement, no envelope is ahead of its operation's calls.
THEOREM TypeCorrect == Spec => []TypeOK
<1>1. Inv => TypeOK
  <2> SUFFICES ASSUME Inv PROVE TypeOK
    OBVIOUS
  <2>1. \A e \in broadcast \cup accepted : e.id <= call[e.op].id /\ e.kind \in {"approve", "commit"}
    BY DEF Inv, EnvelopesOK, Sent, OfItsCall
  <2>2. \A p \in Peers : seen[p] \in 0..Len(ledger)
    BY KnownLedger
  <2>3. \A r \in Passing : r.status # 200
    <3>1. AlreadyInstalled.status # 200 /\ NoDefinition.status # 200
      BY DEF AlreadyInstalled, NoDefinition
    <3>2. QED BY <3>1, ResponsesApart DEF Passing
  <2>4. \A o \in Ops : \A r \in handler[o] : r.status # 200
    BY <2>3 DEF Inv, Typed
  <2>5. QED BY <2>1, <2>2, <2>4 DEF TypeOK, Inv, Typed, Places, Answers, Replies
<1>2. QED BY <1>1, Invariant, PTL

\* An approve that returns normally left its organisation's approval in the
\* ledger, with the policy that was set for it, also when it found nothing to
\* do after a try that seemed to fail.
THEOREM ApprovalReal == Spec => []ApproveMeansApproved
<1>1. Inv /\ Wished => ApproveMeansApproved
  BY DEF Inv, AnswersReal, AnswerReal, ApproveMeansApproved, Wished
<1>2. QED BY <1>1, Invariant, WishedInvariant, PTL

\* Two definitions of a sequence would leave the organisations with different
\* chaincodes.
OneDefinition ==
    \A i, j \in 1..Len(ledger) :
        /\ ledger[i].kind = "commit" /\ ledger[i].valid
        /\ ledger[j].kind = "commit" /\ ledger[j].valid
        /\ ledger[i].sequence = ledger[j].sequence
        => i = j

\* The sequence of the world state grows with each valid commit.
LEMMA SequenceGrows ==
    ASSUME NEW i \in Nat, NEW j \in Nat, i < j, ledger[j].kind = "commit", ledger[j].valid
    PROVE  SequenceAt(i) < SequenceAt(j)
<1>1. IsFiniteSet(CommitsAt(j))
  <2>1. IsFiniteSet(1..j)
    BY FS_Interval
  <2>2. CommitsAt(j) \subseteq 1..j
    BY DEF CommitsAt
  <2>3. QED BY <2>1, <2>2, FS_Subset
<1>2. CommitsAt(i) \subseteq CommitsAt(j) /\ j \in CommitsAt(j) /\ j \notin CommitsAt(i)
  BY DEF CommitsAt
<1>3. IsFiniteSet(CommitsAt(i)) /\ Cardinality(CommitsAt(i)) \in Nat
  BY <1>1, <1>2, FS_Subset, FS_CardinalityType
<1>4. /\ IsFiniteSet(CommitsAt(i) \cup {j})
      /\ Cardinality(CommitsAt(i) \cup {j}) = Cardinality(CommitsAt(i)) + 1
  BY <1>2, <1>3, FS_AddElement
<1>5. Cardinality(CommitsAt(i) \cup {j}) <= Cardinality(CommitsAt(j))
  BY <1>1, <1>2, FS_Subset
<1>6. Cardinality(CommitsAt(j)) \in Nat
  BY <1>1, FS_CardinalityType
<1>7. QED BY <1>3, <1>4, <1>5, <1>6 DEF SequenceAt

LEMMA OneOfEach == Inv => OneDefinition
<1> SUFFICES ASSUME Inv, NEW i \in 1..Len(ledger), NEW j \in 1..Len(ledger),
                    ledger[i].kind = "commit", ledger[i].valid,
                    ledger[j].kind = "commit", ledger[j].valid,
                    ledger[i].sequence = ledger[j].sequence
             PROVE  i = j
  BY DEF OneDefinition
  <1>1. i \in Nat /\ j \in Nat
  OBVIOUS
  <1>2. SequenceAt(i) = SequenceAt(j)
  BY DEF Inv, LedgerOK, Defined
  <1>3. SequenceAt(i) \in Nat
  BY DEF Inv, LedgerOK, OfItsCall, Defined
  <1>4. ~(i < j) /\ ~(j < i)
  BY <1>1, <1>2, <1>3, SequenceGrows
  <1>5. QED BY <1>1, <1>4

\* Of the commits that race for a sequence, of any operations on any peers, one
\* at most defines it.
THEOREM DefinedOnce == Spec => []OneDefinition
BY OneOfEach, Invariant, PTL

\* A commit that is done defined its sequence with a content that every
\* organisation had approved when it did, and no other commit defines that
\* sequence, for any lag of the peers and any approvals between endorsement and
\* ordering.
THEOREM DefinitionApproved == Spec => []DefinitionWasApproved
<1>1. Inv => DefinitionWasApproved
  <2> SUFFICES ASSUME Inv, NEW o \in Ops, call[o].kind = "commit", answer[o] = "done"
               PROVE  \E i \in 1..Len(ledger) :
                        /\ ledger[i].op = o /\ ledger[i].id = call[o].id
                        /\ Defines(i, call[o].sequence)
                        /\ \A org \in Orgs : call[o].content \in ApprovalAt(i, org, call[o].sequence)
                        /\ \A j \in 1..Len(ledger) :
                              /\ ledger[j].kind = "commit" /\ ledger[j].valid
                              /\ ledger[j].sequence = call[o].sequence
                              => j = i
    BY DEF DefinitionWasApproved
  <2>1. PICK i \in 1..Len(ledger) :
            /\ ledger[i].op = o /\ ledger[i].id = call[o].id /\ ledger[i].valid
            /\ SequenceAt(i) = call[o].sequence
            /\ \A org \in Orgs : call[o].content \in ApprovalAt(i, org, call[o].sequence)
    BY DEF Inv, AnswersReal, AnswerReal
  <2>2. ledger[i].kind = "commit" /\ ledger[i].sequence = call[o].sequence
    BY <2>1 DEF Inv, LedgerOK, OfItsCall
  <2>3. \A j \in 1..Len(ledger) :
            /\ ledger[j].kind = "commit" /\ ledger[j].valid
            /\ ledger[j].sequence = call[o].sequence
            => j = i
    BY <2>1, <2>2, OneOfEach DEF OneDefinition
  <2>4. QED BY <2>1, <2>2, <2>3 DEF Defines
<1>2. QED BY <1>1, Invariant, PTL

\* commitChaincodeDefinition and checkCommitReadiness set no result handler:
\* whichever an earlier call left, no refusal of theirs passes it.
THEOREM HandlerHarmless == Spec => []StaleHandlerHarmless
<1>1. Inv => StaleHandlerHarmless
  <2> SUFFICES ASSUME Inv, NEW o \in Ops, pc[o] \in {"broadcast", "waiting"}
               PROVE  IF call[o].kind = "commit"
                      THEN DOMAIN envelope[o].reads = EndorsersOf[o]
                      ELSE DOMAIN envelope[o].reads # {}
    BY DEF StaleHandlerHarmless
  <2>1. PICK e : e = envelope[o]
    OBVIOUS
  <2>2. o \in Committing /\ e \in Sent
    BY <2>1 DEF Committing, Sent
  <2>3. OfItsCall(e) /\ Endorsements(e) /\ e.op = o /\ e.id = call[o].id
    BY <2>1, <2>2 DEF Inv, EnvelopesOK, OwnEnvelope
  <2>4. e.kind = call[o].kind
    BY <2>3 DEF OfItsCall
  <2>5. QED BY <2>1, <2>3, <2>4 DEF Endorsements
<1>2. QED BY <1>1, Invariant, PTL

\* install returns normally only when every endorser has the package: the
\* answers its handler lets pass are those of peers that have it.
THEOREM InstallEverywhere == Spec => []InstallIsEverywhere
<1>1. Inv => InstallIsEverywhere
  BY DEF Inv, AnswersReal, AnswerReal, InstallIsEverywhere
<1>2. QED BY <1>1, Invariant, PTL
=============================================================================

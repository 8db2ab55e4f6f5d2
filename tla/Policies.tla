------------------------------ MODULE Policies ------------------------------
(***************************************************************************)
(* Endorsement policies and private data collections, from what a caller   *)
(* writes to what a lifecycle request carries: the gate policy             *)
(* "AND(...)" / "OR(...)" (nodejs/formatter/gatePolicy.js) or its JSON     *)
(* form (policy.js) becomes a signature policy envelope, a collection its  *)
(* configuration (SideDB.js), and ChaincodeLifecycleOperation.assign       *)
(* leaves both on the proposal object that all its requests share          *)
(* (nodejs/chaincodeOperation.js, nodejs/admin/lifecycleProposal.js).      *)
(*                                                                         *)
(* A principal is an MSP and a role.  A gate text is a gate over items,    *)
(* principals or gates over principals, and whether a blank follows its    *)
(* commas; a JSON policy nests as far, and what nests deeper is not        *)
(* modelled.  What an envelope means is read from its decoded form         *)
(* (policyProtoTranslator.js).                                             *)
(***************************************************************************)
EXTENDS Integers, FiniteSets, SequencesExt

CONSTANTS
    Underscored,  \* MSP ids with '_', of which the pattern of a role knows nothing
    Dashed,       \* MSP ids with '-', of which the pattern of a gate knows nothing
    Written,      \* the endorsement policies callers write
    Collections,  \* the collections callers configure
    MspIds,       \* the MSP ids there are
    Standards,    \* the texts of collection policies in collections_config.json
    Absent,       \* an argument or a property that is not there
    MaxSettings   \* bound on the settings of an operation

VARIABLES
    policy,       \* operation.endorsementPolicy
    collection,   \* operation.collectionsConfig, of one collection
    written,      \* endorsement_policy of that collection's configuration
    parameter,    \* proposal.validation_parameter
    package,      \* proposal.collectionConfigPackage
    initRequired, \* proposal.init_required
    sent,         \* the last request and what its caller had set
    assigned,     \* the policies that were assigned so far, and to what
    packages,     \* the packages that were on the proposal so far
    settings

proposal == <<parameter, package, initRequired>>
history == <<assigned, packages>>
policyVars == <<policy, collection, written, proposal, sent, history, settings>>
-----------------------------------------------------------------------------
\* GatePolicy.FromString
IsGate(item) == "gate" \in DOMAIN item

ItemsOf(item) == IF IsGate(item) THEN item.items ELSE <<item>>

\* Where a text has its principals: <<the item, the principal in that item>>.
Places(text) == UNION {{i} \X DOMAIN ItemsOf(text.items[i]) : i \in DOMAIN text.items}

PrincipalAt(text, o) == ItemsOf(text.items[o[1]])[o[2]]

Principals(text) == {PrincipalAt(text, o) : o \in Places(text)}

\* The pattern of the whole text has no '-': match is null, and its use throws.
Unreadable(text) == \E p \in Principals(text) : p.msp \in Dashed

IsNamed(text, o) == PrincipalAt(text, o).msp \notin Underscored

IsWholeGate(text, o) == IsGate(text.items[o[1]]) /\ Len(text.items[o[1]].items) = 1

\* The text is split at every comma, those of a gate inside it as well, which
\* leaves of that gate its first and its last item unreadable; a piece after a
\* blank is looked at untrimmed. Of the pieces the patterns match what is left.
Matched(text) ==
    {o \in Places(text) :
        LET items == ItemsOf(text.items[o[1]]) IN
        /\ text.spaced => o = <<1, 1>>
        /\ Len(items) > 1 => o[2] \notin {1, Len(items)}
        /\ IsWholeGate(text, o) \/ IsNamed(text, o)}

\* Places in the order of the text.
AtOrBefore(o, q) == o[1] < q[1] \/ (o[1] = q[1] /\ o[2] <= q[2])

InOrder(places) ==
    [k \in 1..Cardinality(places) |->
        CHOOSE o \in places : Cardinality({q \in places : AtOrBefore(q, o)}) = k]

\* Each principal once, where it is first.
FirstPlaces(text) ==
    LET named == {o \in Matched(text) : IsNamed(text, o)} IN
    {o \in named : \A q \in named : PrincipalAt(text, q) = PrincipalAt(text, o) => AtOrBefore(o, q)}

Identities(text) ==
    [k \in DOMAIN InOrder(FirstPlaces(text)) |-> PrincipalAt(text, InOrder(FirstPlaces(text))[k])]

SignedBy(ids, p) == [signed_by |-> (CHOOSE i \in DOMAIN ids : ids[i] = p) - 1]

\* Mutant: any rule is enough, whatever the gate.
AnyOf(gate, rules) == [n |-> 1, rules |-> rules]

NOutOf(gate, rules) == [n |-> IF gate = "OR" THEN 1 ELSE Len(rules), rules |-> rules]

Rule(text, o) ==
    LET role == SignedBy(Identities(text), PrincipalAt(text, o)) IN
    IF IsWholeGate(text, o)
    THEN NOutOf(text.items[o[1]].gate, IF IsNamed(text, o) THEN <<role>> ELSE <<>>)
    ELSE role

FromString(text) ==
    LET pieces == InOrder(Matched(text)) IN
    [rule |-> NOutOf(text.gate, [k \in DOMAIN pieces |-> Rule(text, pieces[k])]),
     identities |-> Identities(text)]

\* Policy.parsePolicy: "n-of" over rules, or an index.
ParseRole(spec) == [signed_by |-> spec.signedBy]

ParseInner(spec) ==
    IF "signedBy" \in DOMAIN spec THEN ParseRole(spec)
    ELSE [n |-> spec.n, rules |-> [i \in DOMAIN spec.of |-> ParseRole(spec.of[i])]]

ParsePolicy(spec) ==
    IF "signedBy" \in DOMAIN spec THEN ParseRole(spec)
    ELSE [n |-> spec.n, rules |-> [i \in DOMAIN spec.of |-> ParseInner(spec.of[i])]]

\* A key that is not "n-of" throws.
Unparsable(json) ==
    /\ "signedBy" \notin DOMAIN json.policy
    /\ json.policy.n = Absent \/ \E spec \in ToSet(json.policy.of) :
                                    "signedBy" \notin DOMAIN spec /\ spec.n = Absent

BuildEnvelope(json) == [rule |-> ParsePolicy(json.policy), identities |-> json.identities]

\* policyProtoTranslator: the envelope as a peer or a reader decodes it.
DecodeRole(rule) == [Type |-> "signed_by", signed_by |-> rule.signed_by]

DecodeInner(rule) ==
    IF "signed_by" \in DOMAIN rule THEN DecodeRole(rule)
    ELSE [Type |-> "n_out_of", N |-> rule.n,
          rules |-> [i \in DOMAIN rule.rules |-> DecodeRole(rule.rules[i])]]

DecodeSignaturePolicy(rule) ==
    IF "signed_by" \in DOMAIN rule THEN DecodeRole(rule)
    ELSE [Type |-> "n_out_of", N |-> rule.n,
          rules |-> [i \in DOMAIN rule.rules |-> DecodeInner(rule.rules[i])]]

DecodeMSPPrincipal(p) == [msp_identifier |-> p.msp, Role |-> p.role]

DecodeEnvelope(envelope) ==
    [rule |-> DecodeSignaturePolicy(envelope.rule),
     identities |-> [i \in DOMAIN envelope.identities |-> DecodeMSPPrincipal(envelope.identities[i])]]

\* applicationPolicyBuilder: JSON goes before a gate text, and a reference to
\* a policy of the channel may stand beside either.
ApplicationPolicy(p) ==
    [signature_policy |-> IF p.json # Absent THEN BuildEnvelope(p.json)
                          ELSE IF p.gate # Absent THEN FromString(p.gate) ELSE Absent,
     reference |-> p.reference]

PolicyThrows(p) ==
    /\ p # Absent
    /\ \/ p.json # Absent /\ Unparsable(p.json)
       \/ p.json = Absent /\ p.gate # Absent /\ Unreadable(p.gate)

\* Both stand for one field: of what setValidationParameter encodes a reader
\* takes the last, and buildCollectionConfig takes the reference first.
OneOf(applicationPolicy) ==
    [applicationPolicy EXCEPT !.signature_policy =
        IF applicationPolicy.reference # Absent THEN Absent ELSE @]
-----------------------------------------------------------------------------
\* SideDB.buildCollectionConfig
\* Mutant: what is false is taken for what is not there.
GivenTruthy(value, default) == IF value \in {Absent, FALSE} THEN default ELSE value

Given(value, default) == IF value = Absent THEN default ELSE value

BuildCollectionConfig(c, endorsement) ==
    [member_orgs |-> [rule |-> NOutOf("OR", [i \in DOMAIN c.identities |-> [signed_by |-> i - 1]]),
                      identities |-> [i \in DOMAIN c.identities |-> [msp |-> c.identities[i], role |-> "member"]]],
     required |-> c.required,
     maximum |-> IF c.maximum \in {Absent, 0} THEN c.required ELSE c.maximum,
     member_only_read |-> Given(c.memberOnlyRead, TRUE),
     member_only_write |-> Given(c.memberOnlyWrite, TRUE),
     endorsement_policy |-> IF endorsement = Absent THEN Absent ELSE OneOf(endorsement)]

\* SideDB.FromStandard: of its policy only the organisations are kept.
FromStandard(text) ==
    BuildCollectionConfig([identities |-> [i \in DOMAIN FromString(text).identities |->
                                              FromString(text).identities[i].msp],
                           required |-> 0, maximum |-> 3,
                           memberOnlyRead |-> TRUE, memberOnlyWrite |-> Absent], Absent)
-----------------------------------------------------------------------------
\* What callers may write: a gate over at least one item.
IsPrincipal(p) ==
    /\ p = [msp |-> p.msp, role |-> p.role]
    /\ p.role \in {"admin", "member", "client", "peer", "orderer"}

IsGateClause(clause) ==
    /\ clause.gate \in {"AND", "OR"}
    /\ clause.items \in Seq(ToSet(clause.items)) /\ clause.items # <<>>

IsItem(item) ==
    IF IsGate(item) THEN IsGateClause(item) /\ \A p \in ToSet(item.items) : IsPrincipal(p)
    ELSE IsPrincipal(item)

IsText(text) == IsGateClause(text) /\ \A i \in ToSet(text.items) : IsItem(i)

\* (What is built of a policy is an object, and so not absent.)
IsPolicy(p) ==
    /\ p.gate = Absent \/ IsText(p.gate)
    /\ ApplicationPolicy(p) # Absent

IsCollection(c) ==
    /\ c.required \in Nat
    /\ c.identities \in Seq(ToSet(c.identities))
    /\ {c.memberOnlyRead, c.memberOnlyWrite} \subseteq BOOLEAN \cup {Absent}
    /\ c.endorsementPolicy = Absent \/ IsPolicy(c.endorsementPolicy)

ASSUME PoliciesAssumption ==
    /\ \A p \in Written : IsPolicy(p)
    /\ \A text \in Standards : IsText(text)
    /\ \A c \in Collections :
          IsCollection(c) /\ IsCollection([c EXCEPT !.endorsementPolicy = Absent])
    /\ Absent \notin Standards /\ Absent \notin BOOLEAN
-----------------------------------------------------------------------------
PoliciesInit ==
    /\ policy = Absent /\ collection = Absent /\ written = Absent
    /\ parameter = Absent /\ package = Absent
    /\ initRequired = TRUE
    /\ sent = Absent
    /\ assigned = {} /\ packages = {}
    /\ settings = 0

Setting ==
    /\ settings < MaxSettings /\ settings' = settings + 1
    /\ UNCHANGED <<proposal, sent, history>>

SetEndorsementPolicy(p) == Setting /\ policy' = p /\ UNCHANGED <<collection, written>>

SetCollectionsConfig(c) ==
    Setting /\ collection' = c /\ written' = Absent /\ UNCHANGED policy

\* The configuration is an object of the caller's, who may edit it.
TakeBackCollectionPolicy ==
    /\ collection # Absent
    /\ Setting
    /\ collection' = [collection EXCEPT !.endorsementPolicy = Absent]
    /\ UNCHANGED <<policy, written>>

\* A caller may translate a collections_config.json and leave it on the
\* proposal itself.
UseStandard(text) ==
    /\ settings < MaxSettings /\ settings' = settings + 1
    /\ ~Unreadable(text)
    /\ package' = [from |-> text, config |-> FromStandard(text)]
    /\ packages' = packages \cup {package'}
    /\ UNCHANGED <<policy, collection, written, parameter, initRequired, sent, assigned>>

AssignInit(required) == initRequired' = required

AssignPolicy ==
    parameter' = IF policy = Absent THEN parameter ELSE OneOf(ApplicationPolicy(policy))

\* What a collection's policy is translated to is written into its
\* configuration, where it stays.
AssignCollection ==
    IF collection = Absent THEN UNCHANGED <<written, package, packages>>
    ELSE /\ written' = IF collection.endorsementPolicy = Absent THEN written
                       ELSE ApplicationPolicy(collection.endorsementPolicy)
         /\ package' = [from |-> Absent, config |-> BuildCollectionConfig(collection, written')]
         /\ packages' = packages \cup {package'}

\* assign, and the request that takes what the proposal holds then (approve,
\* checkCommitReadiness and commitChaincodeDefinition alike): what is not set
\* on the operation stays on the proposal as it was.
Assign(required) ==
    /\ ~PolicyThrows(policy)
    /\ collection # Absent => ~PolicyThrows(collection.endorsementPolicy)
    /\ AssignPolicy
    /\ AssignCollection
    /\ AssignInit(required)
    /\ assigned' = assigned \cup {<<"chaincode", policy>>} \cup
          IF collection = Absent THEN {} ELSE {<<"collection", collection.endorsementPolicy>>}
    /\ sent' = [policy |-> policy, collection |-> collection, init |-> required,
                parameter |-> parameter', package |-> package', init_required |-> initRequired']
    /\ UNCHANGED <<policy, collection, settings>>

\* A collection's policy that throws does so after the endorsement policy was
\* assigned, and before the flag is.
AssignThrows ==
    /\ \/ PolicyThrows(policy) /\ UNCHANGED <<parameter, assigned>>
       \/ /\ ~PolicyThrows(policy)
          /\ collection # Absent /\ PolicyThrows(collection.endorsementPolicy)
          /\ AssignPolicy
          /\ assigned' = assigned \cup {<<"chaincode", policy>>}
    /\ UNCHANGED <<policy, collection, written, package, packages, initRequired, sent, settings>>

PoliciesNext ==
    \/ \E p \in Written \cup {Absent} : SetEndorsementPolicy(p)
    \/ \E c \in Collections \cup {Absent} : SetCollectionsConfig(c)
    \/ TakeBackCollectionPolicy
    \/ \E text \in Standards : UseStandard(text)
    \/ \E required \in BOOLEAN : Assign(required)
    \/ AssignThrows

PoliciesSpec == PoliciesInit /\ [][PoliciesNext]_policyVars
-----------------------------------------------------------------------------
\* What a set of signers satisfies, as decoded.
SatisfiesRole(signers, rule, ids) ==
    LET id == ids[rule.signed_by + 1] IN [msp |-> id.msp_identifier, role |-> id.Role] \in signers

SatisfiesInner(signers, rule, ids) ==
    IF rule.Type = "signed_by" THEN SatisfiesRole(signers, rule, ids)
    ELSE Cardinality({i \in DOMAIN rule.rules : SatisfiesRole(signers, rule.rules[i], ids)}) >= rule.N

Satisfies(signers, rule, ids) ==
    IF rule.Type = "signed_by" THEN SatisfiesRole(signers, rule, ids)
    ELSE Cardinality({i \in DOMAIN rule.rules : SatisfiesInner(signers, rule.rules[i], ids)}) >= rule.N

Accepts(envelope, signers) ==
    LET decoded == DecodeEnvelope(envelope) IN Satisfies(signers, decoded.rule, decoded.identities)

\* What is written.
ItemAccepts(item, signers) ==
    IF ~IsGate(item) THEN item \in signers
    ELSE IF item.gate = "OR" THEN \E p \in ToSet(item.items) : p \in signers
    ELSE \A p \in ToSet(item.items) : p \in signers

TextAccepts(text, signers) ==
    IF text.gate = "OR" THEN \E i \in ToSet(text.items) : ItemAccepts(i, signers)
    ELSE \A i \in ToSet(text.items) : ItemAccepts(i, signers)

Means(text, envelope) ==
    \A signers \in SUBSET Principals(text) : Accepts(envelope, signers) <=> TextAccepts(text, signers)

\* Texts whose every item the patterns see.
Plain(text) ==
    /\ Len(text.items) > 1 => ~text.spaced
    /\ \A i \in ToSet(text.items) : IsGate(i) => Len(i.items) = 1
    /\ \A p \in Principals(text) : p.msp \notin Underscored

\* The policy in force is the one written: the reference, if there is one, or
\* what a plain text says.
Enforces(p, inForce) ==
    /\ p.reference # Absent => inForce = [signature_policy |-> Absent, reference |-> p.reference]
    /\ p.reference = Absent /\ p.json = Absent /\ p.gate # Absent /\ Plain(p.gate) =>
           Means(p.gate, inForce.signature_policy)

AssignedTo(what) ==
    {OneOf(ApplicationPolicy(a[2])) : a \in {b \in assigned : b[1] = what /\ b[2] # Absent}}

\* The endorsement policy of a request is the one its caller wrote, if that is a
\* reference or plain; without one, the request has none or one that was taken
\* back (nodejs/chaincodeOperation.js:86-91).
PolicyKept ==
    sent # Absent =>
        IF sent.policy = Absent THEN sent.parameter \in {Absent} \cup AssignedTo("chaincode")
        ELSE Enforces(sent.policy, sent.parameter)

\* What a collection that is sent says of the one that was configured.
CollectionSays(c, config) ==
    /\ \A signers \in SUBSET {[msp |-> o, role |-> "member"] : o \in MspIds} :
           Accepts(config.member_orgs, signers) <=>
               \E o \in ToSet(c.identities) : [msp |-> o, role |-> "member"] \in signers
    /\ config.member_only_read = (c.memberOnlyRead # FALSE)
    /\ config.member_only_write = (c.memberOnlyWrite # FALSE)
    /\ c.maximum = Absent \/ c.maximum >= c.required => config.maximum >= config.required
    /\ IF c.endorsementPolicy = Absent
       THEN config.endorsement_policy \in {Absent} \cup AssignedTo("collection")
       ELSE Enforces(c.endorsementPolicy, config.endorsement_policy)

\* A collection of a request is one of the organisations that were named and of
\* no others, for its members alone to read and to write unless its caller said
\* otherwise, with as many peers to be reached as are required, and under the
\* endorsement policy written for it; a request without one has none or one that
\* was taken back, and a collection without a policy likewise
\* (nodejs/chaincodeOperation.js:92-101); and the request says of initialisation
\* what this call does.
CollectionKept ==
    sent # Absent =>
        /\ sent.init_required = sent.init
        /\ IF sent.collection = Absent THEN sent.package \in {Absent} \cup packages
           ELSE CollectionSays(sent.collection, sent.package.config)

\* A collections_config.json (nodejs/formatter/SideDB.js:84-126) gives a
\* collection the organisations that its policy names.
CollectionAsWritten ==
    package # Absent /\ package.from \in Standards =>
        {p.msp : p \in Principals(package.from)} = {p.msp : p \in ToSet(package.config.member_orgs.identities)}
=============================================================================

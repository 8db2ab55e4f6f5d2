---------------------------- MODULE MCFormatter ----------------------------
(***************************************************************************)
(* Instances of ConfigFactory and Policies, which share nothing: a         *)
(* behaviour is one of either, the other staying where it starts.          *)
(***************************************************************************)
EXTENDS ConfigFactory, Policies

CONSTANTS A, B, C, D, o1, o2, cert, peers1, peers2, options, raft1

Member(msp) == [msp |-> msp, role |-> "member"]
Admin(msp) == [msp |-> msp, role |-> "admin"]
Gate(gate, items) == [gate |-> gate, items |-> items]
Text(gate, items, spaced) == [gate |-> gate, items |-> items, spaced |-> spaced]

\* Items of each form: principals, well and badly named, gates over one, two
\* and three of them.
Firsts == {Member(A), Gate("OR", <<Member(C)>>)}
Items ==
    {Member(B), Member(C), Admin(A), Gate("AND", <<Member(B)>>),
     Gate("AND", <<Member(A), Member(B)>>), Gate("OR", <<Member(A), Admin(B), Member(B)>>)}

Texts ==
    {Text(g, <<i, j>>, b) : g \in {"AND", "OR"}, i \in Firsts, j \in Items, b \in BOOLEAN}
    \cup {Text("OR", <<i>>, TRUE) : i \in Items}
    \cup {Text("OR", <<Member(A), Member(B), Member(A)>>, FALSE), Text("AND", <<Member(D)>>, FALSE)}

GateOf(text) == [json |-> Absent, gate |-> text, reference |-> Absent]
JSONPolicy == [identities |-> <<Member(A), Member(B)>>,
               policy |-> [n |-> 1, of |-> <<[signedBy |-> 0], [n |-> 1, of |-> <<[signedBy |-> 1]>>]>>]]
OddPolicy == [JSONPolicy EXCEPT !.policy.n = Absent]

MCWritten ==
    {GateOf(t) : t \in Texts}
    \cup {[json |-> j, gate |-> Absent, reference |-> Absent] : j \in {JSONPolicy, OddPolicy}}
    \cup {[json |-> JSONPolicy, gate |-> Absent, reference |-> "/Channel/Application/Admins"],
          [json |-> Absent, gate |-> Absent, reference |-> "/Channel/Application/Endorsement"]}

CollectionPolicies ==
    {Absent, GateOf(Text("AND", <<Member(A)>>, FALSE)), GateOf(Text("AND", <<Member(D)>>, FALSE))}

MCCollections ==
    {[identities |-> <<A, B>>, required |-> 1, maximum |-> m, memberOnlyRead |-> only[1],
      memberOnlyWrite |-> only[2], endorsementPolicy |-> p] :
        m \in {Absent, 0, 2}, only \in {<<Absent, FALSE>>, <<TRUE, Absent>>, <<FALSE, TRUE>>},
        p \in CollectionPolicies}

MCStandards == {Text("OR", <<Member(A), Member(B)>>, FALSE), Text("AND", <<Member(D)>>, FALSE)}

\* The first example of nodejs/formatter/SideDB.js:84-105, with its blank.
ExampleStandards == {Text("OR", <<Member(A), Member(B)>>, TRUE)}

MCOrgArguments == {[mspid |-> A, admins |-> {cert}, roots |-> {cert}],
                   [mspid |-> B, admins |-> {}, roots |-> {}]}

MCOriginal ==
    [org |-> [g \in Groups |-> [o \in Orgs |->
                IF o = o1 THEN [mspid |-> A, admins |-> {}, roots |-> {}, anchorPeers |-> None] ELSE None]],
     admins |-> [g \in Groups |-> None], capability |-> None, addresses |-> <<>>,
     type |-> "kafka", kafkaBrokers |-> TRUE, metadata |-> None, state |-> "STATE_NORMAL"]

Init == ConfigInit /\ PoliciesInit

Next ==
    \/ ConfigNext /\ settings = 0 /\ sent = Absent /\ UNCHANGED policyVars
    \/ PoliciesNext /\ edits = 0 /\ UNCHANGED configVars

Spec == Init /\ [][Next]_<<configVars, policyVars>>
=============================================================================

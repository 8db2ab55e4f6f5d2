--------------------------- MODULE ConfigFactory ---------------------------
(***************************************************************************)
(* nodejs/formatter/configFactory.js: a channel's configuration as a JSON  *)
(* document, and the edits a caller chains on it before build() gives the  *)
(* document to configtxlator.  An edit is a function of the document; it   *)
(* changes its part, or throws before it has changed anything.             *)
(*                                                                         *)
(* Of the document there is what the edits read or write: organisations in *)
(* the groups, the groups' Admins policy, and the values of the orderers.  *)
(* A certificate is a name, and the file that an edit encodes is another.  *)
(***************************************************************************)
EXTENDS Integers, SequencesExt

CONSTANTS
    Groups,      \* "Application" and "Orderer"
    Orgs,
    MSPs,
    Certs,       \* paths of certificates
    OrgArguments, \* of createOrUpdateOrg: an MSP id and certificates
    AnchorPeers, \* lists of anchor peers
    Versions,    \* of capabilities
    Addresses,   \* of orderers
    Consenters,  \* lists of consenters
    Options,     \* of etcdraft
    DefaultOptions,
    None,        \* what a document lacks or an argument leaves out
    Original,    \* the document the factory starts from
    MaxEdits     \* bound on the edits of one factory

VARIABLES
    config,  \* newConfig
    before,  \* the document before the last edit
    last,    \* the last edit
    edits

configVars == <<config, before, last, edits>>

\* A PEM file by its base64 text.
ToBase64(path) == [base64 |-> path]

\* An organisation by its MSP id, which its three policies name as well, the
\* administrators and roots of its MSP, and its anchor peers.
Org == [mspid: MSPs, admins: SUBSET {ToBase64(c) : c \in Certs},
        roots: SUBSET {ToBase64(c) : c \in Certs}, anchorPeers: AnchorPeers \cup {None}]

Metadata == [consenters: [encoded: BOOLEAN, of: Consenters],
             options: Options \cup {DefaultOptions}]

Config == [org: [Groups -> [Orgs -> Org \cup {None}]],
           admins: [Groups -> MSPs \cup {None}],   \* None: the policy it was created with
           capability: Versions \cup {None},
           addresses: Seq(Addresses),
           type: {"kafka", "etcdraft"}, kafkaBrokers: BOOLEAN,
           metadata: Metadata \cup {None},
           state: {"STATE_NORMAL", "STATE_MAINTENANCE"}]

ASSUME ConfigFactoryAssumption ==
    /\ "Application" \in Groups
    /\ Original \in Config
    /\ OrgArguments \subseteq [mspid: MSPs, admins: SUBSET Certs, roots: SUBSET Certs]
    /\ None \notin Org \cup MSPs \cup Versions \cup Metadata \cup AnchorPeers \cup Consenters \cup Options
    /\ MaxEdits \in Nat
-----------------------------------------------------------------------------
\* The edits as functions of the document.
DeleteMSP(c, g, o) == [c EXCEPT !.org[g][o] = None]

AssignDictator(c, g, mspid) == [c EXCEPT !.admins[g] = mspid]

GetOrg(c, g, o) == c.org[g][o]

\* Array.find takes a function: with a certificate it throws, even on an empty
\* array, so that addAdmin either skips or throws.
AddAdminThrows(c, g, o) == GetOrg(c, g, o) # None

SetAnchorPeers(c, o, peers) == [c EXCEPT !.org["Application"][o].anchorPeers = peers]

SetAnchorPeersThrows(c, o) == GetOrg(c, "Application", o) = None

\* Mutant: the organisations of the group are replaced with the one.
CreateOnlyOrg(c, g, o, new, skip) ==
    [c EXCEPT !.org[g] = [p \in Orgs |-> IF p = o THEN new ELSE None]]

\* The organisation is replaced as a whole, its anchor peers with it.
CreateOrUpdateOrg(c, g, o, new, skip) ==
    IF skip /\ GetOrg(c, g, o) # None THEN c ELSE [c EXCEPT !.org[g][o] = new]

NewOrg(mspid, admins, roots) ==
    [mspid |-> mspid, admins |-> {ToBase64(a) : a \in admins},
     roots |-> {ToBase64(r) : r \in roots}, anchorPeers |-> None]

SetCapability(c, version) == [c EXCEPT !.capability = version]

\* Mutant: the address is added without a look at those there are.
PushOrdererAddress(c, address) == [c EXCEPT !.addresses = Append(@, address)]

AddOrdererAddress(c, address) ==
    [c EXCEPT !.addresses = IF Contains(@, address) THEN @ ELSE Append(@, address)]

\* Another type than etcdraft throws.
SetConsensusType(c) == [c EXCEPT !.type = "etcdraft", !.kafkaBrokers = FALSE]

\* Certificates are encoded if there was no metadata, and left as they are
\* given if there was.
SetConsensusMetadata(c, consenters, options) ==
    [c EXCEPT !.metadata =
        IF @ = None
        THEN [consenters |-> [encoded |-> TRUE, of |-> consenters],
              options |-> IF options = None THEN DefaultOptions ELSE options]
        ELSE [consenters |-> IF consenters = None THEN @.consenters
                             ELSE [encoded |-> FALSE, of |-> consenters],
              options |-> IF options = None THEN @.options ELSE options]]

MetadataThrows(c, consenters) == c.metadata = None /\ consenters = None

MaintenanceMode(c, in) == [c EXCEPT !.state = IF in THEN "STATE_MAINTENANCE" ELSE "STATE_NORMAL"]
-----------------------------------------------------------------------------
\* The calls, with their arguments.
Edits ==
    [op: {"deleteMSP", "addAdmin"}, group: Groups, org: Orgs]
    \cup [op: {"assignDictator"}, group: Groups, mspid: MSPs]
    \cup [op: {"setAnchorPeers"}, org: Orgs, peers: AnchorPeers]
    \cup [op: {"createOrUpdateOrg"}, group: Groups, org: Orgs, skip: BOOLEAN,
          new: {NewOrg(a.mspid, a.admins, a.roots) : a \in OrgArguments}]
    \cup [op: {"setCapability"}, version: Versions]
    \cup [op: {"addOrdererAddress"}, address: Addresses]
    \cup [op: {"setConsensusType"}, type: {"kafka", "etcdraft"}]
    \cup [op: {"setConsensusMetadata"}, consenters: Consenters \cup {None}, options: Options \cup {None}]
    \cup [op: {"maintenanceMode"}, in: BOOLEAN]

Throws(e, c) ==
    \/ e.op = "addAdmin" /\ AddAdminThrows(c, e.group, e.org)
    \/ e.op = "setAnchorPeers" /\ SetAnchorPeersThrows(c, e.org)
    \/ e.op = "setConsensusType" /\ e.type # "etcdraft"
    \/ e.op = "setConsensusMetadata" /\ MetadataThrows(c, e.consenters)

Apply(e, c) ==
    IF Throws(e, c) THEN c ELSE
    CASE e.op = "addAdmin" -> c
      [] e.op = "deleteMSP" -> DeleteMSP(c, e.group, e.org)
      [] e.op = "assignDictator" -> AssignDictator(c, e.group, e.mspid)
      [] e.op = "setAnchorPeers" -> SetAnchorPeers(c, e.org, e.peers)
      [] e.op = "createOrUpdateOrg" -> CreateOrUpdateOrg(c, e.group, e.org, e.new, e.skip)
      [] e.op = "setCapability" -> SetCapability(c, e.version)
      [] e.op = "addOrdererAddress" -> AddOrdererAddress(c, e.address)
      [] e.op = "setConsensusType" -> SetConsensusType(c)
      [] e.op = "setConsensusMetadata" -> SetConsensusMetadata(c, e.consenters, e.options)
      [] e.op = "maintenanceMode" -> MaintenanceMode(c, e.in)

ConfigInit ==
    /\ config = Original
    /\ before = Original
    /\ last = None
    /\ edits = 0

Edit(e) ==
    /\ edits < MaxEdits /\ edits' = edits + 1
    /\ config' = Apply(e, config)
    /\ before' = config
    /\ last' = e

ConfigNext == \E e \in Edits : Edit(e)

ConfigSpec == ConfigInit /\ [][ConfigNext]_configVars
-----------------------------------------------------------------------------
ConfigTypeOK ==
    /\ config \in Config
    /\ before \in Config
    /\ last \in Edits \cup {None}
    /\ edits \in 0..MaxEdits

\* An edit is safe to repeat, as a caller does whose update was refused: the
\* second time changes nothing, except that setConsensusMetadata leaves the
\* certificates unencoded then (nodejs/formatter/configFactory.js:309-338).
RepeatIsHarmless ==
    last # None =>
        \/ Apply(last, config) = config
        \/ last.op = "setConsensusMetadata" /\ last.consenters # None

\* What part of the document an edit is about: an organisation and its anchor
\* peers are one, the consensus type and metadata are two.
Subject(e) ==
    IF e.op \in {"deleteMSP", "addAdmin", "createOrUpdateOrg"} THEN <<e.group, e.org>>
    ELSE IF e.op = "setAnchorPeers" THEN <<"Application", e.org>>
    ELSE IF e.op = "assignDictator" THEN <<e.group, "Admins">>
    ELSE <<"values", e.op>>

\* Edits of different parts may be chained in any order: neither what the two
\* make of the document nor whether they throw depends on it.
EditsCommute ==
    last # None => \A e \in Edits : Subject(e) # Subject(last) =>
        /\ Apply(e, config) = Apply(last, Apply(e, before))
        /\ Throws(e, config) <=> Throws(e, before)
        /\ Throws(last, before) <=> Throws(last, Apply(e, before))
=============================================================================

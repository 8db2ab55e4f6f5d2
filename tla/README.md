# Verification of fabric-common

TLA+ models of the parts of fabric-common that carry its logic, TLC runs that
check them on small instances, and TLAPS proofs for every value of the
constants. `PROJECT.json` holds the index: components, runs, the mutant that
shows each property can fail, the map from definitions to source lines,
findings, hazards and theorems. Paths below are relative to `src/`.

To check one run: `tlc -config Transaction.cfg MCTransaction`. To check the
proofs: `tlapm TransactionProofs.tla`, and so for each module named `...Proofs`.

## 1. Inventory

fabric-common is a client-side toolkit for Hyperledger Fabric: JavaScript
(`nodejs/`), Go (`golang/`), a little Java, and shell wrappers. The program keeps
no server; what makes it hard is that its objects keep state between calls, that
its calls interleave at every `await` (or goroutine), and that peers, orderers and
the CA fail, lag and answer late.

| Component | State | Operations | What makes it correct |
|---|---|---|---|
| Transaction (`nodejs/transaction.js`, `admin/proposal.js`, `admin/resultInterceptors.js`) | the proposal object: identity context (transaction id), payload, signature, collected endorsements; the eventers of its peers | `evaluate`, `submit` with or without finality | what is broadcast is the caller's transaction with every endorsement; a finality is the ledger's; a call ends; the eventer is free after it |
| Event hub (`nodejs/eventHub.js`, `admin/eventHub.js`) | seek payload and signature, stream, listeners | build, connect, disconnect, six queries | a promise resolves with the block its query is about, and settles; no listener stays behind |
| Lifecycle (`nodejs/chaincodeOperation.js`, `admin/lifecycleProposal.js`) | endorsement policy, validation parameter, result handler, commit assertion, all kept between calls | install, approve, check readiness, commit, query | what is reported approved, defined, installed is so, although peers lag and calls are retried |
| CA material (`nodejs/ca/*.js`, `path.js`, `user.js`) | files on disk; identities and affiliations at the CA | init, genOrderer, genPeer, genUser, genOrg, genClientKeyPair | a key belongs to its certificate; repeating a failed generation completes it |
| Channel configuration (`nodejs/channelConfig.js`, `channel.js`, `admin/channelUpdate.js`) | none of its own; the channel is shared by all organisations | setAnchorPeers, getChannelConfigFromOrderer | what is read was in force; a return means the update took effect |
| Orderer delivery (`nodejs/admin/orderer.js`, `admin/signingIdentity.js`) | per attempt: stream, timer, responses, promise | sendDeliver, getSpecificBlock; connect, reset, ping, join | one answer, the block that was asked for; no open stream; no endless wait |
| Queries and joining (`nodejs/query.js`, `admin/CSCCProposal.js`, `admin/QSCCProposal.js`) | none between calls | join, joinWithFile, joinWithFetch, tx, and queries of one request | an answer over several peers hides none of them; a join can be repeated |
| Connections (`nodejs/admin/peer.js`, `admin/orderer.js`, `chaincodeAction.js`) | per service endpoint: a client and a flag; the stream of an eventer | connect, disconnect, ping, connectStream, disconnectStream; the same over all endpoints of an action | an endpoint that says connected has a client; a connect that returned holds one for each endpoint; a failed connect can be made up for |
| Go client (`golang/event`, `golang/committer.go`) | one stream per committer and per listener | broadcast, wait for a transaction | a verdict is the transaction's own; each envelope has an answer |
| Configuration editing (`nodejs/formatter/configFactory.js`) | the document under edit | ten edits that are chained in any order, then build | an edit can be repeated, and edits of different parts exchanged |
| Endorsement policies (`formatter/gatePolicy.js`, `policy.js`, `policyProtoTranslator.js`, `SideDB.js`, `chaincodeOperation.js`) | policy, collection and flag of an operation and of its proposal | set, assign, send; parse, translate and decode | signers satisfy what is sent if and only if they satisfy what was written; a collection is its organisations' |
| Service discovery, packaging, containers, command lines, gateway, formatters, protocol encoding, Java and shell wrappers | none between calls | one request or one process each | not modelled, section 7 |

How they interact. A `Transaction` calls its `ProposalManager` (endorse, then
commit), then an `EventHubQuery` on a new `EventHub` over a peer's `Eventer`, which
other transactions over the same peer use too. `ChaincodeLifecycleOperation` calls a
`LifecycleProposal`, which is a `ProposalManager`, and waits with the same
`EventHubQuery`. `ChannelConfig` reads through `SigningIdentityUtil` from an
`Orderer` and waits for a block of an event hub; `joinWithFetch` reads the genesis
block through the same and sends it to the endorsers. All of them run on the
endpoints of `Peer` and `Orderer` objects, which a `ChaincodeAction` connects and
disconnects and other callers share. An operation's policies and collections are
translated by the formatter when the operation assigns them to its proposal. CA,
configuration editing and Go client share no state with the rest.

Hard behaviours: interleaving on shared objects at awaits (transaction, config);
state a call leaves for the next one (lifecycle handlers, hub listeners, Go
streams); timers racing late answers (orderer delivery, commit); `connect()` and
`build()` that nobody awaits (event hub); crashes between two files (CA); some of
several peers failing (proposal, install, join); waits that start too late
(`NEWEST` after the broadcast); clients that are opened, closed and replaced while
another call waits for them (connections). `PROJECT.json` "hazards" lists them, each at its line,
with the properties that watch it.

## 2. Modules

Every module that models code has an `MC` module which gives its function-valued
constants concrete values. They are written for TLC and for proofs alike:
parameters are CONSTANTS under a named assumption, and one action stands for one
piece of code between two awaits. No module has RECURSIVE operators: policies, which nest,
are modelled as deep as a gate in a gate, with one operator for each depth.

| Module | Models | State and actions |
|---|---|---|
| `ResultInterceptors` | SanCheck, EndorseALL, CommitSuccess | operators; a result is a function from endorsers to responses, `SystemError` stands for an entry of `errors` |
| `Transaction` | one call of evaluate or submit per element of `Calls` | `proposal` is what the object holds: the transaction it was built for, and which endorser endorsed which transaction; `Send` or `BuildForSigning` and `SignAndSend`, `Judge`, `Commit` or `BuildCommit` and `SignCommit`, `SignFails`, `CommitAnswered`, `CommitTimedOut`, `WaitForTx`, `ReceiveBlock`, `StreamBroken`, `Disconnect` |
| `SubmitContract` | what submit promises: one answer, "sent" only for a transaction of the caller's that the orderer took, finality about the caller's own transaction | refined by `Transaction` |
| `EventHub` | one hub and a series of queries on it | `Build` and `Connect` are part of `Query`, as the code runs them without an await; `SignatureArrives` is the rest of an asynchronous build; `ReceiveBlock` is the callbacks |
| `Lifecycle` | operation objects of several organisations | what each call leaves on the object (`policy`, `parameter`, `handler`, `asserting`), and what its caller `wish`ed; a package is where a peer answered an install; the `_lifecycle` chaincode is derived from the ledger a peer has seen |
| `CryptoGen` | runs of init, genOrderer, genPeer, genUser, genOrg, genClientKeyPair | the files of an identity, each with the enrollment it comes from; `WriteFile` one by one, the directory of keys among them, `Crash` and `RequestFails` anywhere; `ExistThrows` is the existence test without that directory; `After` is the order in which a caller awaits them |
| `ChannelConfig` | concurrent calls of setAnchorPeers | a block names the configuration block in force; read, compute, submit, wait, read again, each its own step, which may fail (`RequestFails`, `Throws`) or go silent (`ReadGoesSilent`, `WaitGoesSilent`) |
| `OrdererDeliver` | attempts of sendDeliver under getSpecificBlock | `OnBlock`, `OnStatus`, `OnEnd`, `OnError`, `OnTimeout` in any order the stream allows |
| `BlockRead` | what getSpecificBlock promises: one answer, a block that was asked for | refined by `OrdererDeliver` |
| `GoFinality` | goroutines on shared committers and listeners | a committer's queue of envelopes and answers, a listener's stream and its next block; either stream may break (`BroadcastBreaks`, `StreamBreaks`), a listener's may also end (`StreamEnds`) |
| `QueryHub` | join, joinWithFile, joinWithFetch, tx over several peers | `Start` is ProposalManager.send, `JoinAnswered` and `TxAnswered` judge the responses together |
| `Connections` | calls on the endpoints of a peer or an orderer and of a chaincode action | `service` and `connected` per endpoint; a call is `at` an endpoint of its path or `waiting` for a client, which `Ready`, `Deadline` and `WaitClosed` end |
| `ConfigFactory` | edits of a configuration document | `Apply` and `Throws` are the edits as functions of the document; `config`, `last` and `before` are the chain |
| `Policies` | policies and collections of an operation and its requests | parsing and translation as operators, the setters and `Assign` as actions; `written` is the policy that assign writes into the caller's collection configuration |
| `TransactionProofs`, `LifecycleProofs`, `ChannelConfigProofs`, `OrdererDeliverProofs`, `QueryHubProofs`, `GoFinalityProofs`, `ConnectionsProofs`, `ToolkitProofs` | theorems; `ToolkitProofs` has those of `EventHub`, `ConfigFactory`, `CryptoGen` and `Policies`, which share nothing | section 6 |

Composition: `Transaction` uses `ResultInterceptors` and holds its event hub's
`waitForTx` and stream itself, because the wait reads the proposal object;
`Lifecycle` and `QueryHub` use the same operators on responses. `Lifecycle` takes
from `Transaction` that a wait ends with the transaction seen or fails, and
`ChannelConfig` and `QueryHub` take from `OrdererDeliver` that a read yields the
block asked for or an error (`BlockRead`); `ChannelConfig` also takes over what its liveness
names, a read that goes silent. `Connections` is composed of a peer's own
calls and an action's over the same endpoints. `MCFormatter` puts `ConfigFactory` and
`Policies`, which share nothing, side by side.

External code (fabric-network's `Proposal.send`, `Eventer`, `EventService`; peers,
orderers, the CA) is modelled from how the code uses it: it may answer, refuse,
be silent, break a stream or order blocks at any time.

## 3. Runs

Each run has a configuration of the same name. "States" are distinct states.

| Run | Instance and bounds | What it shows |
|---|---|---|
| `transaction` | a submit and a submit with finality one after the other on an object that signs offline, and a submit with finality on another object, which contend for one eventer; two endorsers; one block of others | the envelope is the call's own with the endorsement of each endorser; finality that is reported is in the ledger; `SubmitContract` is implemented; each call ends but for the two hangs below, and the eventer gets free but for the second of them (305,000) |
| `hub` | one query of each kind, in any order, with and without a signing process, chains of up to 3 blocks | answers fit the queries, no listener is left, each query settles but for the ways its comment names (680,000) |
| `lifecycle` | A approves, then approves another policy or commits, over one peer; B makes two calls, of every kind between them, on one object over two peers; a peer is one transaction behind at most | a definition that is done was approved by all, also when two commits race, approvals and installs are real, stale handlers harm nothing (2.1 million) |
| `crypto` | two inits on one CA at the same time; after one of them a peer with a secret and TLS, and its organisation's TLS root; then a user and a client without a secret; one failure | pairs match, affiliations exist, repetition completes but for the crash of section 5 (256,000) |
| `crypto_tls` | one orderer, one failure | violation: the TLS material is never made up for |
| `config` | three updates of one organisation, two with the same wish, one block of others | reads are snapshots, returns mean set, a mismatch means overtaken, calls end but for the hangs below (620,000) |
| `deliver` | two reads, one of the newest block and one by number with retries; three blocks; availability flips at any time | every attempt under way has its timer or a stream that ended in silence, `BlockRead` is implemented, reads are answered once there is an orderer (122,000) |
| `gofinality` | two transactions over one committer and one full-block listener, whose streams may fail or end; two blocks of others | verdicts are the transaction's own, answers and envelopes balance, waits not too late end (940,000) |
| `queryhub` | a join to two peers, a joinWithFetch to one of them, a look-up; two failures | a join that returns left all with the channel, repetition gets there, look-ups are answered from the ledgers (370,000) |
| `connections` | connect, ping, connectStream and then disconnectStream of a peer, disconnect, and connect and disconnect of an action, over an endorser and an eventer; one client misses its deadline | a flag has its client, a connect that returned holds its endpoints, each call ends but for the hang below (138,000) |
| `formatter` | chains of three of all edits with two organisations; two settings of policies and collections with requests between them | an edit is safe to repeat, edits of different parts commute, a request carries the policy and the collection that its caller set (65,000) |
| `policies_written` | the collection example of the source, with a blank after its comma | violation: it loses all organisations but the first |

Why the bounds are enough. `MaxNoise` lets other clients make a block before,
between and after the steps of a call: one such block is what "newest" has to be
wrong about, two are used where a stream is used twice. `MaxHeight` of 3 lets a
target block lie behind, at and ahead of the newest. `MaxFailures` is what a retry
needs: one failure to leave a state behind, a second one to hit its repair.
`MaxSequence` is 1 in `lifecycle` because two organisations racing for one sequence
is the conflict, and `MaxLag` is 1 because a peer that lacks the last transaction is
enough for an endorsement to be out of date when it is ordered; `MaxEdits` of 3 is an edit, one that it meets, and the repetition or
exchange of either, which the properties apply on top; `MaxSettings` of 2 sets a
policy and takes it back, or sets two; two calls on an object (`Uses`) are the shortest history in which a call finds what
another one left on it. Two endorsers are one that agrees and one that
does not. Deadlock is not checked: every instance has finitely many calls, and
stops when all have returned (or hang in one of the ways the properties name).

## 4. Fairness

Fairness is weak and only where the code or its runtime ensures it: the event loop
runs a continuation that is ready, a timer that is set fires, a sleep ends
(`Fairness` of `Transaction`, `CryptoFairSpec` of `CryptoGen`, `FairSpec` of the others). Requests with a timeout
(endorsement, broadcast) end with an answer or with the timeout. Of the
environment it is assumed that a peer sends the blocks it has and that an orderer
puts what it accepted into a block; `OrdererDeliver` assumes nothing of the orderer
and states its liveness under `<>[]available`. `CryptoGen` and `QueryHub` assume a
caller who repeats what failed, `Connections` one who disconnects after a connect
that threw and connects again, and all three failures that end (`MaxFailures`). No fairness
is given to callers' first calls elsewhere, to failures, or to other clients.

What may wait for good, stated as exceptions in the liveness properties:

- `Transaction.submit` with finality when `connect()` fails, which nobody awaits, or
  when the block came and a newer one too before the stream opened at NEWEST;
- event hub queries whose callback ignores errors, when the stream breaks;
- `setAnchorPeers` with finality whose update was dropped, until somebody makes a block, and
  `setAnchorPeers` when a read of it ends without a status or the `connect()` of a wait is rejected;
- `sendDeliver` whose stream ends without a status: `end` clears the timer;
- `disconnectStream` of a stream that has ended: it waits for an error that came before;
- `WaitForTx` of the Go listener for a block before the newest, or before the
  position of its stream.

One thing never gets done however often it is repeated, and `EventuallyGenerated` names
it: a node whose certificate was written and whose directory of keys was not (section 5).

## 5. Findings

Where the code disagrees with what its own text says:

1. `nodejs/ca/ca-crypto-gen.js:140` (run `crypto_tls`): a failure between an orderer's
   MSP and its TLS enrolment is never repaired, as the next run returns early.
2. `nodejs/formatter/gatePolicy.js:82` (run `policies_written`): what follows a comma and
   a blank in a gate is not matched and is left out without an error, so that the
   example at `nodejs/formatter/SideDB.js:89` makes a collection of one organisation.

What the models had to take in, where no text says otherwise:

- `nodejs/eventHub.js:29`: queries do not await `build`, so with a signing process
  `connect` sends a seek that is unsigned or has the signature of the query before.
- `nodejs/channelConfig.js:120`: finality is the next block, whoever's it is; the check
  after it then throws although the update may still succeed (`MismatchIsOvertaken`).
- `nodejs/formatter/configFactory.js`: `addAdmin` on an organisation that exists always throws
  (`Array.find` of a string); `createOrUpdateOrg` drops the anchor peers of the organisation
  it replaces; `setConsensusMetadata` encodes certificates the first time only.
- `nodejs/formatter/gatePolicy.js`: a nested gate is split at its commas as well, and an AND
  of which no item is matched is a rule that everybody satisfies.
- `nodejs/path.js:204`: `MSPKeystore` reads the directory of keys, which only `toKeystore` makes.
  After a crash between the certificate and that directory, `cryptoExistLocal` throws in every
  later run (`ExistThrows`), and nothing generates the node again until somebody removes the certificate.
- `nodejs/chaincodeOperation.js:88`: a policy that is taken back stays on the proposal; and
  `nodejs/chaincodeOperation.js:96` writes the policy of a collection into the caller's
  configuration, where it stays when the caller takes it back.
- `nodejs/query.js:38`: a look-up answers that a transaction is not found although one of the peers
  returned it, if all that refuse say so (`TxAnswerIsReal` permits it).
- `nodejs/admin/peer.js:78`: connect passes an endpoint over that holds a client, also when
  the client never became ready; ping, connectStream and connect replace a client without closing it,
  which is what `lost` stands for in `FlagIsBacked` and `ReturnMeansHeld`.

## 6. Proofs

`TransactionProofs`, for any sets of calls, objects, eventers, endorsers and any bound:

- `TypeCorrect`: type invariant, step by step over the actions.
- `FinalityReal`, `EventersExclusive` (no two calls stream on one eventer; no run states it): from the invariant `FinalityInv`, which is
  `TypeOK` with `CallShape` (what the place of a call says of its answer, stream and
  verdict), `VerdictIsReal` (a verdict is recorded in the ledger) and `StreamsApart`.
  `FinalityIsReal` alone is not inductive: an answer is a copy of the verdict, and the
  verdict comes from a block that has to stay where it is (`ChainStep`).
- `EnvelopesOwn`, `OwnCommitted`: under `OneAtATime` (callers await a call before the
  next on the object), from `OwnInv`: one call runs on an object (`OneRunning`), and from
  its first step to its last the object holds that call's transaction, with no endorsement when it is
  sent and one of each endorser after `EndorseALL` let it pass (`HoldsOwn`).
- `Refinement`: `Spec => ImplementsContract` under `OneAtATime`; a call's return maps to
  `Answer`, an envelope that the orderer takes to `Take`, a block to `Record`, all else to a stutter.

`LifecycleProofs`, for any operations, organisations, peers, policies and bounds:

- `TypeCorrect`, `ApprovalReal`, `DefinitionApproved`, `HandlerHarmless`, `InstallEverywhere`: from one
  invariant. An envelope, and an entry of the ledger, is about what its call asked for until the
  next call of the operation (`OfItsCall`); the envelope of a commit carries reads of every endorser in
  which it was committable (`Endorsements`), which rests on what handlers can hold (`Passing`, `Passed`); a valid
  commit in the ledger defines the sequence the world state has there (`Defined`). The step
  that matters is `Order`: an entry is valid only if the reads still hold
  (`ValidMeansCommittable`), and then it counts one further (`CommitDefines`). Appending leaves the world state of
  every earlier place alone (`WorldKept`). An install returns only where each answer is an endorsement, by which the
  peer has the package, or the refusal of a peer that had it (`InstallResponse`). That an approval is of what the caller
  wished needs no ledger (`WishedInvariant`), and that no second commit defines the sequence is `OneOfEach`.
- `DefinedOnce`: of commits that race for a sequence one at most defines it. No run states this;
  it follows from `Defined`, as the sequence grows with every valid commit (`SequenceGrows`), and is
  part of the argument for `DefinitionApproved`.

`OrdererDeliverProofs`, for any calls, positions, retries and blocks:

- `TypeCorrect`, `AttemptsGuarded`: from an invariant for each call: what came and what is on the
  wire is a block that was asked for, first, and a success after it (`InOrder`); how much that is
  follows from where the orderer is (`Sent`); and an orderer that is done leaves a status to come, or a silent
  end (`StatusToCome`). Without `InOrder`, a success without a block would answer `undefined`.
- `Refinement`: `Spec => ImplementsBlockRead`. The step that answers a call maps to the answer of the
  contract, a block of the channel to its growth, all else to a stutter.

`ChannelConfigProofs`, for any organisations, updates and bound:

- `TypeCorrect`: with `ChainOK`, every block points at a configuration block that is there.
- `SnapshotIsRead`: from `Inv`, which adds `IndexRead` (the index a call holds is the one
  in force when it read it); it needs that blocks keep their places (`ChainKeeps`).
- `ReturnIsSet`: from `Inv` as the invariant of each step (`AnswerStep`): a call returns
  normally only after a read that shows its anchor peers.
- `MismatchMeansOvertaken`: from `OwnInv`, by which a call submits what it wants
  (`SubmitsWanted`), reads again what is newer than what it read before (`ReadsAfter`), and has
  its anchor peers in force from its own block on, in whatever blocks follow, unless a later block of
  another call set its organisation's to others (`OwnHolds`, `Changed`). Where the check fails, the
  first block it waited for is not its own, or such a block lies between that one and the one it
  read (`CheckFinds`), and that stays so (`OvertakenStays`).

`QueryHubProofs`, for any calls, peers and failures:

- `TypeCorrect`, `JoinIsJoined`, `TxIsReal`: from one invariant that adds to the type what
  a response says of the peer it is from (`JoinResponsesReal`, `TxResponsesReal`) and that a
  join by which a peer creates its channel still waits for that peer (`CreatorsWait`). The properties speak of
  the answers alone, and an answer is made of responses that came at different times.

`ConnectionsProofs`, for any endpoints, calls and paths over them, and any number of clients
that miss their deadline:

- `TypeCorrect`, `FlagsBacked`: from one invariant for each call. A late `Ready` sets the flag of the
  endpoint its call is at, so that a flag can only be backed if whoever waits does so for the client that is
  there, or for one that was replaced (`Placed`), and if none is dropped but by a disconnect, which ends the
  waits for it (`Keeps`, `Unmoved`).
- `ReturnHeld`: what a connect has passed is backed unless a disconnect came in (`PassedBacked`); it
  returns only where no endpoint that is not connected is left (`ConnectReturns`).
  `FlagIsBacked` alone does not give it: a call is at one endpoint and its answer is about all.

`ToolkitProofs`, of `EventHub`, for any series of queries on a hub, any arguments and any length of chain:

- `TypeCorrect`, `AnswersFit`, `HubClean`: from one invariant for each query. The query that waits is the one
  whose seek was sent (`Alone`), its stream is as far ahead as its callback kept blocks
  (`Follows`), and nothing is kept before the stream opens (`KeptNone`). `AnswerFitsQuery` speaks
  of promises that are resolved, and says nothing of the blocks on their way to that; and
  a listener of an earlier query would take blocks of a later one's stream, so that
  `HubIsClean` is part of the argument.

`ToolkitProofs`, of `CryptoGen`, for any runs, identities, roles and number of failures:

- `MaterialTypeCorrect`, `AffiliationsThere`: from `MaterialInv`. Affiliations are not taken back, and an init is at
  the second or third only if those before are there (`Affiliated`), whoever created them.
- `PairsMatch`: under `OneRunEach` (no two runs are for the same node or user). It is needed: two runs of
  genUser for one user can both find no key, and when the first returns, the second has already
  overwritten its certificate (TLC shows it in twelve steps). The repository has no caller
  that would say how it is used; the instances have one run for an identity. The
  invariant says how far the pair has got (`Pair`): a key is written after its certificate, and only where there
  is none, so that a crash between the two leaves a certificate without key, which the next run
  overwrites, or which makes it throw if the directory of keys is not there either. `PairMatches` speaks of runs that returned and is not inductive by itself.

`ToolkitProofs`, of `ConfigFactory`, for any document, organisations, values and number of edits:

- `ConfigTypeCorrect`: each edit keeps a configuration one (`EditKeepsConfig`).
- `RepeatsHarmless`: the invariant `ConfigInv` says that the document is what the last edit made
  of the one before; a lemma for each edit says that it is idempotent (`DeleteRepeats`,
  `CreateRepeats`, `MetadataRepeats`, ...).
- `PartsCommute`: one part of the document at a time. An edit leaves the parts that it does not
  edit (`OrgsPart`, `AdminsPart`, `ValuesPart`, ...), what it makes of its own part depends on nothing of the
  others', and whether it throws depends on its own part alone (`ThrowsByPart`).

`ToolkitProofs`, of `Policies`, for any texts, policies, collections and number of settings:

- `PoliciesKept`, `CollectionsKept`: from `PoliciesInv`, by which a request is made of what its caller had set
  or of what an earlier assign left on the proposal or in the configuration (`SentMade`, `LeftBehind`, `LeftBehindOneOf`).
  The rule of a collection is 1 of the members it names, and so accepts them and nobody else (`MembersAccepted`,
  `CollectionMade`); a reference wins over a policy that is set beside it (`OneOf`, `PolicyEnforced`). What remains is
  about one text. A plain one has one principal in each item, all of them seen (`PlainText`); its identities are its
  principals (`IdentitiesOf`), so that an index is decoded as the principal it was made for
  (`SignedByRead`), a rule as its item (`PlainRules`), and n of m rules as OR or AND of them (`Counting`).
  That pieces come in the order of the text, each once, is a fact about ranks: no two places of a finite set have
  as many places before them (`RanksDiffer`), so that `InOrder` reaches all of them (`InOrderOnto`).
- `IndicesAreTheirPrincipals`, for every text, plain or not: indices are in range and mean what they were
  made for, once each.
- `BlankKeepsFirst`, `PlainStandardsKept`: the finding of section 5 on blanks is no accident of the
  instance. Any text with blanks keeps at most its first principal, and plain texts keep every
  organisation. No run states these.

`PoliciesAssumption` says what a text is, gates over at least one item and the roles of the pattern
(`IsPolicy`), and what a collection is (`IsCollection`).

`GoFinalityProofs`, for any transactions, goroutines, committers, listeners and other blocks:

- `TypeCorrect`, `VerdictOwn`: from `LedgerInv`, by which an envelope is in one place at most, queued
  (`OnItsWay`), accepted (`OnceAccepted`) or in a block (`OnceOrdered`). Without it a
  verdict could change under a wait that returned: a second block with the transaction
  may decide otherwise on it.
- `AnswersEnough`: from `AnswersInv`, which counts the calls that wait for an answer against
  the envelopes and replies of their committer while its stream is up (`Counted`), and keeps the answers that were
  given apart from those to come (`RepliesOnce`, `AnswersGone`). It rests on `LedgerInv`: an envelope is
  queued once.

The assumptions are the modules' named ASSUMEs, which TLC evaluates in every run;
`OneAtATime` and `OneRunEach` where they are named. What a proof shows for every constant, the runs show on
their instance, so that the models the proofs are about are also exercised.

An attempt at a proof also corrected a property: `AnswerFitsQuery` said that a replay of n blocks
resolves with n. For n = 0 it resolves with one, as its callback keeps a block before
it counts (`nodejs/eventHub.js:156`); the property now says so. The instance asks for more.

Model-checked only: liveness under fairness, which is out of the prover's reach. Every
invariant, action property and refinement that a passing run checks is proved. `CollectionAsWritten`
does not hold; `PlainStandardsKept` is what is left of it.

## 7. Not modelled

- Containers, command lines, shell wrappers, packaging: options and external processes.
- Formatters (other than policies and configurations) and protocol buffers: encoding of
  data that the properties do not tell apart.
- The gateway wrapper and the Java classes: one call each of an external library.
- Service discovery: one request and the decoding of its answer.
- Of modelled components: chaincode events of the hub, `queryInstalledChaincodes`, update,
  deletion and revocation at the CA, joining an orderer over HTTP, digests and signatures of
  `golang/tape.go`; `PROJECT.json` "components" says it of each part. `Policies` nests gates,
  in texts and in JSON, once and knows principals by role only; `ConfigFactory` leaves `mod_policy` and version members out.
- An administrator's files during init: they are overwritten by each init, and nothing
  asks whether they are there, so that `PairMatches` says nothing of them.

## 8. Plan

Written in the order of importance: transaction submission and its contract, its
event hub, lifecycle, CA material, channel configuration, orderer delivery, the Go
client, joining; then connections, configuration editing and policies. Next:

1. Chaincode events and listeners that callers keep on a hub between queries.

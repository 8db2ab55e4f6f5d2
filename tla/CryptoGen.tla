------------------------------ MODULE CryptoGen ------------------------------
(***************************************************************************)
(* nodejs/ca/ca-crypto-gen.js: crypto material of admins, orderers, peers, *)
(* users and organisations, got from a Fabric CA and laid out on disk by   *)
(* CryptoPath (nodejs/path.js), and key pairs of clients, which are handed *)
(* to the caller.  A run of init, genOrderer, genPeer, genUser, genOrg or  *)
(* genClientKeyPair talks to the CA with an await each and writes files    *)
(* one by one; it may fail at a request, the process may end between two   *)
(* writes, and the caller may run it again or run two at a time.           *)
(*                                                                         *)
(* A file holds the number of its identity's enrollment that it comes      *)
(* from, 0 when it does not exist.  So does the directory of the key, which *)
(* is made right before the key.  The CA is the environment.               *)
(***************************************************************************)
EXTENDS Integers, Sequences, FiniteSets

CONSTANTS
    Runs,         \* processes that generate material
    Nodes,        \* the identities it is for
    NodeOf,       \* the identity a run is for
    After,        \* per run: those its caller waits for first, the init that
                  \* gives it its admin user or other generations
    Role,         \* per identity
    WithSecret,   \* the identities whose secret is configured or a parameter
    WithTLS,      \* the peers generated with TLS
    MaxFailures   \* bound on failed requests and crashes

Roles == {"admin", "orderer", "peer", "user", "org", "client"}

ASSUME CryptoGenAssumption ==
    /\ NodeOf \in [Runs -> Nodes]
    /\ After \in [Runs -> SUBSET Runs]
    /\ Role \in [Nodes -> Roles]
    /\ WithSecret \subseteq {n \in Nodes : Role[n] # "admin"} /\ WithTLS \subseteq Nodes
    /\ \A n \in Nodes : Role[n] = "org" => n \in WithSecret
    /\ MaxFailures \in Nat

VARIABLES
    pc,            \* where each run is
    answer,        \* how the last run ended
    secret,        \* per run: the enrollment secret it holds
    writes,        \* per run: the files it has still to write
    material,      \* per run: the enrollment it writes
    disk,          \* per identity: its files
    identities,    \* at the CA: the secret of each identity
    affiliations,  \* at the CA
    issued,        \* per identity: its enrollments
    failures

cryptoVars == <<pc, answer, secret, writes, material, disk, identities,
          affiliations, issued, failures>>

Files == {"admincerts", "signcerts", "keystoredir", "keystore", "cacerts",
          "orgcacerts", "orgca", "orgadmincerts", "nodeou",
          "tlskey", "tlscert", "tlsca", "tlscacerts", "orgtlsca", "orgtlscacerts"}

\* The affiliations init makes sure of, one after the other.
Affiliations == <<"client", "user", "node">>

CryptoInit ==
    /\ pc = [r \in Runs |-> "idle"]
    /\ answer = [r \in Runs |-> "none"]
    /\ secret = [r \in Runs |-> "none"]
    /\ writes = [r \in Runs |-> <<>>]
    /\ material = [r \in Runs |-> 0]
    /\ disk = [n \in Nodes |-> [f \in Files |-> 0]]
    /\ identities = [n \in Nodes |-> IF Role[n] = "admin" THEN "given" ELSE "none"]
    /\ affiliations = {}
    /\ issued = [n \in Nodes |-> 0]
    /\ failures = 0
-----------------------------------------------------------------------------
Goto(r, label) == pc' = [pc EXCEPT ![r] = label]

Return(r, a) ==
    /\ pc' = [pc EXCEPT ![r] = "idle"]
    /\ answer' = [answer EXCEPT ![r] = a]

\* Mutant: the certificate is there.
CertificateExists(n) == disk[n]["signcerts"] # 0

\* cryptoExistLocal: certificate and key are there.
CryptoExistLocal(n) == disk[n]["signcerts"] # 0 /\ disk[n]["keystore"] # 0

\* With a certificate and no directory of keys it throws: no file of the
\* directory can be listed.
KeystoreMissing(n) == disk[n]["signcerts"] # 0 /\ disk[n]["keystoredir"] = 0

\* toMSP, toTLS and what initAdmin adds to them, in the order of the writes.
ToMSP == <<"signcerts", "keystoredir", "keystore", "cacerts">>
ToTLS == <<"tlskey", "tlscert", "tlsca", "tlscacerts">>
ToOrgAdmin == <<"orgcacerts", "orgca", "orgadmincerts", "nodeou">>
ToAdminCerts == <<"admincerts">>
ToOrgTLS == <<"orgtlsca", "orgtlscacerts">>

NeedsTLS(n) == Role[n] = "orderer" \/ (Role[n] = "peer" /\ n \in WithTLS)

\* Callers go on with what they wait for.
MayStart(r) == pc[r] = "idle" /\ \A s \in After[r] : answer[s] \in {"done", "exist"}

\* genOrderer, genPeer, genUser: material that exists is left alone.
Kept(n) == Role[n] \in {"orderer", "peer", "user"}

Exists(r) ==
    /\ MayStart(r) /\ Kept(NodeOf[r])
    /\ ~KeystoreMissing(NodeOf[r])
    /\ CryptoExistLocal(NodeOf[r])
    /\ Return(r, "exist")
    /\ UNCHANGED <<secret, writes, material, disk, identities, affiliations, issued, failures>>

\* The look at what is there throws, and so does the run.
ExistThrows(r) ==
    /\ MayStart(r) /\ Kept(NodeOf[r])
    /\ KeystoreMissing(NodeOf[r])
    /\ Return(r, "error")
    /\ UNCHANGED <<secret, writes, material, disk, identities, affiliations, issued, failures>>

\* Otherwise the admin's certificate is written, for nodes, and the CA is asked
\* for the identity.
Generate(r) ==
    LET n == NodeOf[r]
    IN  /\ MayStart(r) /\ Kept(n)
        /\ ~KeystoreMissing(n) /\ ~CryptoExistLocal(n)
        /\ disk' = IF Role[n] = "user" THEN disk ELSE [disk EXCEPT ![n]["admincerts"] = 1]
        /\ secret' = [secret EXCEPT ![r] = IF n \in WithSecret THEN "given" ELSE "none"]
        /\ answer' = [answer EXCEPT ![r] = "none"]
        /\ Goto(r, "lookup")
        /\ UNCHANGED <<writes, material, identities, affiliations, issued, failures>>

\* genOrg, genClientKeyPair: the CA is asked at once, whatever is there.
GenerateAnew(r) ==
    LET n == NodeOf[r]
    IN  /\ MayStart(r) /\ Role[n] \in {"org", "client"}
        /\ secret' = [secret EXCEPT ![r] = IF n \in WithSecret THEN "given" ELSE "none"]
        /\ answer' = [answer EXCEPT ![r] = "none"]
        /\ Goto(r, "lookup")
        /\ UNCHANGED <<writes, material, disk, identities, affiliations, issued, failures>>

\* registerIfNotExist: the identity is looked up, and registered if it is not
\* there.
\* Mutant: an identity that exists ends the run, as a failed registration does.
ExistingIsAnError(r) ==
    /\ pc[r] = "lookup"
    /\ identities[NodeOf[r]] # "none"
    /\ Return(r, "error")
    /\ UNCHANGED <<secret, writes, material, disk, identities, affiliations, issued, failures>>

IdentityExists(r) ==
    /\ pc[r] = "lookup"
    /\ identities[NodeOf[r]] # "none"
    /\ Goto(r, "enroll")
    /\ UNCHANGED <<answer, secret, writes, material, disk, identities, affiliations, issued, failures>>

IdentityMissing(r) ==
    /\ pc[r] = "lookup"
    /\ identities[NodeOf[r]] = "none"
    /\ Goto(r, "register")
    /\ UNCHANGED <<answer, secret, writes, material, disk, identities, affiliations, issued, failures>>

\* The CA registers an identity once, and makes up a secret if none is given.
Register(r) ==
    LET n == NodeOf[r]
        s == IF secret[r] = "none" THEN "generated" ELSE "given"
    IN  /\ pc[r] = "register"
        /\ identities[n] = "none"
        /\ identities' = [identities EXCEPT ![n] = s]
        /\ secret' = [secret EXCEPT ![r] = s]
        /\ Goto(r, "enroll")
        /\ UNCHANGED <<answer, writes, material, disk, affiliations, issued, failures>>

\* Mutant: the files are numbered ahead of the enrollment.
EnrollForAhead(r, files) ==
    /\ issued' = [issued EXCEPT ![NodeOf[r]] = @ + 1]
    /\ material' = [material EXCEPT ![r] = issued[NodeOf[r]] + 2]
    /\ writes' = [writes EXCEPT ![r] = files]

\* An enrollment gives a new key and certificate; the files are to be written.
EnrollFor(r, files) ==
    /\ issued' = [issued EXCEPT ![NodeOf[r]] = @ + 1]
    /\ material' = [material EXCEPT ![r] = issued[NodeOf[r]] + 1]
    /\ writes' = [writes EXCEPT ![r] = files]

MayEnroll(r) ==
    /\ pc[r] \in {"enroll", "enrollTLS"}
    /\ secret[r] = identities[NodeOf[r]]

Enroll(r) ==
    /\ MayEnroll(r) /\ Kept(NodeOf[r])
    /\ IF pc[r] = "enroll" THEN EnrollFor(r, ToMSP) /\ Goto(r, "msp")
                           ELSE EnrollFor(r, ToTLS) /\ Goto(r, "tls")
    /\ UNCHANGED <<answer, secret, disk, identities, affiliations, failures>>

\* Of an organisation only the TLS root is written.
EnrollOrg(r) ==
    /\ MayEnroll(r) /\ Role[NodeOf[r]] = "org"
    /\ EnrollFor(r, ToOrgTLS) /\ Goto(r, "tls")
    /\ UNCHANGED <<answer, secret, disk, identities, affiliations, failures>>

\* The pair of a client is returned, and nothing written.
EnrollClient(r) ==
    /\ MayEnroll(r) /\ Role[NodeOf[r]] = "client"
    /\ EnrollFor(r, <<>>) /\ Return(r, "done")
    /\ UNCHANGED <<secret, disk, identities, affiliations, failures>>

\* The CA refuses: another run has registered the identity meanwhile, or the
\* secret is not that of the identity.
Refused(r) ==
    LET registered == identities[NodeOf[r]]
    IN  /\ \/ pc[r] = "register" /\ registered # "none"
           \/ pc[r] \in {"enroll", "enrollTLS"} /\ secret[r] # registered
        /\ Return(r, "error")
        /\ UNCHANGED <<secret, writes, material, disk, identities, affiliations, issued, failures>>

WriteFile(r) ==
    /\ writes[r] # <<>>
    /\ disk' = [disk EXCEPT ![NodeOf[r]][Head(writes[r])] = material[r]]
    /\ writes' = [writes EXCEPT ![r] = Tail(@)]
    /\ UNCHANGED <<pc, answer, secret, material, identities, affiliations, issued, failures>>

\* The MSP directory is complete: TLS is next, if there is to be any.
AfterMSP(r) ==
    /\ pc[r] = "msp" /\ writes[r] = <<>>
    /\ IF NeedsTLS(NodeOf[r]) THEN Goto(r, "enrollTLS") /\ UNCHANGED answer
                              ELSE Return(r, "done")
    /\ UNCHANGED <<secret, writes, material, disk, identities, affiliations, issued, failures>>

AfterTLS(r) ==
    /\ pc[r] = "tls" /\ writes[r] = <<>>
    /\ Return(r, "done")
    /\ UNCHANGED <<secret, writes, material, disk, identities, affiliations, issued, failures>>
-----------------------------------------------------------------------------
\* init: initAdmin enrolls whether or not material exists, and goes on asking
\* a CA that is not ready.
InitAdmin(r) ==
    /\ MayStart(r) /\ Role[NodeOf[r]] = "admin"
    /\ answer' = [answer EXCEPT ![r] = "none"]
    /\ Goto(r, "enrollAdmin")
    /\ UNCHANGED <<secret, writes, material, disk, identities, affiliations, issued, failures>>

EnrollAdmin(r) ==
    /\ pc[r] = "enrollAdmin"
    /\ EnrollFor(r, ToMSP \o ToOrgAdmin \o ToAdminCerts)
    /\ Goto(r, "admin")
    /\ UNCHANGED <<answer, secret, disk, identities, affiliations, failures>>

\* Then the affiliations, each looked up and created if it is not there.  The
\* label is the number of the affiliation.
AdminWritten(r) ==
    /\ pc[r] = "admin" /\ writes[r] = <<>>
    /\ Goto(r, "lookup1")
    /\ UNCHANGED <<answer, secret, writes, material, disk, identities, affiliations, issued, failures>>

LookupLabel(i) == <<"lookup1", "lookup2", "lookup3">>[i]
CreateLabel(i) == <<"create1", "create2", "create3">>[i]

NextAffiliation(r, i) ==
    IF i < Len(Affiliations) THEN Goto(r, LookupLabel(i + 1)) /\ UNCHANGED answer
                             ELSE Return(r, "done")

\* Mutant: the first affiliation found ends the lookups.
LookupFirstOnly(r, i) ==
    /\ pc[r] = LookupLabel(i)
    /\ IF Affiliations[i] \in affiliations
       THEN Return(r, "done")
       ELSE Goto(r, CreateLabel(i)) /\ UNCHANGED answer
    /\ UNCHANGED <<secret, writes, material, disk, identities, affiliations, issued, failures>>

LookupAffiliation(r, i) ==
    /\ pc[r] = LookupLabel(i)
    /\ IF Affiliations[i] \in affiliations
       THEN NextAffiliation(r, i)
       ELSE Goto(r, CreateLabel(i)) /\ UNCHANGED answer
    /\ UNCHANGED <<secret, writes, material, disk, identities, affiliations, issued, failures>>

CreateAffiliation(r, i) ==
    /\ pc[r] = CreateLabel(i)
    /\ IF Affiliations[i] \in affiliations
       THEN Return(r, "error") /\ UNCHANGED affiliations
       ELSE /\ affiliations' = affiliations \cup {Affiliations[i]}
            /\ NextAffiliation(r, i)
    /\ UNCHANGED <<secret, writes, material, disk, identities, issued, failures>>
-----------------------------------------------------------------------------
\* A request to the CA fails, or its answer is lost after the CA did its work.
Asking(r) == pc[r] \notin {"idle", "msp", "tls", "admin"}

RequestFails(r) ==
    /\ Asking(r)
    /\ failures < MaxFailures
    /\ failures' = failures + 1
    /\ identities' \in {identities} \cup
           (IF pc[r] = "register" /\ identities[NodeOf[r]] = "none"
            THEN {[identities EXCEPT ![NodeOf[r]] =
                      IF secret[r] = "none" THEN "generated" ELSE "given"]}
            ELSE {})
    /\ affiliations' \in {affiliations} \cup
           {affiliations \cup {Affiliations[i]} :
               i \in {j \in 1..Len(Affiliations) : pc[r] = CreateLabel(j)}}
    /\ Return(r, "error")
    /\ UNCHANGED <<secret, writes, material, disk, issued>>

\* The process ends; what is on disk stays.
Crash(r) ==
    /\ pc[r] # "idle"
    /\ failures < MaxFailures
    /\ failures' = failures + 1
    /\ writes' = [writes EXCEPT ![r] = <<>>]
    /\ Return(r, "error")
    /\ UNCHANGED <<secret, material, disk, identities, affiliations, issued>>

Step(r) ==
    \/ Generate(r) \/ IdentityExists(r) \/ IdentityMissing(r)
    \/ Register(r) \/ Enroll(r) \/ EnrollOrg(r) \/ EnrollClient(r) \/ Refused(r)
    \/ WriteFile(r) \/ AfterMSP(r) \/ AfterTLS(r)
    \/ EnrollAdmin(r) \/ AdminWritten(r)
    \/ \E i \in 1..Len(Affiliations) : LookupAffiliation(r, i) \/ CreateAffiliation(r, i)

\* What is made whether or not it is there is made anew only if the last try
\* failed: a bound.
Repeat(r) == answer[r] \in {"none", "error"} /\ (InitAdmin(r) \/ GenerateAnew(r))

CryptoNext ==
    \E r \in Runs : \/ Step(r) \/ Exists(r) \/ ExistThrows(r) \/ RequestFails(r) \/ Crash(r)
                    \/ Repeat(r)

CryptoSpec == CryptoInit /\ [][CryptoNext]_cryptoVars

(***************************************************************************)
(* The CA answers, the disk takes writes, and the caller runs a generation *)
(* again while its material is missing.                                    *)
(***************************************************************************)
CryptoFairSpec == CryptoSpec /\ \A r \in Runs : WF_cryptoVars(Step(r) \/ Repeat(r))
-----------------------------------------------------------------------------
CryptoTypeOK ==
    /\ \A r \in Runs :
          /\ pc[r] # "idle" => answer[r] = "none"
          /\ writes[r] # <<>> => pc[r] \in {"msp", "tls", "admin"}
          /\ material[r] \in 0..issued[NodeOf[r]]
          /\ secret[r] \in {"none", "given", "generated"}
    /\ \A n \in Nodes : disk[n] \in [Files -> 0..(issued[n] + 1)]
    /\ identities \in [Nodes -> {"none", "given", "generated"}]
    /\ affiliations \subseteq {"client", "user", "node"}

\* Whoever is told that the material of a node or a user is there has a key
\* that belongs to its certificate, whatever tries before it left behind.
PairMatches ==
    \A r \in Runs :
        Kept(NodeOf[r]) /\ answer[r] \in {"done", "exist"} =>
            /\ disk[NodeOf[r]]["signcerts"] # 0
            /\ disk[NodeOf[r]]["signcerts"] = disk[NodeOf[r]]["keystore"]

\* An init that returned has its three affiliations at the CA, although other
\* inits on the same CA create them at the same time.
InitMeansAffiliated ==
    \A r \in Runs : Role[NodeOf[r]] = "admin" /\ answer[r] = "done" =>
        affiliations = {"client", "user", "node"}

\* Repeating a generation with a configured secret until it works gets there,
\* once failures end, unless a crash left a certificate without a directory of
\* keys, which makes every later run throw.  Without a secret it need not get
\* there either: the secret is lost with the answer to the registration.
Generated(n) ==
    CASE Kept(n) -> CryptoExistLocal(n)
      [] Role[n] = "org" -> disk[n]["orgtlsca"] # 0 /\ disk[n]["orgtlscacerts"] # 0
      [] Role[n] = "client" -> \E r \in Runs : NodeOf[r] = n /\ answer[r] = "done"

EventuallyGenerated ==
    \A n \in WithSecret : <>[](Generated(n) \/ (Kept(n) /\ KeystoreMissing(n)))

\* "etcdraft always need TLS material" (nodejs/ca/ca-crypto-gen.js:159): a
\* genOrderer that returned leaves the orderer its TLS material.
OrdererHasTLS ==
    \A r \in Runs : Role[NodeOf[r]] = "orderer" /\ answer[r] \in {"done", "exist"} =>
        disk[NodeOf[r]]["tlskey"] # 0 /\ disk[NodeOf[r]]["tlscert"] # 0
=============================================================================

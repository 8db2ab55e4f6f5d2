CONSTANTS
    A = A  B = B  C = C  D = D  o1 = o1  o2 = o2  cert = cert
    peers1 = peers1  peers2 = peers2  options = options  raft1 = raft1  
    Underscored = {C}
    Dashed = {D}
    MspIds = {A, B, C, D}
    Written <- MCWritten
    Collections <- MCCollections
    Standards <- MCStandards
    Absent = Absent
    MaxSettings = 2
    Groups = {"Application", "Orderer"}
    Orgs = {o1, o2}
    MSPs = {A, B}
    Certs = {cert}
    OrgArguments <- MCOrgArguments
    AnchorPeers = {peers1, peers2}
    Versions = {"V1_4", "V2_0"}
    Addresses = {"orderer0", "orderer1"}
    Consenters = {raft1}
    Options = {options}
    DefaultOptions = DefaultOptions
    None = None
    Original <- MCOriginal
    MaxEdits = 3
SPECIFICATION Spec
INVARIANTS RepeatIsHarmless EditsCommute PolicyKept CollectionKept
CHECK_DEADLOCK FALSE

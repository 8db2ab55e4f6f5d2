CONSTANTS
    a = a  k = k  A = A  B = B  pa = pa  pb = pb
    Default = Default  p1 = p1
    Ops = {a, k}
    Orgs = {A, B}
    Peers = {pa, pb}
    Policies = {p1}
    OrgOf <- MCOrgOf
    EndorsersOf <- MCEndorsersOf
    Uses <- MCUses
    PoliciesOf <- MCPoliciesOf
    WaitForConsensus = {k}
    MaxSequence = 1  MaxLag = 1
SPECIFICATION Spec
INVARIANTS TypeOK DefinitionWasApproved StaleHandlerHarmless ApproveMeansApproved InstallIsEverywhere
CHECK_DEADLOCK FALSE

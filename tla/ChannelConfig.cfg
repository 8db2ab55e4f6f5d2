CONSTANTS
    u1 = u1  u2 = u2  u3 = u3  A = A  B = B  x = x  y = y
    Unset = Unset
    NoOne = NoOne
    Updates = {u1, u2, u3}
    Orgs = {A, B}
    OrgOf <- MCOneOrg
    Wanted <- MCWanted
    Finality = {u1, u2}
    MaxNoise = 1
SPECIFICATION FairSpec
INVARIANTS SnapshotRead ReturnMeansSet MismatchIsOvertaken
PROPERTIES EventuallyReturns
CHECK_DEADLOCK FALSE

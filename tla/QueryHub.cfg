CONSTANTS
    j = j  f = f  q = q  p1 = p1  p2 = p2
    NoCall = NoCall
    Peers = {p1, p2}
    Calls = {j, f, q}
    EndorsersOf <- MCEndorsersOf
    Kind <- MCKind
    MaxFailures = 2
SPECIFICATION FairSpec
INVARIANTS JoinMeansJoined TxAnswerIsReal
PROPERTIES EventuallyJoined
CHECK_DEADLOCK FALSE

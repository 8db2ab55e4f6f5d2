CONSTANTS
    single = single  last = last  until = until  future = future  replay = replay
    NoQuery = NoQuery
    Queries = {single, last, until, future, replay}
    Op <- MCOp
    MaySignOffline = TRUE
    MaxHeight = 3
SPECIFICATION FairSpec
INVARIANTS TypeOK AnswerFitsQuery HubIsClean
PROPERTIES QuerySettles
CHECK_DEADLOCK FALSE

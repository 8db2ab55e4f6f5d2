CONSTANTS
    k = k  p = p  s = s  u = u  a = a  x = x  y = y
    endorser = endorser  eventer = eventer  
    NoCall = NoCall
    Endpoints = {endorser, eventer}
    Calls = {k, p, s, u, a, x, y}
    Kind <- MCKind
    Before <- MCBefore
    Path <- MCPath
    MaxFailures = 1
SPECIFICATION FairSpec
INVARIANTS TypeOK FlagIsBacked
PROPERTIES ReturnMeansHeld CallsSettle
CHECK_DEADLOCK FALSE

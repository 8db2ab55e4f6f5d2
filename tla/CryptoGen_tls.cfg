CONSTANTS
    r1 = r1  r2 = r2  r3 = r3  r4 = r4  r5 = r5  r6 = r6
    admin = admin  admin2 = admin2  orderer = orderer  peer = peer  user = user  org = org  client = client
    Runs = {r1}
    Nodes = {orderer}
    NodeOf <- MCAlone
    After <- MCAfterNone
    Role <- MCRole
    WithSecret = {orderer}
    WithTLS = {}
    MaxFailures = 1
SPECIFICATION CryptoSpec
INVARIANTS OrdererHasTLS
CHECK_DEADLOCK FALSE

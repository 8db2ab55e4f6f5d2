CONSTANTS
    r1 = r1  r2 = r2  r3 = r3  r4 = r4  r5 = r5  r6 = r6
    admin = admin  admin2 = admin2  orderer = orderer  peer = peer  user = user  org = org  client = client
    Runs = {r1, r2, r3, r4, r5, r6}
    Nodes = {peer, admin, admin2, user, org, client}
    NodeOf <- MCAll
    After <- MCAfter
    Role <- MCRole
    WithSecret = {peer, org}
    WithTLS = {peer}
    MaxFailures = 1
SPECIFICATION CryptoFairSpec
INVARIANTS CryptoTypeOK PairMatches InitMeansAffiliated
PROPERTIES EventuallyGenerated
CHECK_DEADLOCK FALSE

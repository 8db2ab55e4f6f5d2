CONSTANTS
    c1 = c1  c2 = c2  c3 = c3
    o1 = o1  o2 = o2  e1 = e1
    t1 = t1  t2 = t2  t3 = t3  p1 = p1  p2 = p2
    OtherTx = OtherTx
    NoTx = NoTx
    Calls = {c1, c2, c3}
    Objects = {o1, o2}
    Eventers = {e1}
    Endorsers = {p1, p2}
    TxIds = {t1, t2, t3}
    ObjectOf <- MCObjectOf
    EventerOf <- MCEventerOf
    TxId <- MCTxId
    Kind <- MCKind
    OfflineSigned = {o1}
    OneAtATime = TRUE
    MaxNoise = 1
SPECIFICATION FairSpec
INVARIANTS FinalityIsReal EnvelopeIsOwn
PROPERTIES ImplementsContract EventuallyAnswered EventerFreed
CHECK_DEADLOCK FALSE

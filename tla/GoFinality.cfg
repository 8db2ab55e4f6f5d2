SPECIFICATION FairSpec
CONSTANTS
    t1 = t1
    t2 = t2
    t3 = t3
    l1 = l1
    l2 = l2
    c1 = c1
    Txs = {t1, t2}
    Committers = {c1}
    CommitterOf <- MCCommitterOf
    Listeners = {l1}
    ListenerOf <- MCListenerOf
    FullBlock = {l1}
    MaxNoise = 2
INVARIANTS VerdictIsOwn AnswersAreEnough
PROPERTY EventuallyFound
CHECK_DEADLOCK FALSE

SPECIFICATION FairSpec
CONSTANTS
    genesis = genesis
    config = config
    newest = newest
    Newest = Newest
    NoAnswer = NoAnswer
    Failed = Failed
    Undefined = Undefined
    Calls = {config, newest}
    Wanted <- MCWanted
    WaitIfUnavailable = {config}
    MaxHeight = 2
INVARIANTS TypeOK AttemptGuarded
PROPERTIES ImplementsBlockRead EventuallyAnswered
CHECK_DEADLOCK FALSE

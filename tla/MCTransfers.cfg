CONSTANTS
    k1 = k1
    t1 = t1
    t2 = t2
    t3 = t3
    NoKey = NoKey
    NoThread = NoThread
    Threads = {t1, t2, t3}
    Accounts <- MCAccounts
    Opening <- MCOpening
    Keys <- MCKeys
    Requests <- MCRequests
    MaxRequests = 3
SPECIFICATION FairSpec
INVARIANTS
    AnswerNamesTheRequest
    LogMatchesLedger
    OrderedWaiting
PROPERTIES
    ImplementsLedger
    EveryRequestEnds

SPECIFICATION Spec
CONSTANTS
    t1 = t1
    t2 = t2
    w1 = w1
    w2 = w2
    NoTicker = NoTicker
    Tickers <- MCTickers
    Instruments = {1}
    Prices = {2, 3}
    Retention = 2
    Loads <- MCLoads
    Desks <- MCDesks
    Users <- MCUsers
    Accounts <- MCAccounts
    Chart <- MCChart
    Deals <- MCDeals
    InitialPrice = 1
INVARIANTS LastPriceIsNewest FilesMatchRows RunLeavesNoGap BrokerageValued
PROPERTY ImplementsArchive
SYMMETRY Symmetry
CHECK_DEADLOCK FALSE

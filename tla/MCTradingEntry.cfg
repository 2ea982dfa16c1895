CONSTANTS
    k1 = k1
    p1 = p1
    p2 = p2
    s1 = s1
    s2 = s2
    alice = alice
    bob = bob
    Nobody = Nobody
    NoKey = NoKey
    Placers = {p1}
    Sweepers = {s1}
    Keys = {k1}
    Users <- MCUsers
    Accounts <- MCAccounts
    Owner <- MCOwner
    PositionOf <- MCPositionOf
    Opening <- MCOpening
    OpeningShares <- MCOpeningShares
    Tickets <- MCPoorTickets
    Movements <- MCDeposits
    Prices <- MCPrices
    Scale = 1
    MaxRequests = 2
    MaxTransfers = 1
    MaxCrashes = 0
SPECIFICATION Spec
INVARIANTS
    EntryMeansFilled

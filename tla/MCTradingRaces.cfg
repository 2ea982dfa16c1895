CONSTANTS
    k1 = k1
    p1 = p1
    p2 = p2
    s1 = s1
    s2 = s2
    alice = alice
    bob = bob
    Nobody = Nobody
    NoKey = NoKey
    Placers = {p1, p2}
    Sweepers = {s1, s2}
    Keys = {k1}
    Users <- MCTwoUsers
    Accounts <- MCTwoAccounts
    Owner <- MCTwoOwner
    PositionOf <- MCTwoPositionOf
    Opening <- MCTwoOpening
    OpeningShares <- MCTwoOpeningShares
    Tickets <- MCTwoTickets
    Movements <- MCMovements
    Prices <- MCPrices
    Scale = 2
    MaxRequests = 2
    MaxTransfers = 1
    MaxCrashes = 1
SPECIFICATION CastSpec
SYMMETRY PlayerSymmetry
INVARIANTS
    NothingOversold
    NoDust
    EntryAndOrderAgree
    LimitRespected
    ReplyNamesOwnOrder
PROPERTIES
    ResolvedLimitOrderStaysUnposted

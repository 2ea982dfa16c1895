CONSTANTS
    Labels = {k1, k2, k3}
    Replicas <- BlueGreen
    Accounts = {a1}
    Users = {u1}
    Bodies <- SomeBodies
    BodyDigits = 5
    Secrets = {x1, x2}
    Staff = {s1}
    NoLabel = NoLabel
    NoValue = NoValue
    Requests = {r1, r2, r3}
    Identifiers <- Spellings
    Folded <- Lower
    Forms <- MeetingForms
    NoForm = NoForm
SPECIFICATION CustomersSpec
INVARIANTS
    RowsAreSound
    CustomersAreComplete
    TwinsRaced
PROPERTIES
    NothingOrphaned
    ValuesAreForLife
    OldestKeepsTheLogin
CHECK_DEADLOCK FALSE

CONSTANTS
    cash = cash
    savings = savings
    NoKey = NoKey
    NoRequest = NoRequest
    euros = euros
    ups = ups
    downs = downs
    upsContra = upsContra
    downsContra = downsContra
    up = up
    down = down
    NoInstrument = NoInstrument
    NoQuantity = NoQuantity
    Accounts <- MCAccounts
    Instruments <- MCInstruments
    InstrumentOf <- MCInstrumentOf
    Assets <- MCAssets
    Dollars <- MCDollars
    ContraOf <- MCContraOf
    Fine = 2
    Requests <- MCRequests
    Past <- MCPast
    MaxTime = 1
SPECIFICATION BooksSpec
CHECK_DEADLOCK FALSE
INVARIANTS
    ServiceForesees
    HistoryConserved
    OldKeysReplay
PROPERTIES
    CompletedFillIsAccepted

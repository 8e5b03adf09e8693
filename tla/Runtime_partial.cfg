SPECIFICATION AllSpec
CONSTANTS
    Kind = {"runtime"}
    Intent = {"e1", "e2"}
    Quantity <- MCQuantity
    Protect = {"TAKE_PROFIT"}
    Command = {"MANUAL"}
    Nil = Nil
    StoreWorker = {1, 2}
    StoreBackend = {"sqlite", "postgres"}
    StoreIntent = {1, 2, 3}
    ClientOf <- MCClientOf
    CloseReason = {"sl", "manual"}
    StoreCalls <- MCCalls
    MaxStoreCall = 4
    Closes <- MCCloses
    Rules <- MCRules
    Wallets <- MCWallets
    PriceTick = 1
    Passive = 2
    QtyStep = 1
    MinQty = 1
    MaxQty = 6
    MinNotional = 40
    Leverages = {1, 2}
    Move = 8
    FeeRate = 2
    Funding = 1
    MaxChanges = 2
    PaperCandles = {1, 2, 3, 4, 5}
    PaperMarkets <- MCPaperMarkets
    Sets = {1, 2}
    VolumeSets = {2}
    Lookback = 3
    Modes = {"paper", "dual"}
    Candles = {1, 2, 3, 4, 5, 6}
    Signals = {2, 3, 5, 6}
    Batch = 3
    Page = 2
    DayEnd = 4
    LossLimit = 1
    MaxSpent = 2
    Markets <- MCMarkets
    Equities = {10, 30}
    DayLen = 1
    BookDays = {1, 2}
    LimitPct = 50
    MaxSnapshots = 2
    Failures <- MCFailures
    Window = 3
    StaleAfter = 1
    MaxFaults = 1
INVARIANTS ClosedCandlesOnly

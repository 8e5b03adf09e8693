SPECIFICATION AllSpec
CONSTANTS
    Ledger = {"cooldown"}
    Snapshot <- MCSnapshot
    Policy <- MCPolicy
    Request <- MCRequest
    Construction <- MCConstruction
    Input <- MCInput
    Auth = {a1, a2}
    Txn = {x1, x2}
    Attempt = {"a", "b"}
    OrderEvent <- MCOrderEvent
    Duration = {1, 2}
    Applier = {p1, p2}
    MaxTime = 2
    Day = {"d1", "d2"}
    Opening <- MCOpening
    Posting <- MCPosting
    Unrealized <- MCUnrealized
    FinalEvent <- MCFinalEvent
    ResultKey <- MCResultKey
    TrancheKey <- MCTrancheKey
    MaxKey = 7
    Nil = Nil
INVARIANTS ConflictStands
CHECK_DEADLOCK FALSE

SPECIFICATION AllSpec
CONSTANTS
    Ledger = {"submission", "close", "reconciliation", "synchronisation", "monitor"}
    Construction <- MCConstruction
    ResultOf <- MCResultOf
    SpecOf <- MCSpecOf
    DigestOf <- MCDigestOf
    TrancheOf <- MCTrancheOf
    GrantOf <- MCGrantOf
    CapitalOf <- MCCapitalOf
    CapacityOf <- MCCapacityOf
    SlotsOf <- MCSlotsOf
    HashedId <- MCHashedId
    AuthId = {a1, a2}
    IntentId = {i1, i2}
    ClientId = {"cl1", "cl2"}
    Cutpoint = {k1, k2}
    Caller = {p1, p2}
    Nil = Nil
    Tranche = {"t1"}
    CloseCause = {tp, sl, manual}
    CloseCaller = {n1, n2}
    CloseWorker = {w1, w2}
    ChildSeq = {1, 2}
    MaxRevision = 5
    Evidence <- MCEvidence
    EvidenceId <- MCEvidenceId
    RevisionId <- MCRevisionId
    Revision <- MCRevision
    Scope <- MCScope
    Complete = {"complete", "completeChanged"}
    Recorder = {q1, q2}
    Event <- MCEvent
    RevOf <- MCRevOf
    TypeOf <- MCTypeOf
    Acked = {"placed", "partial", "filled", "cancelled", "late", "closed"}
    Publisher = {q1, q2}
    Observation <- MCObservation
    Conditions <- MCConditions
    Required = {"kA"}
    Outcome <- MCOutcome
    Evaluator = {v1, v2}
    MaxTicks = 1
INVARIANTS WriteAhead OneOrderPerTranche OrderIsHeld CloseHolds ReconciliationHolds SetIsTold
PROPERTIES AttemptIsFinal SettledStays
SYMMETRY Symmetry
CHECK_DEADLOCK FALSE

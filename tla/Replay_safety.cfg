SPECIFICATION Spec
CONSTANTS
    Kind = {"certified", "life", "screen", "study"}
    Coordinator = {c1, c2}
    None = None
    ScreenCrashes = 1
SYMMETRY CoordinatorSymmetry
INVARIANTS ReplayIsSequential ClosedAsTraded ScreenHolds EvidenceRests
CHECK_DEADLOCK FALSE

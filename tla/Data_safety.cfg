SPECIFICATION Spec
CONSTANTS
    Kind = {"preparation", "trades", "metrics", "backtest", "scope", "planning", "capture", "fit", "decision", "facts", "kernels"}
    Coordinator = {c1, c2}
    None = None
    ScreenCrashes = 1
INVARIANTS MarketDataHolds BacktestIsExact PipelineHolds  AcceptIsEarned
CHECK_DEADLOCK FALSE

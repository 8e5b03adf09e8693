SPECIFICATION Spec
CONSTANTS
    Part = {"backtests", "demos", "execution", "promotion", "registry", "rules", "operator"}
    Client = {c1, c2}
    Worker = {w1, w2}
    Actor = {a1, a2}
    None = None
    Backtest = {"b1", "b2"}
    Demo = {"d1", "d2"}
    MaxLapse = 1
    BacktestRequests = 3
    DemoRequests = 4
    Duration = 2
    MaxTime = 3
    MaxRevision = 5
    MaxStart = 1
    ResearchId = {"r1", "r2", "r3"}
    Promoter = {"p1"}
    PromotionKey = {"k1", "k2"}
    SetOf <- MCSetOf
    RulesOf <- MCRulesOf
    Promotable = {"rules1", "rules2"}
    InitialSet = "set0"
    InitialRules = "rules0"
    PromotionRequests = 3
    Rule = {"r1", "r2"}
    SetVersion = {"s1", "s2"}
    Members <- MCMembers
    Body = {"b1", "b2"}
    MaxOp = 6
    Edit = {"e1", "e2"}
    Invalid = {{"e1", "e2"}}
    MaxTry = 3
    Key = {"k1"}
    Position = {p1, p2}
    All = All
    Principal = {"operator", "visitor"}
    Allowed = {"operator"}
    MaxAsked = 2
    MaxPause = 2
SYMMETRY ActorSymmetry
INVARIANTS DemoIsExecuted PromotionIsExact VersionsHold AcceptedIsDriven
PROPERTIES CompletedIsFinal
CHECK_DEADLOCK FALSE

------------------------------ MODULE MCOffline ------------------------------
(***************************************************************************)
(* The work that is done off the trading path, one part per initial value  *)
(* of kind.  The replays: the certified population, the life of one order, *)
(* the seven-day screen and the development study.  Market data and what   *)
(* is computed from it: the preparation of the research datasets, the raw  *)
(* trade archive, the metrics of the historical triggers, the historical   *)
(* backtest, the scope and the results of the Set engine, the planning of  *)
(* a position, the live direction estimator (capture, fit, decision), and  *)
(* the stores of what the exchange adapters report.                        *)
(*                                                                         *)
(* Certified: five records over two books, caps of two, two interruptions. *)
(* Life: three minutes of two trades each, both directions.  Screen: four  *)
(* contexts of three coins over nine minutes and two accounting days, one  *)
(* crash.  Study: one horizon, five stages, two coordinators, three        *)
(* starts, the primary stage imported.                                     *)
(*                                                                         *)
(* Preparation and archive: two days of three instants.  Metrics: a        *)
(* dataset of 24 minutes with holes.  Backtest: two histories, differing   *)
(* in their tails, two runs, two processes, one death.  Scope: two         *)
(* transactions over OPEN, CLOSE and OPEN again, one revision offered with *)
(* two contents.  Planning: levels on both sides of the price, three       *)
(* rules, grants that fail each sizing check.  Capture: one symbol, one    *)
(* origin.  Fit: one fold and the final fit.  Decision: two symbols, the   *)
(* five folds, the three units of the prospective stage of one position    *)
(* each, one odd record, of the first symbol and fold: the two symbols and *)
(* the folds are interchangeable.                                          *)
(* Facts: two units of work of three calls, two evidence identities that   *)
(* share an anchor, offered with several contents, market pages that are   *)
(* complete and not, one portfolio request with two responses.             *)
(* Kernels, the formulas of the Set engine: every tape of up to eight      *)
(* candles of four kinds, and 2310 inputs of the direction classifier.     *)
(***************************************************************************)
EXTENDS Integers, Sequences, FiniteSets, TLC

CONSTANTS Kind, Coordinator, None, ScreenCrashes

VARIABLES
    kind,
    replayed, up, journal, made, certified, errors, stops,      \* certified
    history, short, validity, proxy, fact, end, life,           \* life
    mark, lives, screenUp, book, outcome, written, failed, screenLedger, guards, final, crashes,
    stages, temporary, entries, lock, publish, coordinator, starts, overlap,   \* study
    disk, dataset, prep, archive, memo, response, spent,   \* archive
    asset, btc, covered, cutoff, todo, observed,   \* metrics
    market, cache, status, mapping, results, ledger, comparisons, proc, deaths,   \* backtest
    revisions, outbox, scope, blind, epochs, resolved, frozen, handoffs, jobs,   \* scope
    tape, atr, swings, reading, evidence, class,   \* kernels
    handoff, rules, edits, pin, opportunity, grant, workflow, sent,   \* planning
    now, drift, revised, flight, requests, sink, copies, ready, seal, records, joined,   \* capture
    inputs, replaced, features, assemblies, readiness, bundles, companions, scores,   \* fit
    evaluated, matured, dossiers, report, decision,   \* decision
    factRows, factAt, writes, lookups, savepoint, mine, saved, probe, found, said, given, calls   \* facts

MCPopulation ==
    <<[book |-> "a", coin |-> "x", at |-> 1], [book |-> "a", coin |-> "x", at |-> 2],
      [book |-> "a", coin |-> "y", at |-> 3], [book |-> "a", coin |-> "x", at |-> 4],
      [book |-> "b", coin |-> "x", at |-> 2]>>

MCMinute ==
    {[trades |-> t, tied |-> FALSE] : t \in {<<>>} \cup [1..2 -> 1..4]} \cup
    {[trades |-> t, tied |-> TRUE] :
        t \in {<<1, 2>>, <<1, 4>>, <<2, 4>>, <<3, 4>>, <<1, 3>>, <<2, 3>>}}

Certified == INSTANCE CertifiedReplay
    WITH market <- replayed, results <- certified,
         Population <- MCPopulation, EndTime <- 1..4, CoinCap <- 2, BookCap <- 2, MaxStop <- 2,
         Minute <- MCMinute, Length <- 3, Entry <- 2, Target <- 4, Stop <- 1, Proxy <- {2, 3},
         Validity <- {0, 2}, FundingMinute <- 2, Chunk <- 1

MCContexts ==
    <<[coin |-> "x", at |-> 1], [coin |-> "y", at |-> 2],
      [coin |-> "x", at |-> 4], [coin |-> "z", at |-> 5]>>
Series(s, without) == [price |-> [t \in 0..8 |-> s[t + 1]], without |-> without]
MCMark ==
    {Series(<<0, 0, 0, -1, -2, -1, -2, -3, 0>>, {}), Series(<<0, 0, 0, -1, -2, -1, -2, -3, 0>>, {"y"}),
     Series(<<0, 2, 1, 1, 0, 2, 1, 0, -1>>, {})}
Lived(k, f, e) == [kind |-> k, fill |-> f, end |-> e]
Fates ==
    {Lived("ineligible", 0, 0), Lived("raises", 0, 0), Lived("refused", 0, 0),
     Lived("expires", 0, 2), Lived("closes", 1, 3), Lived("closes", 3, 4),
     Lived("stays", 4, 0), Lived("censored", 2, 0)}
LastFates == {Lived("ineligible", 0, 0), Lived("expires", 0, 2), Lived("closes", 3, 4)}
MCLives == {l \in [1..4 -> Fates] : l[4] \in LastFates}

Screen == INSTANCE ScreenReplay
    WITH up <- screenUp, made <- outcome, errors <- failed, ledger <- screenLedger,
         Contexts <- MCContexts, Horizon <- 8,
         DayStart <- 6, Mark <- MCMark, Lives <- MCLives, Limit <- 2, Slots <- 3, CoinSlots <- 1,
         Cooldown <- 1, MaxCrash <- ScreenCrashes

Stages(n, k, p) == [name |-> n, kind |-> k, parents |-> p]
MCGraph ==
    <<Stages("features", "generated", {}), Stages("registration", "registered", {}),
      Stages("primary", "generated", {"features", "registration"}),
      Stages("comparator", "published", {"features", "primary"}),
      Stages("dossier", "final", {"features", "comparator"})>>

Study == INSTANCE DevelopmentStudy
    WITH disk <- stages, proc <- coordinator, Graph <- MCGraph, Reuse <- {"primary"}, MaxStart <- 3

Trade(i, t, p) == [id |-> i, t |-> t, price |-> p]
MCTruth == {Trade(1, 1, 1), Trade(2, 2, 2), Trade(3, 3, 1), Trade(4, 5, 2), Trade(5, 5, 1)}
Day1 == {r \in MCTruth : r.t < 3}
Day2 == MCTruth \ Day1

Archive == INSTANCE MarketArchive
    WITH Days <- {1, 2}, DayLen <- 3, Truth <- MCTruth, Lookback <- 2, MaxSpent <- 4,
         Supplies <- {Day1, Day2, {}, MCTruth, Day2 \ {Trade(3, 3, 1)}, Day2 \cup {Trade(4, 5, 3)}}

MCHoles == {1..n : n \in {0, 4, 9}} \cup {1..n \cup {m} : n \in {0, 4}, m \in {14, 16, 19, 20, 22, 24}} \cup {1..24}

Metrics == INSTANCE HistoricalMetrics
    WITH trades <- covered, results <- observed, Last <- 24, Five <- 2, Fifteen <- 4, Hour <- 8,
         Day <- 8, Short <- 3, Efficiency <- 2, Warm <- 1, SwingBars <- 2, LookbackDays <- 2,
         MinDays <- 1, Holes <- MCHoles, Cutoffs <- {8, 13, 16, 18, 20, 23, 24}

Candle(o, c, v) == [o |-> o, c |-> c, v |-> v]
Base == <<Candle(9, 9, 1), Candle(9, 8, 1), Candle(8, 8, 1), Candle(8, 6, 3), Candle(6, 7, 1),
          Candle(7, 5, 2), Candle(5, 6, 1)>>

Backtest == INSTANCE HistoricalBacktest
    WITH Procs <- {1, 2}, From <- 3, To <- 6, Warmup <- 2, Threshold <- 1, VolumeWindow <- 3,
         Markets <- {Base, [Base EXCEPT ![6] = Candle(7, 8, 1), ![7] = Candle(8, 6, 4)]},
         Runs <- {[id |-> 1, volume |-> FALSE], [id |-> 2, volume |-> TRUE]}, RegimeWindow <- 2,
         Refused <- {}, Funding <- {}, Cost <- 1, Page <- 4, MaxDeaths <- 1

Coins(i, r, a) == [id |-> i, rev |-> r, action |-> a]
Request(s, f, c, x, b, u) ==
    [scope |-> s, formation |-> f, classifier |-> c, fixed |-> x, branches |-> b, rule |-> u]
Branch(i, d) == [id |-> i, direction |-> d]
\* Inputs of F-005 in hundredths; the gates and the missing values around one.
MCInputs ==
    [structure1h : {"BULLISH", "AMBIGUOUS", "BEARISH"}, structure15m : {"BULLISH", "AMBIGUOUS", "BEARISH"},
     de : {30, 55}, momentum : {-100, 37}, vnmZ : {0, 200}, relative : {-33, 100}, relativeZ : {-200, 0},
     delta : {-6000, 5050}, turnover : {131}, atrPercentile : {1500}, btcStructure : {"BULLISH", "BEARISH"},
     btcZ : {101, -150}]
Long == CHOOSE i \in MCInputs : /\ {i.structure1h, i.structure15m, i.btcStructure} = {"BULLISH"}
                               /\ i.momentum = 37 /\ i.relative = 100 /\ i.delta = 5050 /\ i.relativeZ = 0
MCCases == MCInputs \cup
    {[Long EXCEPT !.de = 29], [Long EXCEPT !.turnover = 69], [Long EXCEPT !.atrPercentile = 1499],
     [Long EXCEPT !.atrPercentile = 9701], [Long EXCEPT !.vnmZ = None],
     [Long EXCEPT !.btcStructure = "UNAVAILABLE"]}
Bar(w, h, l, c, v) == [whole |-> w, high |-> h, low |-> l, close |-> c, volume |-> v]
MCBars == {Bar(TRUE, 5, 4, 5, 1), Bar(TRUE, 6, 0, 3, 2), Bar(TRUE, 9, 2, 2, 4), Bar(FALSE, 5, 4, 4, 1)}

MCRequests ==
    {Request("F005_GOVERNED", f, Long, None, {}, None) : f \in {"TRUE", "FALSE"}} \cup
    {Request("GENERIC_FIXED", "TRUE", None, [binding |-> 1, direction |-> "SHORT"], {}, None),
     Request("GENERIC_MATCHED_BRANCH", "TRUE", None, None,
             {Branch("a", "LONG"), Branch("b", "SHORT")}, "b")}

Scope == INSTANCE SetScope
    WITH results <- resolved, Workers <- {1, 2}, Bindings <- {1}, Requests <- MCRequests,
         Events <- {Coins(1, 1, "OPEN"), Coins(2, 2, "CLOSE"), Coins(3, 3, "OPEN"), Coins(4, 2, "OPEN")},
         Rows <- {None, Coins(0, 0, "CLOSE")}, Unit <- 100, Wire <- 10, Candles <- MCBars, Cases <- MCCases,
         Window <- 4, MinRank <- 4, Period <- 3, Span <- 4, Theta <- 2000, Tick <- 1, MaxTape <- 8

Level(i, p, t, k) == [id |-> i, price |-> p, at |-> t, type |-> k,
                      relative |-> IF p < 200 THEN "BELOW" ELSE "ABOVE"]
MCLevels == {{Level(1, a, 1, "LOW"), Level(2, b, 2, "LOW"), Level(3, c, 1, "HIGH"), Level(4, d, t, "HIGH")} :
    a \in {168, 183}, b \in {188, 197}, c \in {203, 211}, d \in {214, 227, 251}, t \in 1..3}
MCHandoffs == {[direction |-> d, price |-> 200, atr |-> 20, tick |-> k, matched |-> 2, levels |-> l] :
    d \in {"LONG", "SHORT"}, k \in {1, 3}, l \in MCLevels}
Draft(sm, so, sp, tm, tp, rr, ed, lv) ==
    [stopMode |-> sm, stopOverride |-> so, stopPct |-> sp, takeMode |-> tm, takePct |-> tp,
     minRR |-> rr, minEdge |-> ed, leverage |-> lv]
Grant(c, s, mn, mx, nn, ml) ==
    [capital |-> c, step |-> s, minQty |-> mn, maxQty |-> mx, minNotional |-> nn,
     maxLeverage |-> ml, maker |-> 1, taker |-> 2]
MCGrants ==
    {Grant(1000, 1, 1, 50, 100, 10), Grant(998, 3, 3, 9, 100, 10), Grant(1001, 1, 1, 50, 1, 10),
     Grant(60, 1, 1, 9, 1, 10), Grant(400, 1, 9, 50, 1, 10), Grant(400, 1, 1, 50, 5000, 10),
     Grant(1000, 2, 2, None, 1, 10), Grant(1000, 1, 1, 50, 1, 2)}

Planning == INSTANCE PositionPlanning
    WITH Handoffs <- MCHandoffs, Grants <- MCGrants, QCapital <- 2, MaxEdits <- 1,
         Rules <- {Draft("DYNAMIC", None, 5, "DYNAMIC", 5, 8, 1, 3),
                   Draft("FIXED", None, 5, "FIXED", 9, 15, None, 2),
                   Draft("FIXED", "DYNAMIC", 5, "DYNAMIC", 9, None, 12, 2)}

Capture == INSTANCE LiveCapture
    WITH sent <- requests, Symbols <- {"b"}, Btc <- "b", First <- 8, Last <- 12, Grid <- 6,
         Support <- 1, Limit <- 3, Skew <- 1, Purge <- 2, MaxResponses <- 2, MaxRecords <- 1,
         Correctable <- {6}, ReadyTimes <- {9}

Fit == INSTANCE EstimatorFit
    WITH disk <- inputs, D0 <- 0, H1 <- 16, Purge <- 2, Horizons <- {1, 2}, NoFeature <- {1},
         NoTarget <- {7}, ShadowSpan <- 5, MaxReplaced <- 1, MaxArtifacts <- 4,
         Calendar <- [F1 |-> [c |-> 4, v |-> 10, e |-> 16], FINAL |-> [c |-> 10, v |-> 16, e |-> None]],
         Requests <- {[h |-> 1, lo |-> 0, hi |-> 16], [h |-> 1, lo |-> 4, hi |-> 14],
                      [h |-> 2, lo |-> 0, hi |-> 16]}

MCPhases == [D |-> {"F1", "F2", "F3", "F4", "F5"}, H1 |-> {"H1"}, P |-> {"P"}]
MCPositions == [F1 |-> {1}, F2 |-> {1}, F3 |-> {1}, F4 |-> {1}, F5 |-> {1}, H1 |-> {1}, P |-> 1..3]
\* A draw gives each position the position resampled for it.
Resample(s, f(_, _)) == [p \in MCPhases[s] |-> [t \in MCPositions[p] |-> f(p, t)]]
Same(p, t) == t
Other(p, t) == CASE p = "P" -> (IF t = 2 THEN 2 ELSE 3) [] OTHER -> 1
MCDraws == [n \in {1, 2} |-> [s \in {"D", "H1", "P"} |->
    IF n = 1 THEN {Resample(s, Same), Resample(s, Other)} ELSE {Resample(s, Same)}]]
Vouched == [clean |-> TRUE, disclosed |-> TRUE, targets |-> TRUE, ledger |-> TRUE]

Decision == INSTANCE EstimatorDecision
    WITH records <- evaluated, Symbols <- {"a", "b"}, Phases <- MCPhases, Positions <- MCPositions,
         Units <- [U1 |-> {1}, U2 |-> {2}, U3 |-> {3}], Windows <- {{1, 2}, {3}}, Blocks <- {1, 2},
         Draws <- MCDraws, Majority <- [D |-> 3, P |-> 2], MinOnTime <- 60, MinWindow <- 50,
         MinTarget <- 60, Odd <- {"adverse", "neutral", "late", "event-time", "no target", "no reason", "missing", "twice"},
         MaxOdd <- 1, OddAt <- {<<"F1", 1, "a">>, <<"H1", 1, "a">>} \cup {<<"P", t, "a">> : t \in 1..3},
         Inputs <- {Vouched, [Vouched EXCEPT !.clean = FALSE], [Vouched EXCEPT !.disclosed = FALSE],
                    [Vouched EXCEPT !.targets = FALSE, !.ledger = FALSE]}

\* The builders of the adapters alone, for the inputs of Facts.
Adapter == INSTANCE FactualEvidence
    WITH rows <- factRows, at <- factAt, todo <- writes, look <- lookups, Connection <- {}, Offers <- {},
         Responses <- {}, Requests <- {}, Answers <- {}, Probes <- {}, Instants <- {}, MaxCalls <- <<>>

Evidence(i, p, a) == [id |-> i, payload |-> p, provenance |-> "native", anchors |-> a]
MCOffers ==
    {Evidence("order", p, IF p.remaining = 1 THEN <<"a">> ELSE <<"a", "b">>) :
        p \in {f \in Adapter!OrderFact("o", 1..2) : f.filled = 1}} \cup
    {Evidence("cash", p, <<"b">>) :
        p \in {f \in Adapter!FinancialRecord("c", {0, 1}) :
                  \/ f.convention = "MAGNITUDE_WITH_DIRECTION"
                  \/ f.convention = "COST_POSITIVE" /\ f.direction = "CREDIT" /\ f.amount # 0}}
MCPages(i) ==
    {[id |-> i, dataset |-> "LAST_TRADED_PRICE", status |-> "AVAILABLE", observed |-> o, asOf |-> 2,
      coverage |-> [complete |-> b, listed |-> TRUE, final |-> TRUE, cursor |-> FALSE, missing |-> FALSE]] :
        o \in 1..2, b \in BOOLEAN}
MCResponses ==
    {<<g, h>> : g \in {x \in MCPages(1) : x.observed = 2 \/ ~x.coverage.complete},
                h \in {x \in MCPages(2) : x.observed = 1 /\ x.coverage.complete}}
MCProbes ==
    {[anchors |-> {"a", "b"}, candidate |-> p] :
        p \in {f \in Adapter!OrderFact("o", 1..2) : f.remaining = 1}}

MCAnswers == Adapter!PortfolioResponse(1, 1, {"x"})

Facts == INSTANCE FactualEvidence
    WITH rows <- factRows, at <- factAt, todo <- writes, look <- lookups, Connection <- {1, 2},
         Offers <- MCOffers, Responses <- MCResponses, Requests <- {[id |-> 1, symbols |-> {"x"}]},
         Answers <- MCAnswers, Probes <- MCProbes, Instants <- {1, 2},
         MaxCalls <- <<2, 1>>

ASSUME /\ Certified!CertifiedConstants /\ Screen!ScreenConstants /\ Study!StudyConstants
       /\ Metrics!TimeframesNest
       \* The pages are ones the adapter builds.
       /\ \A i \in 1..2 : MCPages(i) \subseteq Adapter!SelectionResult(i, "LAST_TRADED_PRICE", 1..2)

\* The coordinators are interchangeable.
CoordinatorSymmetry == Permutations(Coordinator)

certifiedVars == <<replayed, up, journal, made, certified, errors, stops>>
lifeVars == <<history, short, validity, proxy, fact, end, life>>
screenVars ==
    <<mark, lives, screenUp, book, outcome, written, failed, screenLedger, guards, final, crashes>>
studyVars == <<stages, temporary, entries, lock, publish, coordinator, starts, overlap>>
replayVars == <<certifiedVars, lifeVars, screenVars, studyVars>>
archiveVars == <<disk, dataset, prep, archive, memo, response, spent>>
metricsVars == <<asset, btc, covered, cutoff, todo, observed>>
backtestVars == <<market, cache, status, mapping, results, ledger, comparisons, proc, deaths>>
kernelVars == <<tape, atr, swings, reading, evidence, class>>
scopeVars == <<revisions, outbox, scope, blind, epochs, resolved, frozen, handoffs, jobs>>
planningVars == <<handoff, rules, edits, pin, opportunity, grant, workflow, sent>>
captureVars == <<now, drift, revised, flight, requests, sink, copies, ready, seal, records, joined>>
fitVars == <<inputs, replaced, features, assemblies, readiness, bundles, companions, scores>>
decisionVars == <<evaluated, matured, dossiers, report, decision>>
factVars ==
    <<factRows, factAt, writes, lookups, savepoint, mine, saved, probe, found, said, given, calls>>
engineVars == <<scopeVars, kernelVars, planningVars>>
estimatorVars == <<captureVars, fitVars, decisionVars>>
historyVars == <<archiveVars, metricsVars, backtestVars>>
dataVars == <<historyVars, engineVars, estimatorVars, factVars>>
vars == <<kind, replayVars, dataVars>>

Init ==
    /\ kind \in Kind
    /\ IF kind = "certified" THEN Certified!ReplayInit
       ELSE /\ replayed = None /\ up = None /\ journal = None /\ made = None /\ certified = None
            /\ errors = None /\ stops = None
    /\ IF kind = "life"
       THEN /\ Certified!LifeInit
            \* A marketable post-only order is rejected whatever the minutes hold.
            /\ proxy \in {2, -2} => \A m \in 2..3 : history[m].trades = <<>>
       ELSE /\ history = None /\ short = None /\ validity = None /\ proxy = None /\ fact = None
            /\ end = None /\ life = None
    /\ IF kind = "screen" THEN Screen!Init
       ELSE /\ mark = None /\ lives = None /\ screenUp = None /\ book = None /\ outcome = None
            /\ written = None /\ failed = None /\ screenLedger = None /\ guards = None /\ final = None
            /\ crashes = None
    /\ IF kind = "study" THEN Study!Init
       ELSE /\ stages = None /\ temporary = None /\ entries = None /\ lock = None /\ publish = None
            /\ coordinator = None /\ starts = None /\ overlap = None
    /\ IF kind \in {"preparation", "trades"} THEN Archive!Init
       ELSE /\ disk = None /\ dataset = None /\ prep = None /\ archive = None /\ memo = None
            /\ response = None /\ spent = None
    /\ IF kind = "metrics" THEN Metrics!Init
       ELSE /\ asset = None /\ btc = None /\ covered = None /\ cutoff = None /\ todo = None
            /\ observed = None
    /\ IF kind = "backtest" THEN Backtest!Init
       ELSE /\ market = None /\ cache = None /\ status = None /\ mapping = None
            /\ results = None /\ ledger = None /\ comparisons = None /\ proc = None
            /\ deaths = None
    /\ IF kind = "scope" THEN Scope!Init
       ELSE /\ revisions = None /\ outbox = None /\ scope = None /\ blind = None /\ epochs = None
            /\ resolved = None /\ frozen = None /\ handoffs = None /\ jobs = None
    /\ IF kind = "kernels" THEN Scope!KernelInit
       ELSE /\ tape = None /\ atr = None /\ swings = None /\ reading = None
            /\ evidence = None /\ class = None
    /\ IF kind = "planning" THEN Planning!Init
       ELSE /\ handoff = None /\ rules = None /\ edits = None /\ pin = None
            /\ opportunity = None /\ grant = None /\ workflow = None /\ sent = None
    /\ IF kind = "capture" THEN Capture!Init
       ELSE /\ now = None /\ drift = None /\ revised = None /\ flight = None
            /\ requests = None /\ sink = None /\ copies = None /\ ready = None
            /\ seal = None /\ records = None /\ joined = None
    /\ IF kind = "fit" THEN Fit!Init
       ELSE /\ inputs = None /\ replaced = None /\ features = None /\ assemblies = None
            /\ readiness = None /\ bundles = None /\ companions = None /\ scores = None
    /\ IF kind = "decision" THEN Decision!Init
       ELSE /\ evaluated = None /\ matured = None /\ dossiers = None /\ report = None
            /\ decision = None
    /\ IF kind = "facts" THEN Facts!Init
       ELSE /\ factRows = None /\ factAt = None /\ writes = None /\ lookups = None /\ savepoint = None
            /\ mine = None /\ saved = None /\ probe = None /\ found = None /\ said = None
            /\ given = None /\ calls = None

Replays ==
    \/ kind = "certified" /\ Certified!ReplayNext /\ UNCHANGED <<lifeVars, screenVars, studyVars>>
    \/ kind = "life" /\ Certified!LifeNext /\ UNCHANGED <<certifiedVars, screenVars, studyVars>>
    \/ kind = "screen" /\ Screen!Next /\ UNCHANGED <<certifiedVars, lifeVars, studyVars>>
    \/ kind = "study" /\ Study!Next /\ UNCHANGED <<certifiedVars, lifeVars, screenVars>>

Histories ==
    \/ kind = "preparation" /\ Archive!Preparation /\ UNCHANGED <<metricsVars, backtestVars>>
    \/ kind = "trades" /\ Archive!Trades /\ UNCHANGED <<metricsVars, backtestVars>>
    \/ kind = "metrics" /\ Metrics!Next /\ UNCHANGED <<archiveVars, backtestVars>>
    \/ kind = "backtest" /\ Backtest!Next /\ UNCHANGED <<archiveVars, metricsVars>>

Engines ==
    \/ kind = "scope" /\ Scope!Next /\ UNCHANGED <<kernelVars, planningVars>>
    \/ kind = "kernels" /\ Scope!KernelNext /\ UNCHANGED <<scopeVars, planningVars>>
    \/ kind = "planning" /\ Planning!Next /\ UNCHANGED <<scopeVars, kernelVars>>

Estimators ==
    \/ kind = "capture" /\ Capture!Next /\ UNCHANGED <<fitVars, decisionVars>>
    \/ kind = "fit" /\ Fit!Next /\ UNCHANGED <<captureVars, decisionVars>>
    \/ kind = "decision" /\ Decision!Next /\ UNCHANGED <<captureVars, fitVars>>

Next ==
    /\ UNCHANGED kind
    /\ \/ Replays /\ UNCHANGED dataVars
       \/ Histories /\ UNCHANGED <<replayVars, engineVars, estimatorVars, factVars>>
       \/ Engines /\ UNCHANGED <<replayVars, historyVars, estimatorVars, factVars>>
       \/ Estimators /\ UNCHANGED <<replayVars, historyVars, engineVars, factVars>>
       \/ kind = "facts" /\ Facts!Next /\ UNCHANGED <<replayVars, historyVars, engineVars, estimatorVars>>

Spec == Init /\ [][Next]_vars

-----------------------------------------------------------------------------
\* Whatever the interruptions, a certified record is given capital exactly when
\* the completed positions open at its time leave room (CertifiedReplay).
ReplayIsSequential == kind = "certified" => Certified!ReplayIsSequential

\* A trade reported as closed is one the raw trades execute, and the window
\* grown chunk by chunk gives the result of the whole window (CertifiedReplay).
ClosedAsTraded == kind = "life" => Certified!ClosedAsTraded /\ Certified!ChunksAgree

\* No order is credited with a fill past a breach of the daily loss guard, and
\* the finalized ledger file and the book in memory hold one history
\* (ScreenReplay).
ScreenHolds == kind = "screen" => Screen!NoFillAfterBreach /\ Screen!LedgerIsBook

\* No sealed stage and no ledger entry of the study rests on replaced bytes,
\* and a status accepts what coordinators finished one at a time, whatever died
\* (DevelopmentStudy).
EvidenceRests == kind = "study" => Study!EvidenceRests

\* A dataset declared ready is whole but for its trades, an available window of
\* a whole day's file holds every trade of it (MarketArchive), observations at a cutoff ignore the
\* future, an available direction rests on aligned windows without a hole
\* (HistoricalMetrics), and an accepted fact is final: one content per identity,
\* answers that stay true, magnitudes signed by their direction
\* (FactualEvidence, with the strengthening its proof uses).
MarketDataHolds ==
    /\ kind \in {"preparation", "trades"} => Archive!ReadyIsWhole /\ Archive!WindowIsCovered
    /\ kind = "metrics" => Metrics!FutureIsIgnored /\ Metrics!ClassifierIsAligned
    /\ kind = "facts" => Facts!FactsInv /\ Facts!MagnitudeIsDirected

\* A finished backtest has exactly the trades of its history, each decided
\* without looking ahead (HistoricalBacktest).
BacktestIsExact == kind = "backtest" => Backtest!ResultIsExact /\ Backtest!NoLookahead

\* From Set to order: a handoff is backed by its epoch and the epochs follow
\* the scope; the formulas favour no direction, later candles change no swing
\* that was reported, the ATR stays an average of the ranges and participation
\* is rare (SetScope); the two evaluations of a position agree, and its order
\* fits the grant (PositionPlanning).
PipelineHolds ==
    /\ kind = "scope" => Scope!HandoffIsBacked /\ Scope!EpochFollowsScope
    /\ kind = "kernels" => /\ Scope!FormulasAreFair /\ Scope!SwingsAreFinal /\ Scope!AtrIsAverage
                           /\ Scope!ParticipationIsRare
    /\ kind = "planning" => Planning!GatesAgree /\ Planning!SpecFitsGrant


\* The estimator is accepted on evidence of every unit of both stages
\* (EstimatorDecision).
AcceptIsEarned == kind = "decision" => Decision!AcceptIsEarned
=============================================================================

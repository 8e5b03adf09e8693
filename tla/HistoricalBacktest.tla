-------------------------- MODULE HistoricalBacktest --------------------------
(***************************************************************************)
(* The historical backtest (triggertrade/backtest): the kline cache and    *)
(* its paged download, the replay of a Trigger Set over the candles, the   *)
(* simulated trades in the shared accounting ledger, the immutable run,    *)
(* result and comparison records.  Processes run and compare at the same   *)
(* time over one SQLite database and one cache directory; each may die     *)
(* between any two writes, and in the middle of writing the cache file.    *)
(*                                                                         *)
(* Candles are one symbol's, candle i closes at instant i.  Costs are per  *)
(* trade; trace records, sizing and risk verdicts do not depend on the run *)
(* and are a constant set of candles the risk manager refuses.             *)
(***************************************************************************)
EXTENDS Integers, Sequences, FiniteSets, FiniteSetsExt

CONSTANTS None, Procs,
          Markets,     \* histories: sequences of [o, c, v]
          Runs,        \* [id, volume]: a plan with a Set, which may have TRG-002
          From, To,    \* evaluation_start and evaluation_end
          Warmup, Threshold, VolumeWindow, RegimeWindow,
          Refused,     \* candles whose intent the risk manager rejects
          Funding,     \* candles that cross a funding timestamp
          Cost, Page,
          MaxDeaths

VARIABLES market,
          cache,       \* [rows, meta]: None, "torn" or "whole"; is there metadata
          status, mapping, results,  \* backtest_runs, backtest_run_trades, backtest_results
          ledger,      \* closed trades of evidence source BACKTEST
          comparisons,
          proc, deaths

vars == <<market, cache, status, mapping, results, ledger, comparisons, proc, deaths>>
store == <<status, mapping, results, ledger, comparisons>>

Idle == [at |-> "idle"]
\* The runs differ in their Set only.
First == CHOOSE r \in Runs : ~r.volume
Second == CHOOSE r \in Runs : r.volume

Init == /\ market \in Markets
        /\ cache = [rows |-> None, meta |-> FALSE]
        /\ status = [r \in Runs |-> None] /\ mapping = [r \in Runs |-> {}] /\ results = [r \in Runs |-> None]
        /\ ledger = {} /\ comparisons = {}
        /\ proc = [p \in Procs |-> Idle] /\ deaths = 0

Goes(p, to) == proc' = [proc EXCEPT ![p].at = to]
Ends(p) == proc' = [proc EXCEPT ![p] = Idle]

---------------------------------------------------------------------------
(* data.py: the cache and the download.                                    *)

\* validate_historical_candles of the rows read back.
Readable == cache.rows = "whole"

\* A hit goes on with the run, a torn file next to metadata raises.
Load(p, r) ==
    /\ proc[p] = Idle
    /\ IF cache.rows = None \/ ~cache.meta
       THEN proc' = [proc EXCEPT ![p] = [at |-> "fetch", run |-> r, i |-> 0, ids |-> {}]]
       ELSE /\ Readable
            /\ proc' = [proc EXCEPT ![p] = [at |-> "create", run |-> r, i |-> 0, ids |-> {}]]
    /\ UNCHANGED <<market, cache, store, deaths>>

\* Contiguous pages from the start to the end; a third failure raises.
FetchPage(p) ==
    /\ proc[p].at = "fetch"
    /\ \/ /\ proc[p].i < Len(market)
          /\ proc' = [proc EXCEPT ![p].i = Min({@ + Page, Len(market)})]
       \/ proc[p].i = Len(market) /\ Goes(p, "rows")
       \/ proc[p].i < Len(market) /\ Ends(p)
    /\ UNCHANGED <<market, cache, store, deaths>>

\* write_text truncates and writes; the metadata comes last.
SaveCache(p) ==
    /\ \/ /\ proc[p].at = "rows"
          /\ cache' = [cache EXCEPT !.rows = "torn"] /\ Goes(p, "written")
       \/ /\ proc[p].at = "written"
          /\ cache' = [cache EXCEPT !.rows = "whole"] /\ Goes(p, "meta")
       \/ /\ proc[p].at = "meta"
          /\ cache' = [cache EXCEPT !.meta = TRUE] /\ Goes(p, "create")
    /\ UNCHANGED <<market, store, deaths>>

---------------------------------------------------------------------------
(* engine.py                                                               *)

\* _validate_warmup
WarmedUp == From - 1 >= Warmup /\ From < To

\* create_run; a run with a result returns it.
CreateRun(p) ==
    LET r == proc[p].run IN
    /\ proc[p].at = "create"
    /\ WarmedUp
    /\ IF results[r] # None THEN Ends(p) /\ UNCHANGED status
       ELSE /\ Goes(p, "running?")
            /\ status' = [status EXCEPT ![r] = IF @ = None THEN "CREATED" ELSE @]
    /\ UNCHANGED <<market, cache, mapping, results, ledger, comparisons, deaths>>

\* update_status: the SELECT, and then the UPDATE.
UpdateStatus(p) ==
    LET r == proc[p].run IN
    /\ \/ /\ proc[p].at = "running?"
          /\ IF status[r] = "COMPLETED" THEN Ends(p) ELSE Goes(p, "running")
          /\ UNCHANGED status
       \/ /\ proc[p].at = "running"
          /\ status' = [status EXCEPT ![r] = "RUNNING"]
          /\ proc' = [proc EXCEPT ![p].at = "replay", ![p].i = 2]
       \/ /\ proc[p].at = "completed"
          /\ status' = [status EXCEPT ![r] = "COMPLETED"]
          /\ Ends(p)
    /\ UNCHANGED <<market, cache, mapping, results, ledger, comparisons, deaths>>

\* Mutant: the history of a decision reaches the candle it will be filled in.
HistoryMutant(h, i) == SubSeq(h, 1, i + 1)

\* history_to_now: the candles closed at the decision.
History(h, i) == SubSeq(h, 1, i)

PriceSignal(h) == h[Len(h)].c - h[Len(h) - 1].c <= - Threshold

\* More than half of the previous volumes are below this one.
VolumeSignal(h) ==
    LET n == Len(h) - 1
        previous == (n - VolumeWindow + 1)..n
    IN /\ n >= VolumeWindow
       /\ 2 * Cardinality({j \in previous : h[j].v < h[Len(h)].v}) > VolumeWindow

Downtrend(h) == Len(h) > RegimeWindow /\ h[Len(h)].c < h[Len(h) - RegimeWindow].c

\* An approved intent at candle i of history h.
Decides(h, r, i) ==
    LET past == History(h, i) IN
    /\ PriceSignal(past)
    /\ r.volume => VolumeSignal(past)
    /\ Downtrend(past)
    /\ i \notin Refused

\* simulate_closed_trade: in at the open of the next candle, out at its close.
Trade(h, r, i) == [run |-> r.id, at |-> i + 1, net |-> h[i + 1].c - h[i + 1].o - Cost]

Processes(i) == i >= From /\ i <= To

Replay(p) ==
    LET r == proc[p].run
        i == proc[p].i
    IN /\ proc[p].at = "replay"
       /\ IF i >= Len(market) THEN Goes(p, "trades") /\ UNCHANGED ledger
          ELSE LET new == IF Processes(i) /\ Decides(market, r, i) /\ i + 1 \notin Funding
                          THEN {Trade(market, r, i)} ELSE {}
               IN /\ ledger' = ledger \cup new
                  /\ proc' = [proc EXCEPT ![p].i = i + 1, ![p].ids = @ \cup {<<t.run, t.at>> : t \in new}]
       /\ UNCHANGED <<market, cache, status, mapping, results, comparisons, deaths>>

\* Mutant: the trades of every run of the ledger.
TradeFactsMutant(ids) == ledger

\* _trade_facts: the ledger rows of the run's own trade ids.
TradeFacts(ids) == {t \in ledger : <<t.run, t.at>> \in ids}

Net(T) == MapThenSumSet(LAMBDA t : t.net, T)
\* compute_futures_performance
Performance(T) == [closed |-> Cardinality(T), net |-> Net(T),
                   wins |-> Cardinality({t \in T : t.net > 0}), losses |-> Cardinality({t \in T : t.net < 0})]

\* save_run_trades: rows already there must be the same ones.
SaveRunTrades(p) ==
    LET r == proc[p].run IN
    /\ proc[p].at = "trades"
    /\ IF mapping[r] \notin {{}, proc[p].ids} THEN Ends(p) /\ UNCHANGED mapping
       ELSE mapping' = [mapping EXCEPT ![r] = proc[p].ids] /\ Goes(p, "result")
    /\ UNCHANGED <<market, cache, status, results, ledger, comparisons, deaths>>

SaveResult(p) ==
    LET r == proc[p].run
        result == Performance(TradeFacts(proc[p].ids))
    IN /\ proc[p].at = "result"
       /\ IF results[r] \notin {None, result} THEN Ends(p) /\ UNCHANGED results
          ELSE results' = [results EXCEPT ![r] = result] /\ Goes(p, "completed")
       /\ UNCHANGED <<market, cache, status, mapping, ledger, comparisons, deaths>>

---------------------------------------------------------------------------
(* comparison.py and analytics.compare_baseline                            *)

Overlap(B, C) ==
    LET from == Max({Min({t.at : t \in B}), Min({t.at : t \in C})})
        to == Min({Max({t.at : t \in B}), Max({t.at : t \in C})})
    IN from..to

Comparison(b, c) == [baseline |-> Performance(b), candidate |-> Performance(c)]

\* None: the comparison is unavailable.
CompareBaseline(B, C) ==
    IF B = {} \/ C = {} THEN None
    ELSE LET both == Overlap(B, C)
             b == {t \in B : t.at \in both}
             c == {t \in C : t.at \in both}
         IN IF b = {} \/ c = {} THEN None
            ELSE Comparison(b, c)

\* Both runs exist; nothing asks whether they are completed.
CompareRuns ==
    /\ \A r \in Runs : status[r] # None
    /\ comparisons = {}
    /\ comparisons' = {[of |-> mapping,
                        is |-> CompareBaseline(TradeFacts(mapping[First]), TradeFacts(mapping[Second]))]}
    /\ UNCHANGED <<market, cache, status, mapping, results, ledger, proc, deaths>>

Die(p) == /\ proc[p] # Idle /\ deaths < MaxDeaths
          /\ Ends(p) /\ deaths' = deaths + 1
          /\ UNCHANGED <<market, cache, store>>

Next == \/ \E p \in Procs : \/ \E r \in Runs : Load(p, r)
                            \/ FetchPage(p) \/ SaveCache(p) \/ CreateRun(p) \/ UpdateStatus(p)
                            \/ Replay(p) \/ SaveRunTrades(p) \/ SaveResult(p) \/ Die(p)
        \/ CompareRuns

---------------------------------------------------------------------------
\* What a run should find: every entry its Set decides in the window.
Expected(r) == {Trade(market, r, i) : i \in {j \in From..To : /\ j >= 2 /\ j < Len(market)
                                                              /\ Decides(market, r, j) /\ j + 1 \notin Funding}}

\* However processes replay the same and the other run, die and start again,
\* the trades and the result stored for a run are those of one uninterrupted
\* replay of it alone (BacktestEngine.run, _trade_facts).
ResultIsExact == \A r \in Runs :
    /\ mapping[r] \in {{}, {<<t.run, t.at>> : t \in Expected(r)}}
    /\ results[r] # None => results[r] = Performance(Expected(r))

\* No trade of the ledger would have been decided otherwise in a history that
\* agrees with this one up to the candle it was decided on
\* (BacktestEngine._run_events, BacktestFuturesSimulator).
NoLookahead == \A t \in ledger, h \in Markets :
    LET r == CHOOSE x \in Runs : x.id = t.run
    IN (\A j \in 1..(t.at - 1) : h[j] = market[j]) => Decides(h, r, t.at - 1)
===============================================================================

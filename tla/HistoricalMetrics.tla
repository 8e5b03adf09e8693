-------------------------- MODULE HistoricalMetrics --------------------------
(***************************************************************************)
(* The historical metric producer of Research V1                           *)
(* (research_v1_historical_triggers.py): which candles each metric reads   *)
(* at a cutoff, and when it refuses.  The replay hands it the whole        *)
(* dataset, later candles too; candles may be missing from either stream.  *)
(*                                                                         *)
(* A one-minute candle is named by its close, 1..Last.  Values are left    *)
(* out: an observation is its status, the slot it is of, and the minutes   *)
(* of each stream it was computed from.                                    *)
(***************************************************************************)
EXTENDS Integers, Sequences, FiniteSets, FiniteSetsExt

CONSTANTS Last,                    \* minutes of the dataset
          Five, Fifteen, Hour, Day,\* the timeframes, in minutes
          Short,                   \* candles of the participation window (61)
          Efficiency,              \* 15m bars of directional efficiency (9)
          Warm,                    \* bars before the first ATR (14)
          SwingBars,               \* bars a swing sequence needs (7)
          LookbackDays, MinDays,   \* 30 and 14
          Holes,                   \* sets of candles missing from a stream
          Cutoffs                  \* instants at which triggers are evaluated

\* What the constants must satisfy.
TimeframesNest == /\ Five > 1 /\ Fifteen % Five = 0 /\ Hour % Fifteen = 0 /\ Day % Hour = 0
                  /\ Day % Five = 0 /\ Cutoffs \subseteq 1 .. Last

VARIABLES asset, btc,              \* the candles the dataset holds
          trades,                  \* raw trade coverage: the last minute covered
          cutoff, todo, results

vars == <<asset, btc, trades, cutoff, todo, results>>

Minutes == 1 .. Last

Metrics == <<"F-001", "F-002", "RETURN_5m", "DE", "VNM_5m_z", "MOMENTUM_SCORE", "AGGRESSIVE_DELTA",
             "ATR_percentile", "RELATIVE_RETURN_15m", "RELATIVE_RETURN_Z", "RELATIVE_SCORE",
             "BTC_RETURN_Z", "BTC_CONTEXT_SCORE", "TOD_REL_TURNOVER", "SWING_15m", "SWING_1h",
             "classifier_direction">>

Init == /\ \E h, k \in Holes : asset = Minutes \ h /\ btc = Minutes \ k
        /\ cutoff \in Cutoffs /\ trades \in {cutoff, (cutoff \div Five) * Five}
        /\ todo = Metrics /\ results = <<>>

---------------------------------------------------------------------------
(* Bars: bar b of length l is whole when all its minutes are there.        *)

BarMinutes(b, l) == ((b - 1) * l + 1) .. (b * l)

\* Mutant: a bar is complete when its last minute is there.
BarsMutant(minutes, l) == {b \in 1 .. (Last \div l) : b * l \in minutes}

(* _aggregate_completed_candles: incomplete buckets are left out.          *)
Bars(minutes, l) == {b \in 1 .. (Last \div l) : BarMinutes(b, l) \subseteq minutes}

Contiguous(bars) == bars # {} /\ bars = Min(bars) .. Max(bars)

MinutesOf(bars, l) == UNION {BarMinutes(b, l) : b \in bars}

(* The n newest members.                                                   *)
Newest(S, n) == {x \in S : Cardinality({y \in S : y > x}) < n}

(* _eligible_candles of the asset: closed at or before the instant.        *)
Eligible(minutes, t) == {m \in minutes : m <= t}

\* Mutant: the companion stream is taken as it is.
BtcEligibleMutant(minutes, t) == minutes

(* The companion stream is cut again, at the instant each metric is for.   *)
BtcEligible(minutes, t) == {m \in minutes : m <= t}

Unavailable(t) == [status |-> "UNAVAILABLE", at |-> t, asset |-> {}, btc |-> {}]

Available(t, a, b) == [status |-> "AVAILABLE", at |-> t, asset |-> a, btc |-> b]

(* A value of the newest n members of S, when they are contiguous.         *)
Window(S, n, l, t) ==
    LET w == Newest(S, n) IN
    IF Cardinality(S) >= n /\ Contiguous(w) THEN Available(Max(w) * l, MinutesOf(w, l), {})
    ELSE Unavailable(t)

---------------------------------------------------------------------------
(* Reference populations: completed UTC days before the evaluation's day.  *)

StartOfDay(t) == (t \div Day) * Day

InLookback(bars, l, t) == {b \in bars : /\ (b - 1) * l >= StartOfDay(t) - LookbackDays * Day
                                        /\ b * l <= StartOfDay(t)}

DayOfBar(b, l) == ((b - 1) * l) \div Day

CompleteDays(bars, l) == {DayOfBar(b, l) : b \in {c \in bars :
                             Cardinality({d \in bars : DayOfBar(d, l) = DayOfBar(c, l)}) = Day \div l}}

(* None may be missing between two complete days.                          *)
Population(bars, l, t) ==
    LET days == CompleteDays(InLookback(bars, l, t), l) IN
    IF Cardinality(days) >= MinDays /\ Contiguous(days)
    THEN {b \in InLookback(bars, l, t) : DayOfBar(b, l) \in days} ELSE {}

(* The first Warm + 1 bars only seed the average true range.               *)
Seeded(bars) == {b \in bars : b >= Min(bars) + Warm}

(* A return needs the bar before.                                          *)
Returns(bars) == bars \ {Min(bars)}

(* The newest of the series against its population.                        *)
Score(bars, series, l, t) ==
    IF Contiguous(bars) /\ series # {} /\ Population(series, l, Max(series) * l) # {}
    THEN Available(Max(series) * l,
                   MinutesOf(Population(series, l, Max(series) * l) \cup {Max(series) - 1, Max(series)}, l), {})
    ELSE Unavailable(t)

---------------------------------------------------------------------------
(* The metrics, of the streams a (cut at the cutoff) and b (uncut).        *)

AtrPercentile(a) == Score(Bars(a, Fifteen), Seeded(Bars(a, Fifteen)), Fifteen, Max(a))

VnmZ(a) == Score(Bars(a, Five), Seeded(Bars(a, Five)), Five, Max(a))

OfBtc(o) == [o EXCEPT !.asset = {}, !.btc = o.asset]

BtcReturnZ(a, b) ==
    LET bars == Bars(BtcEligible(b, Max(a)), Fifteen) IN
    IF Cardinality(bars) < 2 THEN Unavailable(Max(a))
    ELSE OfBtc(Score(bars, Returns(bars), Fifteen, Max(a)))

(* The same two bars of both streams.                                      *)
RelativeReturn(a, b) ==
    LET bars == Bars(a, Fifteen)
        pair == Newest(bars, 2) IN
    IF /\ Cardinality(bars) >= 2 /\ Contiguous(pair)
       /\ pair \subseteq Bars(BtcEligible(b, Max(pair) * Fifteen), Fifteen)
    THEN Available(Max(pair) * Fifteen, MinutesOf(pair, Fifteen), MinutesOf(pair, Fifteen))
    ELSE Unavailable(Max(a))

(* _relative_return_15m_series: a return of the asset for each of BTC's.   *)
RelativeSeries(a, b) ==
    LET bars == Bars(a, Fifteen)
        other == Bars(BtcEligible(b, Max(bars) * Fifteen), Fifteen) IN
    IF Cardinality(bars) >= 2 /\ Contiguous(bars) /\ Contiguous(other) /\ bars \subseteq other
    THEN Returns(bars) ELSE {}

RelativeZ(a, b) ==
    LET score == Score(Bars(a, Fifteen), RelativeSeries(a, b), Fifteen, Max(a)) IN
    IF RelativeSeries(a, b) = {} THEN Unavailable(Max(a)) ELSE [score EXCEPT !.btc = score.asset]

Swing(a, l) == Window(Bars(a, l), IF Cardinality(Bars(a, l)) < SwingBars
                                  THEN SwingBars ELSE Cardinality(Bars(a, l)), l, Max(a))

BtcSwing(b, t) == LET e == BtcEligible(b, t) IN
                  IF e = {} THEN Unavailable(t) ELSE OfBtc(Swing(e, Hour))

BtcContext(a, b) ==
    LET z == BtcReturnZ(a, b)
        s == BtcSwing(b, Max(a)) IN
    IF z.status = "AVAILABLE" /\ s.status = "AVAILABLE"
    THEN Available(Max(BtcEligible(b, Max(a))), {}, z.btc \cup s.btc) ELSE Unavailable(Max(a))

(* The same clock bucket on each prior day the history reaches back to.    *)
SameClock(bars) == {p \in {Max(bars) - d * (Day \div Five) : d \in 1 .. LookbackDays} : p >= Min(bars)}

TodTurnover(a) ==
    LET bars == Bars(a, Five) IN
    IF bars # {} /\ SameClock(bars) \subseteq bars /\ Cardinality(SameClock(bars)) >= MinDays
    THEN Available(Max(bars) * Five, MinutesOf(SameClock(bars) \cup {Max(bars)}, Five), {})
    ELSE Unavailable(Max(a))

(* The raw trades must cover exactly the five minutes before the candle.   *)
Covers(covered, t) == covered = t

AggressiveDelta(a, covered) == IF Covers(covered, Max(a))
                               THEN Available(Max(a), {Max(a)}, {})
                               ELSE Unavailable(Max(a))

F001(a) == Window(a, 2, 1, Max(a))

F002(a) == Window(a, Short, 1, Max(a))

Return5m(a) == Window(a, Five + 1, 1, Max(a))

DirectionalEfficiency(a) == Window(Bars(a, Fifteen), Efficiency, Fifteen, Max(a))

Simple(m, a, b, covered) ==
    CASE m = "F-001"      -> F001(a)
      [] m = "F-002"      -> F002(a)
      [] m = "RETURN_5m"  -> Return5m(a)
      [] m = "DE"         -> DirectionalEfficiency(a)
      [] m \in {"VNM_5m_z", "MOMENTUM_SCORE"} -> VnmZ(a)
      [] m = "AGGRESSIVE_DELTA" -> AggressiveDelta(a, covered)
      [] m = "ATR_percentile"   -> AtrPercentile(a)
      [] m = "RELATIVE_RETURN_15m" -> RelativeReturn(a, b)
      [] m \in {"RELATIVE_RETURN_Z", "RELATIVE_SCORE"} -> RelativeZ(a, b)
      [] m = "BTC_RETURN_Z"      -> BtcReturnZ(a, b)
      [] m = "BTC_CONTEXT_SCORE" -> BtcContext(a, b)
      [] m = "TOD_REL_TURNOVER"  -> TodTurnover(a)
      [] m = "SWING_15m" -> Swing(a, Fifteen)
      [] m = "SWING_1h"  -> Swing(a, Hour)

---------------------------------------------------------------------------
(* classifier_direction: twelve inputs at the close of the newest whole    *)
(* five-minute bar, each available and of the slot expected of it.         *)

Floor(t, l) == (t \div l) * l

Inputs == {"SWING_1h", "SWING_15m", "DE", "MOMENTUM_SCORE", "VNM_5m_z", "RELATIVE_SCORE",
           "RELATIVE_RETURN_Z", "AGGRESSIVE_DELTA", "TOD_REL_TURNOVER", "ATR_percentile",
           "BTC_SWING_1h", "BTC_RETURN_Z"}

Expected(m, t) ==
    CASE m \in {"AGGRESSIVE_DELTA", "MOMENTUM_SCORE", "TOD_REL_TURNOVER", "VNM_5m_z"} -> t
      [] m \in {"ATR_percentile", "BTC_RETURN_Z", "DE", "RELATIVE_RETURN_Z", "RELATIVE_SCORE",
                "SWING_15m"} -> Floor(t, Fifteen)
      [] m \in {"SWING_1h", "BTC_SWING_1h"} -> Floor(t, Hour)

InputAt(m, a, b, t, covered) == IF m = "BTC_SWING_1h" THEN BtcSwing(b, t)
                                ELSE Simple(m, Eligible(a, t), b, covered)

Accepted(m, o, t) == o.status = "AVAILABLE" /\ o.at = Expected(m, t) /\ o.at <= t

Classifier(a, b, covered) ==
    LET t == Max(Bars(a, Five)) * Five
        input == [m \in Inputs |-> InputAt(m, a, b, t, covered)] IN
    IF Bars(a, Five) = {} THEN Unavailable(Max(a))
    ELSE IF \A m \in Inputs : Accepted(m, input[m], t)
    THEN Available(t, UNION {input[m].asset : m \in Inputs}, UNION {input[m].btc : m \in Inputs})
    ELSE Unavailable(t)

(* produce_research_v1_historical_metric; no candle at all is an error.    *)
Observation(m, a, b, t, covered) ==
    LET cut == Eligible(a, t) IN
    IF m = "classifier_direction" THEN Classifier(cut, b, covered)
                                  ELSE Simple(m, cut, b, covered)

(* evaluate_research_v1_historical_triggers: rule after rule, an empty     *)
(* stream ends the evaluation of all.                                      *)
Evaluate == /\ todo # <<>> /\ Eligible(asset, cutoff) # {}
            /\ results' = Append(results, Observation(Head(todo), asset, btc, cutoff, trades))
            /\ todo' = Tail(todo)
            /\ UNCHANGED <<asset, btc, trades, cutoff>>

InputUnavailable == /\ todo # <<>> /\ Eligible(asset, cutoff) = {}
                    /\ results' = <<>> /\ todo' = <<>>
                    /\ UNCHANGED <<asset, btc, trades, cutoff>>

Next == Evaluate \/ InputUnavailable

---------------------------------------------------------------------------
(* A replay that holds the whole dataset observes at a cutoff what it      *)
(* would have observed then: nothing later is read, from either stream.    *)
FutureIsIgnored ==
    results # <<>> =>
        results[Len(results)] = Observation(Metrics[Len(results)], Eligible(asset, cutoff),
                                            {m \in btc : m <= cutoff}, cutoff, trades)

(* An available direction rests on windows without a hole that all end at  *)
(* their newest slot before one cutoff, in both streams.                   *)
ClassifierIsAligned ==
    \A i \in DOMAIN results :
        Metrics[i] = "classifier_direction" /\ results[i].status = "AVAILABLE" =>
            LET t == results[i].at IN
            /\ \A l \in {Five, Fifteen, Hour} : Floor(t, l) >= l => BarMinutes(t \div l, l) \subseteq asset
            /\ \A l \in {Fifteen, Hour} : BarMinutes(t \div l, l) \subseteq btc
=============================================================================

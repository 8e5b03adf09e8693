-------------------------- MODULE EstimatorDecision --------------------------
(***************************************************************************)
(* The acceptance decision of the live direction estimator                 *)
(* (live_direction_estimator_v1: evaluation_metrics, evaluation_stage,     *)
(* evaluation_bootstrap, evaluation_coverage, evaluation_decision): the    *)
(* records of a stage fill a scheduled grid, outcomes mature and are       *)
(* joined, a caller takes a coverage report and one dossier per stage,     *)
(* each at a moment of its own, and decides on them.                       *)
(*                                                                         *)
(* Of the registered statistics two are kept: the benefit over all matched *)
(* rows ("ll") and the benefit over directional rows ("side"), which may   *)
(* have no denominator.  Every other one goes through the same means,      *)
(* bands and gates.  Values are only compared with zero, so a mean is kept *)
(* as a positive multiple of itself.  The replicates of the bootstrap are  *)
(* fixed by its seed: a constant.  Of two replicates, one of which repeats *)
(* the sample, the common critical value times a statistic's deviation is  *)
(* the distance of the other one: that is how wide a band is here.         *)
(***************************************************************************)
EXTENDS Integers, Sequences, FiniteSets, FiniteSetsExt, Functions

CONSTANTS None, Symbols,
          Phases,      \* stage -> phase ids: folds of D, one phase of H1 and of P
          Positions,   \* phase id -> 1..n, the scheduled grid
          Units,       \* 30-day intervals of P: unit -> set of positions
          Windows,     \* coverage windows of P, a set of sets of positions
          Blocks, Draws, \* block lengths; Draws[length][stage]: functions phase -> draw
          Majority,    \* adverse units that make a rejection: stage -> number
          MinOnTime, MinWindow, MinTarget, \* percent
          Inputs,      \* what the caller vouches for: [clean, disclosed, targets, ledger]
          Odd, OddAt,  \* kinds of records other than the usual one, and the keys where they are tried
          MaxOdd       \* bound on those, over all stages

VARIABLES records,     \* stage -> key -> sequence of records, or None before the stage
          matured,     \* outcomes of P up to here are joined
          dossiers, report, decision

vars == <<records, matured, dossiers, report, decision>>

Stages == {"D", "H1", "P"}
Metrics == {"ll", "side"}
Keys(st) == UNION {{ph} \X Positions[ph] \X Symbols : ph \in Phases[st]}

Init == /\ records = [st \in Stages |-> None] /\ matured = 0
        /\ dossiers = [st \in Stages |-> None] /\ report = None /\ decision = None

---------------------------------------------------------------------------
(* Records.                                                                *)

\* A sealed prediction with its joined truth; b is the sign of its benefit.
Record(kind, b) == [emitted |-> kind # "late", asof |-> kind # "event-time",
                    truth |-> CASE kind = "no target" -> "UNAVAILABLE" [] kind = "no reason" -> "UNREASONED"
                                [] OTHER -> "VALID",
                    directional |-> kind # "neutral", b |-> IF kind = "adverse" THEN - b ELSE b]

Recorded(kind, b) ==
    CASE kind = "missing" -> <<>>
      [] kind = "twice" -> <<Record("usual", b), Record("usual", b)>>
      [] OTHER -> <<Record(kind, b)>>

Used == Cardinality({x \in {st \in Stages : records[st] # None} \X UNION {Keys(st) : st \in Stages} :
                       x[2] \in Keys(x[1]) /\ records[x[1]][x[2]] # Recorded("usual", 1)})

\* Stages follow each other in the calendar.
Later(st) == CASE st = "D" -> {"H1", "P"} [] st = "H1" -> {"P"} [] OTHER -> {}
Current(st) == \A x \in Stages : (records[x] # None) <=> x \notin Later(st)

\* The records of a stage: all adverse, or the usual ones but for a few.
Collect(st) ==
    /\ \A x \in Stages : (records[x] = None) <=> x \in {st} \cup Later(st)
    /\ \E K \in {S \in SUBSET (Keys(st) \cap OddAt) : S = {} \/ Cardinality(S) + Used <= MaxOdd} :
       \E odd \in [K -> Odd] :
       \E b \in {1, -1} :
          /\ b = -1 => K = {} /\ Used = 0
          /\ records' = [records EXCEPT ![st] = [k \in Keys(st) |-> Recorded(IF k \in K THEN odd[k] ELSE "usual", b)]]
    /\ UNCHANGED <<matured, dossiers, report, decision>>

Mature == /\ records["P"] # None /\ matured < Cardinality(UNION Windows)
          /\ matured' = matured + 1
          /\ UNCHANGED <<records, dossiers, report, decision>>

\* What an evaluation sees: the truths that are joined.
Seen(st) ==
    [k \in Keys(st) |-> [j \in DOMAIN records[st][k] |->
        IF st = "P" /\ k[2] > matured THEN [records[st][k][j] EXCEPT !.truth = "NONE"] ELSE records[st][k][j]]]

---------------------------------------------------------------------------
(* Statistics.                                                             *)

Matched(r) == r.truth = "VALID" /\ r.emitted
Counts(r, m) == Matched(r) /\ (m = "side" => r.directional)

Scale == 840

\* cell_metrics: the mean benefit, 1 or -1 each, of the drawn rows of a phase
\* and a symbol.
Cell(recs, ph, s, draw, m) ==
    LET rows == {x \in (DOMAIN draw) \X {1, 2} :
                    LET q == recs[<<ph, draw[x[1]], s>>] IN x[2] <= Len(q) /\ Counts(q[x[2]], m)}
    IN IF rows = {} THEN None
       ELSE LET gains == {x \in rows : recs[<<ph, draw[x[1]], s>>][x[2]].b = 1}
            IN (Scale * (2 * Cardinality(gains) - Cardinality(rows))) \div Cardinality(rows)

\* Mutant: undefined values are left out of a mean.
MeanMutant(f) == LET defined == {i \in DOMAIN f : f[i] # None}
                 IN IF defined = {} THEN None ELSE MapThenSumSet(LAMBDA i : f[i], defined)

\* _mean: undefined as soon as one value is.
Mean(f) == IF DOMAIN f = {} \/ None \in Range(f) THEN None
           ELSE MapThenSumSet(LAMBDA i : f[i], DOMAIN f)

Whole(st) == [ph \in Phases[st] |-> [t \in Positions[ph] |-> t]]

OfPhase(recs, ph, draw, m) == Mean([s \in Symbols |-> Cell(recs, ph, s, draw[ph], m)])
OfSymbol(recs, st, s, draw, m) == Mean([ph \in Phases[st] |-> Cell(recs, ph, s, draw[ph], m)])
Aggregate(recs, phases, draw, m) == Mean([ph \in phases |-> OfPhase(recs, ph, draw, m)])

\* _registered: the statistics an envelope is made for.
Names(st) == ({"agg"} \X {"all"} \X Metrics) \cup ({"symbol"} \X Symbols \X Metrics)
             \cup (IF st = "D" THEN {"fold"} \X Phases[st] \X Metrics ELSE {})

Statistic(recs, st, draw, n) ==
    CASE n[1] = "agg" -> Aggregate(recs, Phases[st], draw, n[3])
      [] n[1] = "symbol" -> OfSymbol(recs, st, n[2], draw, n[3])
      [] n[1] = "fold" -> OfPhase(recs, n[2], draw, n[3])

\* _temporal: folds of D, 30-day intervals of P.
TemporalUnits(st) == CASE st = "D" -> Phases["D"] [] st = "P" -> DOMAIN Units [] OTHER -> {}

Temporal(recs, st, u, m) ==
    IF st = "D" THEN OfPhase(recs, u, Whole("D"), m)
    ELSE Mean([s \in Symbols |-> Cell(recs, "P", s, [t \in Units[u] |-> t], m)])

LeaveOneOut(recs, st, u, m) ==
    IF st = "D" THEN Aggregate(recs, Phases["D"] \ {u}, Whole("D"), m)
    ELSE Mean([s \in Symbols |-> Cell(recs, "P", s, [t \in Positions["P"] \ Units[u] |-> t], m)])

Abs(x) == IF x < 0 THEN - x ELSE x

\* simultaneous_bands: None is NOT_ESTIMABLE.
Band(point, samples) ==
    IF samples = {} \/ None \in samples \cup {point} THEN None
    ELSE LET w == IF Cardinality(samples) = 1 THEN 0 ELSE Max({Abs(x - point) : x \in samples})
         IN [lower |-> point - w, upper |-> point + w]

\* conservative_envelope of the bands of both block lengths.
Envelope(recs, st, n) ==
    LET point == Statistic(recs, st, Whole(st), n)
        band(len) == Band(point, {Statistic(recs, st, d, n) : d \in Draws[len][st]})
        both == {band(len) : len \in Blocks}
    IN IF None \in both THEN None
       ELSE [lower |-> Min({b.lower : b \in both}), upper |-> Max({b.upper : b \in both})]

\* registered_grid_complete: one record for every scheduled key.
Complete(recs) == \A k \in DOMAIN recs : Len(recs[k]) = 1

\* registered_bootstrap needs a complete grid; a StageDossier keeps what it saw.
Evaluate(st) ==
    /\ Current(st) /\ Complete(records[st]) /\ dossiers[st] = None
    /\ dossiers' = [dossiers EXCEPT ![st] = Seen(st)]
    /\ UNCHANGED <<records, matured, report, decision>>

CoverageReport ==
    /\ records["P"] # None /\ report = None
    /\ report' = Seen("P")
    /\ UNCHANGED <<records, matured, dossiers, decision>>

---------------------------------------------------------------------------
(* Gates.                                                                  *)

CompletedValidStage(st) == dossiers[st] # None /\ \A len \in Blocks : Draws[len][st] # {}

Estimable(st) == dossiers[st] # None /\ \A n \in Names(st) : Envelope(dossiers[st], st, n) # None

AtLeast(v, low) == v # None /\ v >= low

PositiveGates(st) == \A m \in Metrics :
    LET e == Envelope(dossiers[st], st, <<"agg", "all", m>>) IN e # None /\ e.lower > 0

StabilityGates(st) ==
    LET d == dossiers[st]
    IN \A m \in Metrics :
       /\ \A s \in Symbols : AtLeast(OfSymbol(d, st, s, Whole(st), m), 0)
       /\ \A u \in TemporalUnits(st) : AtLeast(Temporal(d, st, u, m), 0) /\ AtLeast(LeaveOneOut(d, st, u, m), 1)

Adverse(st, m) == LET e == Envelope(dossiers[st], st, <<"agg", "all", m>>) IN e # None /\ e.upper < 0

\* R1 (ll) and R2 (side): a robustly adverse aggregate and a majority of adverse units.
Rejects(st, m) ==
    /\ CompletedValidStage(st)
    /\ Cardinality({u \in TemporalUnits(st) : LET v == Temporal(dossiers[st], st, u, m) IN v # None /\ v < 0}) >= Majority[st]
    /\ Adverse(st, m)

Share(part, whole, percent) == whole > 0 /\ 100 * part >= percent * whole
Rows(s, T) == {x \in T \X {1, 2} : x[2] <= Len(report[<<"P", x[1], s>>])}
Row(s, x) == report[<<"P", x[1], s>>][x[2]]
Emitted(s, T) == {x \in Rows(s, T) : Row(s, x).emitted}

\* expected_key_accounting and one_terminal_status
KeyAccounting == Complete(report)
AsofEmitted == \A s \in Symbols : \A x \in Emitted(s, Positions["P"]) : Row(s, x).asof

\* prospective_coverage_gates
CoverageGates(targets, ledger) ==
    /\ KeyAccounting /\ AsofEmitted
    /\ \A s \in Symbols :
       LET emitted == Emitted(s, Positions["P"]) IN
       /\ Share(Cardinality(emitted), Cardinality(Positions["P"]), MinOnTime)
       /\ \A w \in Windows : Share(Cardinality(Emitted(s, w)), Cardinality(w), MinWindow)
       /\ targets /\ Share(Cardinality({x \in emitted : Row(s, x).truth = "VALID"}), Cardinality(emitted), MinTarget)
       /\ \A x \in emitted : Row(s, x).truth \notin {"NONE", "UNREASONED"}
    /\ Estimable("P") /\ ledger

H1Allows(clean) == clean => CompletedValidStage("H1") /\ Estimable("H1") /\ ~ \E m \in Metrics : Adverse("H1", m)

\* DecisionTrace, with the declaration it rests on.
Trace(verdict, clean) == [verdict |-> verdict, clean |-> clean]

\* decide_horizon: INVALID, then REJECT, then ACCEPT, then CONTINUE_RESEARCH.
Decide ==
    LET rejected == \E st \in {"D", "P"} : dossiers[st] # None /\ \E m \in Metrics : Rejects(st, m)
        earned == /\ \A st \in {"D", "P"} : CompletedValidStage(st)
                  /\ \A st \in {"D", "P"} : StabilityGates(st) /\ PositiveGates(st) /\ Estimable(st)
        accounted == report # None => KeyAccounting /\ AsofEmitted
    IN \E i \in Inputs :
       /\ decision' = Trace(
              CASE ~i.disclosed \/ ~accounted -> "INVALID"
                [] i.disclosed /\ accounted /\ rejected -> "REJECT"
                [] /\ i.disclosed /\ accounted /\ ~rejected
                   /\ report # None /\ earned /\ CoverageGates(i.targets, i.ledger)
                   /\ H1Allows(i.clean) -> "ACCEPT"
                [] OTHER -> "CONTINUE_RESEARCH",
              i.clean)
       /\ UNCHANGED <<records, matured, dossiers, report>>

Next == /\ decision = None
        /\ \/ \E st \in Stages : Collect(st) \/ Evaluate(st)
           \/ Mature \/ CoverageReport \/ Decide

---------------------------------------------------------------------------
\* Directional matched rows of a dossier within positions T of a phase.
In(d, ph, s, T) == {t \in T : Counts(d[<<ph, t, s>>][1], "side")}
Gains(d, ph, s, T) == \E t \in In(d, ph, s, T) : d[<<ph, t, s>>][1].b = 1

\* The units a stage's gates look at: phase and positions.
Spans(st) == IF st = "D" THEN {<<ph, Positions[ph]>> : ph \in Phases["D"]}
             ELSE {<<"P", Units[u]>> : u \in DOMAIN Units}

\* An ACCEPT is earned: in both stages every unit has directional matched rows
\* of every symbol, no unit is carried by the others and no symbol by the other
\* symbols (a symbol may lose within a unit: the gates average units over the
\* symbols and symbols over the stage), and every forecast P had to emit is
\* accounted for, was known in time and has a target or a reason for none
\* (evaluation_metrics._mean, stability_gates, prospective_coverage_gates).
AcceptIsEarned ==
    decision # None /\ decision.verdict = "ACCEPT" =>
        /\ \A st \in {"D", "P"} :
              /\ \A v \in Spans(st), s \in Symbols : In(dossiers[st], v[1], s, v[2]) # {}
              /\ \A v \in Spans(st) : \E s \in Symbols : Gains(dossiers[st], v[1], s, v[2])
              /\ \A s \in Symbols : \E v \in Spans(st) : Gains(dossiers[st], v[1], s, v[2])
        /\ \A t \in Positions["P"], s \in Symbols :
              /\ Len(report[<<"P", t, s>>]) = 1
              /\ report[<<"P", t, s>>][1].emitted =>
                    /\ report[<<"P", t, s>>][1].asof
                    /\ report[<<"P", t, s>>][1].truth \in {"VALID", "UNAVAILABLE"}
        /\ decision.clean => dossiers["H1"] # None
===============================================================================

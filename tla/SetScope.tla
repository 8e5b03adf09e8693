------------------------------ MODULE SetScope ------------------------------
(***************************************************************************)
(* Coins scope and formation epochs of one symbol, the Set handler that    *)
(* resolves an epoch, and the formulas it decides by (coins_scope.py,      *)
(* set_scope.py, persistence/coins_scope_store.py, set_engine/handler.py,  *)
(* set_engine/formulas.py).                                                *)
(*                                                                         *)
(* Portfolio publishes OPEN and CLOSE revisions; Set applies the delivered *)
(* messages, late, twice or out of order, and keeps one scope row and one  *)
(* epoch per OPEN.  Each operation is a READ COMMITTED transaction of some *)
(* worker: its reads and its write-and-commit are separate steps, and the  *)
(* row lock of FOR UPDATE exists only if the row does.                     *)
(*                                                                         *)
(* The formulas (KernelInit, KernelNext) read a tape of completed candles  *)
(* that grows by one candle at a time, or classify one set of inputs.  A   *)
(* number is an integer count of the working grid: Unit grid steps are 1,  *)
(* where the code has 10^36.                                               *)
(***************************************************************************)
EXTENDS Integers, Sequences, SequencesExt, FiniteSets

CONSTANTS None,       \* absence of a row, a binding or a job
          Workers,    \* concurrent transactions
          Events,     \* Coins messages: records [id, rev, action]
          Bindings,   \* configuration bindings an OPEN may be applied with
          Requests,   \* resolution requests, see ResolveDirection
          Rows,       \* the scope rows Set may start with: None or a CLOSE
          Unit, Wire, \* grid steps in 1; working steps in a wire step
          Candles,    \* candles: records [whole, high, low, close, volume]
          Cases,      \* classifier inputs, see ClassifyDirection
          Window, MinRank,   \* participation: 60 candles, 54 of them no larger
          Period, Span,      \* candles of the ATR seed (14) and of DE (9)
          Theta, Tick,       \* price move that triggers, in percent; tick size
          MaxTape     \* bound: candles of a tape

VARIABLES revisions,  \* triggertrade_coins_scope_revisions
          outbox,     \* COINS messages Portfolio has queued
          scope,      \* triggertrade_set_scope_current
          blind,      \* the last effect on it came of a worker that saw no row
          epochs,     \* triggertrade_set_scope_epochs by formation_epoch
          results,    \* SET_RESULT by epoch
          frozen,     \* SET_FROZEN_CONDITION by epoch
          handoffs,   \* MARKET_HANDOFF messages by epoch
          jobs,       \* what each worker has read inside its transaction
          tape,       \* the completed candles so far
          atr,        \* the ATR after each candle from the seed on
          swings,     \* every swing point reported so far
          reading,    \* the other formulas on the tape
          evidence,   \* the inputs to classify, None on a tape
          class       \* their classification

vars == <<revisions, outbox, scope, blind, epochs, results, frozen, handoffs, jobs>>

kernelVars == <<tape, atr, swings, reading, evidence, class>>

Revs == {e.rev : e \in Events}

Init == /\ revisions = {} /\ outbox = {}
        /\ scope \in Rows /\ blind = FALSE
        /\ epochs = [r \in Revs |-> None]
        /\ results = [r \in Revs |-> None]
        /\ frozen = [r \in Revs |-> None]
        /\ handoffs = [r \in Revs |-> None]
        /\ jobs = [w \in Workers |-> None]

Idle(w) == jobs[w] = None

Job(w, op) == jobs[w] # None /\ jobs[w].op = op

\* A worker that dies, or whose transaction raises, leaves nothing behind.
Abort(w) == /\ ~Idle(w)
            /\ jobs' = [jobs EXCEPT ![w] = None]
            /\ UNCHANGED <<revisions, outbox, scope, blind, epochs, results, frozen, handoffs>>

-----------------------------------------------------------------------------
\* Portfolio: CoinsScopeStore.publish

AtRevision(r) == {e \in revisions : e.rev = r}

Advances(e) == \A x \in revisions : x.rev < e.rev

\* The revision is absent and the newest committed one is older.  ORDER BY ..
\* LIMIT 1 FOR UPDATE locks the row it found but does not look again after
\* waiting for it, so the value read is the one committed at this step.
PublishRead(w, e) == /\ Idle(w)
                     /\ AtRevision(e.rev) = {}
                     /\ Advances(e)
                     /\ jobs' = [jobs EXCEPT ![w] = [op |-> "publish", event |-> e]]
                     /\ UNCHANGED <<revisions, outbox, scope, blind, epochs, results, frozen, handoffs>>

\* The COINS contract of a revision; its identity is the event's.
Queue(e) == outbox' = outbox \cup {e}

\* INSERT .. ON CONFLICT DO NOTHING, then the outbox; a different event under
\* the same revision is a CoinsScopeConflict (Abort).
PublishWrite(w) ==
  /\ Job(w, "publish")
  /\ LET e == jobs[w].event
     IN  /\ AtRevision(e.rev) \subseteq {e}
         /\ revisions' = revisions \cup {e}
         /\ Queue(e)
  /\ jobs' = [jobs EXCEPT ![w] = None]
  /\ UNCHANGED <<scope, blind, epochs, results, frozen, handoffs>>

-----------------------------------------------------------------------------
\* Set: CoinsScopeStore.apply_to_set

ActiveEpochs == {r \in Revs : epochs[r] # None /\ epochs[r].state = "ACTIVE"}

\* Mutant: an older revision is not recognised.
NewerMutant(e) == TRUE

\* apply_set_scope_delta: only a newer revision has an effect.
Newer(e) == scope # None => e.rev > scope.rev

\* The guarded upsert: ON CONFLICT .. WHERE stored revision < the new one.
UpsertWins(e) == scope # None => scope.rev < e.rev

Locked(w) == \E v \in Workers \ {w} : Job(v, "apply") /\ jobs[v].locked

\* The inbox lets one worker at a time handle a message.
Claimed(w, e) == \E v \in Workers \ {w} : Job(v, "apply") /\ jobs[v].event = e

\* An OPEN is applied under a complete configuration binding.
Bound(e, b) == e.action = "OPEN" => b # None

\* get_set_scope(for_update=True): waits for the row's holder, if there is a
\* row.  A stale revision is ignored; an OPEN without a binding raises.
ApplyRead(w, e, b) ==
  /\ Idle(w)
  /\ e \in outbox /\ ~Claimed(w, e)
  /\ scope # None => ~Locked(w)
  /\ Newer(e)
  /\ Bound(e, b)
  /\ jobs' = [jobs EXCEPT ![w] = [op |-> "apply", event |-> e, binding |-> b,
                                  locked |-> scope # None, read |-> FALSE, active |-> None]]
  /\ UNCHANGED <<revisions, outbox, scope, blind, epochs, results, frozen, handoffs>>

\* get_active_formation_epoch(for_update=True).
ApplyEpoch(w) ==
  /\ Job(w, "apply") /\ ~jobs[w].read
  /\ \A v \in Workers \ {w} : Job(v, "apply") => jobs[v].active \notin ActiveEpochs
  /\ jobs' = [jobs EXCEPT ![w].read = TRUE,
                          ![w].active = IF ActiveEpochs = {} THEN None ELSE CHOOSE r \in ActiveEpochs : TRUE]
  /\ UNCHANGED <<revisions, outbox, scope, blind, epochs, results, frozen, handoffs>>

\* _terminate_formation_epoch
Terminated(tab, r, e) ==
  IF r = None THEN tab
  ELSE [tab EXCEPT ![r].state = "TERMINATED", ![r].by = e]

Epoch(e, b) == [state |-> "ACTIVE", event |-> e, binding |-> b, by |-> None]

\* _open_formation_epoch
Opened(tab, e, b) == [tab EXCEPT ![e.rev] = Epoch(e, b)]

\* The epoch read as active is terminated whether or not the upsert then wins.
\* A second ACTIVE epoch violates the unique index and the transaction aborts.
\* A worker that found no row to lock is blind to a revision applied since.
ApplyWrite(w) ==
  /\ Job(w, "apply") /\ jobs[w].read
  /\ LET j == jobs[w]
         closed == Terminated(epochs, j.active, j.event)
     IN  IF UpsertWins(j.event)
         THEN /\ scope' = j.event
              /\ IF j.event.action = "OPEN"
                 THEN /\ ActiveEpochs \subseteq {j.active}
                      /\ closed[j.event.rev] = None
                      /\ epochs' = Opened(closed, j.event, j.binding)
                 ELSE epochs' = closed
         ELSE epochs' = closed /\ UNCHANGED scope
  /\ blind' = IF ~jobs[w].locked /\ scope # None THEN TRUE
              ELSE blind /\ ~UpsertWins(jobs[w].event)
  /\ jobs' = [jobs EXCEPT ![w] = None]
  /\ UNCHANGED <<revisions, outbox, results, frozen, handoffs>>

-----------------------------------------------------------------------------
\* Numbers (numeric_policy.py): exact rationals n/d, brought to the grid

Abs(x) == IF x < 0 THEN -x ELSE x

Sum(s) == FoldLeft(LAMBDA a, b : a + b, 0, s)

\* Mutant: a tie is rounded up.
HalfEvenMutant(n, d) == (2 * n + d) \div (2 * d)

\* half_even_to_grid: the grid value nearest to n/d, of two the even one.
HalfEven(n, d) ==
  LET floor == n \div d
      doubled == 2 * (n - floor * d)
  IN  IF doubled > d \/ (doubled = d /\ floor % 2 = 1) THEN floor + 1 ELSE floor

\* exact_midpoint_sqrt: the root of n/d on the grid, a midpoint to the even side.
MidpointSqrt(n, d) ==
  LET k == CHOOSE r \in 0 .. n : r * r * d <= n /\ (r + 1) * (r + 1) * d > n
      midpoint == d * (2 * k + 1) * (2 * k + 1)
  IN  IF 4 * n > midpoint \/ (4 * n = midpoint /\ k % 2 = 1) THEN k + 1 ELSE k

Clip(v, lower, upper) == IF v < lower THEN lower ELSE IF v > upper THEN upper ELSE v

\* A constant of the formulas, given in hundredths.
Hundredths(n) == (n * Unit) \div 100

\* q18_wire: what leaves the engine is on a coarser grid.
Exported(v) == Wire * HalfEven(v, Wire)

-----------------------------------------------------------------------------
\* The formulas on candles (set_engine/formulas.py)

\* require_common and require_ohlc_geometry; the timeframe, symbol and source
\* of a tape are one, the identities of its candles their positions.
Usable(c) == c.whole /\ 0 <= c.low /\ c.low <= c.close /\ c.close <= c.high

AllUsable(t) == \A i \in DOMAIN t : Usable(t[i])

\* evaluate_f001_price_displacement
Displacement(reference, observed, theta) ==
  LET move == HalfEven((observed.close - reference.close) * 100 * Unit, reference.close)
  IN  IF ~AllUsable(<<reference, observed>>) \/ reference.close = 0
      THEN [status |-> "UNAVAILABLE", trigger |-> "UNAVAILABLE", move |-> None]
      ELSE [status |-> "AVAILABLE", move |-> move,
            trigger |-> IF theta = None \/ theta <= 0 THEN "UNAVAILABLE"
                        ELSE IF Abs(move) >= theta THEN "TRUE" ELSE "FALSE"]

\* evaluate_f002_participation: at least twice the median volume, and a rank
\* of MinRank; the two middle volumes make twice the median.
Participation(current, history) ==
  LET volumes == [i \in DOMAIN history |-> history[i].volume]
      sorted == SortSeq(volumes, LAMBDA a, b : a < b)
      middle == sorted[Window \div 2] + sorted[Window \div 2 + 1]
      rank == Cardinality({i \in DOMAIN volumes : volumes[i] <= current.volume})
  IN  IF Len(history) # Window \/ ~AllUsable(Append(history, current)) THEN "UNAVAILABLE"
      ELSE IF middle <= 0 THEN "UNAVAILABLE"
      ELSE IF current.volume >= middle /\ rank >= MinRank THEN "TRUE" ELSE "FALSE"

\* true_range_for_timeframe
TrueRange(c, previous) == Max({c.high - c.low, Abs(c.high - previous), Abs(c.low - previous)})

\* The true range of each candle but the first of a tape.
Ranges(t) == [i \in 1 .. (Len(t) - 1) |-> TrueRange(t[i + 1], t[i].close)]

\* wilder_atr_seed_for_timeframe; the first candle is the predecessor.
AtrSeed(t) == HalfEven(Sum(Ranges(t)), Period)

\* Mutant: the prior average keeps its whole weight.
AtrUpdateMutant(prior, c, previous) == HalfEven(Period * prior + TrueRange(c, previous), Period)

\* wilder_atr_update_for_timeframe
AtrUpdate(prior, c, previous) ==
  HalfEven((Period - 1) * prior + TrueRange(c, previous), Period)

\* atr_pct_exports: no percentage of a zero close.
AtrPct(a, close) == IF close = 0 THEN None ELSE HalfEven(100 * Unit * a, close)

\* _atr_result
AtrResult(a, close) == [work |-> a, pct |-> AtrPct(a, close), wire |-> Exported(a)]

\* zscore_working: mean and deviation of the population, None when it is flat.
ZScore(current, population) ==
  LET n == Len(population)
      sum == Sum(population)
      squares == Sum([i \in DOMAIN population |-> population[i] * population[i]])
      deviation == MidpointSqrt(n * squares - sum * sum, n * n)
  IN  IF n = 0 THEN None ELSE IF deviation = 0 THEN None
      ELSE HalfEven((n * current - sum) * Unit, n * deviation)

\* normalize_working
Normalized(z) == IF z = None THEN None ELSE HalfEven(Clip(z, -2 * Unit, 2 * Unit), 2)

\* directional_efficiency: the way made over the way gone.
Efficiency(closes) ==
  LET path == Sum([i \in 1 .. (Len(closes) - 1) |-> Abs(closes[i + 1] - closes[i])])
  IN  IF path = 0 THEN 0 ELSE HalfEven(Abs(Last(closes) - Head(closes)) * Unit, path)

\* Mutant: a plateau counts at each of its candles.
SwingPointsMutant(t, type) ==
  {i \in 3 .. (Len(t) - 2) : \A j \in (i - 2) .. (i + 2) :
     IF type = "HIGH" THEN t[i].high >= t[j].high ELSE t[i].low <= t[j].low}

\* swing_points: beyond the two candles before, not behind the two after.
SwingPoints(t, type) ==
  {i \in 3 .. (Len(t) - 2) :
     IF type = "HIGH"
     THEN /\ \A j \in {i - 2, i - 1} : t[i].high > t[j].high
          /\ \A j \in {i + 1, i + 2} : t[i].high >= t[j].high
     ELSE /\ \A j \in {i - 2, i - 1} : t[i].low < t[j].low
          /\ \A j \in {i + 1, i + 2} : t[i].low <= t[j].low}

\* swing_sequence_state: the last two highs and the last two lows, each pair
\* further apart than a tick.
SwingSequence(t) ==
  LET highs == SwingPoints(t, "HIGH")
      lows == SwingPoints(t, "LOW")
      rise(points, price(_)) ==
        price(Max(points)) - price(Max(points \ {Max(points)}))
      up == rise(highs, LAMBDA i : t[i].high)
      under == rise(lows, LAMBDA i : t[i].low)
  IN  IF Cardinality(highs) < 2 \/ Cardinality(lows) < 2 THEN "UNAVAILABLE"
      ELSE IF up > Tick /\ under > Tick THEN "BULLISH"
      ELSE IF up < -Tick /\ under < -Tick THEN "BEARISH" ELSE "AMBIGUOUS"

-----------------------------------------------------------------------------
\* F-005 (classify_direction); an input that does not parse is None

Structure(s) == CASE s = "BULLISH" -> Unit [] s = "BEARISH" -> -Unit [] s = "AMBIGUOUS" -> 0

\* x, in full or half depending on how strong (0 .. Unit) its support is.
Weighted(x, strength) == HalfEven(x * HalfEven(Unit + strength, 2), Unit)

BtcContextScore(i) ==
  HalfEven(60 * Structure(i.btcStructure) + 40 * HalfEven(Clip(i.btcZ, -2 * Unit, 2 * Unit), 2), 100)

ClassScore(i) ==
  LET structure == HalfEven(Structure(i.structure1h) + Structure(i.structure15m), 2)
      efficient == HalfEven(Clip((i.de - Hundredths(30)) * 5, 0, 2 * Unit), 2)
      momentum == Weighted(Clip(i.momentum, -Unit, Unit), efficient)
      relative == Clip(i.relative, -Unit, Unit)
      active == HalfEven(Clip((i.turnover - Hundredths(70)) * 10, 0, 13 * Unit), 13)
      flow == Weighted(HalfEven(i.delta, 100), active)
  IN  HalfEven(35 * structure + 25 * momentum + 15 * relative + 15 * flow + 10 * BtcContextScore(i), 100)

\* _candidate_veto: side is 1 of a long candidate, -1 of a short one.
Veto(i, side) ==
  IF side * BtcContextScore(i) <= -Hundredths(70) THEN "BTC_CONTRADICTION_VETO"
  ELSE IF side * i.relativeZ <= -2 * Unit THEN "RELATIVE_CONTRADICTION_VETO"
  ELSE IF side * i.vnmZ <= -2 * Unit THEN "LOCAL_MOMENTUM_VETO" ELSE None

Classified(status, direction, score, stage, veto) ==
  [status |-> status, direction |-> direction, score |-> score, stage |-> stage, veto |-> veto]

Rejected(stage) == Classified("AVAILABLE", "NONE", None, stage, None)

Candidate(i, score) ==
  LET side == IF score > 0 THEN 1 ELSE -1
      veto == Veto(i, side)
  IN  IF Abs(score) < Hundredths(35) THEN Classified("AVAILABLE", "NONE", score, None, None)
      ELSE Classified("AVAILABLE", IF veto # None THEN "NONE" ELSE IF side = 1 THEN "LONG" ELSE "SHORT",
                      score, None, veto)

ClassifyDirection(i) ==
  IF "UNAVAILABLE" \in {i.structure1h, i.structure15m, i.btcStructure}
     \/ \E f \in DOMAIN i : i[f] = None
  THEN Classified("UNAVAILABLE", "NONE", None, "DATA_UNAVAILABLE", None)
  ELSE IF i.de < Hundredths(30) THEN Rejected("DIRECTIONAL_EFFICIENCY_GATE")
  ELSE IF i.turnover < Hundredths(70) THEN Rejected("ACTIVITY_GATE")
  ELSE IF i.atrPercentile < 15 * Unit \/ i.atrPercentile > 97 * Unit THEN Rejected("VOLATILITY_GATE")
  ELSE Candidate(i, ClassScore(i))

-----------------------------------------------------------------------------
\* A tape grows; an unusable candle ends it, whatever window holds it is refused

KernelInit == /\ tape = <<>> /\ atr = <<>> /\ swings = {} /\ reading = None
              /\ evidence \in Cases \cup {None} /\ class = None

Closes(t) == [i \in DOMAIN t |-> t[i].close]

\* The newest n members.
Newest(s, n) == SubSeq(s, Len(s) - n + 1, Len(s))

\* The formulas on the newest candles of a tape, those it is long enough for.
Reading(t) ==
  [displacement |-> IF Len(t) < 2 THEN None ELSE Displacement(t[Len(t) - 1], Last(t), Theta),
   participation |-> IF Len(t) <= Window THEN None ELSE Participation(Last(t), Newest(Front(t), Window)),
   efficiency |-> IF Len(t) < Span THEN None ELSE Efficiency(Closes(Newest(t, Span))),
   z |-> ZScore(Last(t).close, Closes(Front(t))),
   sequence |-> SwingSequence(t)]

Points(t) == {<<"HIGH", i>> : i \in SwingPoints(t, "HIGH")} \cup
             {<<"LOW", i>> : i \in SwingPoints(t, "LOW")}

\* _atr_pct_series_for_timeframe: the seed, then one update per candle.
AtrAfter(t) ==
  IF Len(t) = Period + 1 THEN <<AtrResult(AtrSeed(t), Last(t).close)>>
  ELSE IF Len(t) > Period + 1
  THEN Append(atr, AtrResult(AtrUpdate(Last(atr).work, Last(t), t[Len(t) - 1].close), Last(t).close))
  ELSE atr

Grow(c) ==
  /\ evidence = None /\ Len(tape) < MaxTape /\ AllUsable(tape)
  /\ tape' = Append(tape, c)
  /\ IF Usable(c)
     THEN /\ atr' = AtrAfter(tape') /\ reading' = Reading(tape')
          /\ swings' = swings \cup Points(tape')
     ELSE reading' = None /\ UNCHANGED <<atr, swings>>
  /\ UNCHANGED <<evidence, class>>

Classify == /\ evidence # None /\ class = None
            /\ class' = ClassifyDirection(evidence)
            /\ UNCHANGED <<tape, atr, swings, reading, evidence>>

KernelNext == Classify \/ \E c \in Candles : Grow(c)

-----------------------------------------------------------------------------
\* Set: SetDurableHandler.resolve

Unmatched(reason) == [status |-> "UNMATCHED", direction |-> "NONE", reason |-> reason]

Matched(direction) == [status |-> "MATCHED", direction |-> direction, reason |-> None]

Raises == [status |-> "RAISES"]

\* GENERIC_MATCHED_BRANCH: one direction, or the branch a declared rule picks.
ResolveBranches(req) ==
  LET directions == {b.direction : b \in req.branches}
      picked == {b \in req.branches : b.id = req.rule}
  IN  IF req.branches = {} THEN Unmatched("NO_MATCHED_BRANCH")
      ELSE IF Cardinality(directions) = 1 THEN Matched(CHOOSE d \in directions : TRUE)
      ELSE IF req.rule = None THEN Unmatched("GENERIC_CONFLICT_UNRESOLVED")
      ELSE IF picked # {} THEN Matched((CHOOSE b \in picked : TRUE).direction)
      ELSE Unmatched("GENERIC_CONFLICT_RULE_UNRESOLVED")

ResolveClassified(c) ==
  IF c.status # "AVAILABLE" THEN Unmatched("F005_UNAVAILABLE")
  ELSE IF c.direction = "NONE" THEN Unmatched("F005_NONE") ELSE Matched(c.direction)

\* _resolve_direction; req.classifier is None or the inputs of F-005, req.fixed
\* is None or a pair of a binding and a direction.
ResolveDirection(req, epoch) ==
  IF epoch.state # "ACTIVE" THEN Unmatched("FORMATION_EPOCH_NOT_ACTIVE")
  ELSE IF req.formation # "TRUE" THEN Unmatched("FORMATION_NOT_TRUE")
  ELSE IF req.scope = "F005_GOVERNED" /\ req.classifier = None THEN Unmatched("F005_CLASSIFIER_REQUIRED")
  ELSE IF req.scope = "F005_GOVERNED" THEN ResolveClassified(ClassifyDirection(req.classifier))
  ELSE IF req.scope = "GENERIC_FIXED" /\ req.fixed = None THEN Unmatched("GENERIC_FIXED_DIRECTION_REQUIRED")
  ELSE IF req.classifier # None THEN Raises
  ELSE IF req.scope = "GENERIC_FIXED" /\ req.fixed.binding # epoch.binding THEN Raises
  ELSE IF req.scope = "GENERIC_FIXED" THEN Matched(req.fixed.direction)
  ELSE ResolveBranches(req)

\* The request carries the epoch as it was when the caller loaded it.
ResolveRead(w, r) ==
  /\ Idle(w)
  /\ epochs[r] # None
  /\ jobs' = [jobs EXCEPT ![w] = [op |-> "resolve", rev |-> r, epoch |-> epochs[r]]]
  /\ UNCHANGED <<revisions, outbox, scope, blind, epochs, results, frozen, handoffs>>

\* Mutant: the store overwrites a result of other content instead of refusing it.
PutIfAbsentMutant(stored, payload) == TRUE

\* OwnerStateStore.put_if_absent: absent, or present with the same content;
\* anything else is a SetResultConflict.
PutIfAbsent(stored, payload) == stored \in {None, payload}

ResultPayload(req, epoch, verdict) ==
  [verdict |-> verdict, request |-> req, binding |-> epoch.binding]

FrozenCondition(req, epoch, verdict) ==
  [direction |-> verdict.direction, request |-> req, binding |-> epoch.binding]

\* The facts of the request, for Position.
MarketHandoff(req, epoch, verdict) ==
  [direction |-> verdict.direction, facts |-> req, binding |-> epoch.binding]

\* Identities come from the epoch alone, so an epoch has one result: the
\* result, the frozen condition and the handoff commit together.
ResolveWrite(w, req) ==
  /\ Job(w, "resolve")
  /\ LET j == jobs[w]
         verdict == ResolveDirection(req, j.epoch)
         payload == ResultPayload(req, j.epoch, verdict)
         condition == FrozenCondition(req, j.epoch, verdict)
     IN  /\ verdict # Raises
         /\ PutIfAbsent(results[j.rev], payload)
         /\ results' = [results EXCEPT ![j.rev] = payload]
         /\ IF verdict.status = "MATCHED"
            THEN /\ PutIfAbsent(frozen[j.rev], condition)
                 /\ frozen' = [frozen EXCEPT ![j.rev] = condition]
                 /\ handoffs' = [handoffs EXCEPT ![j.rev] =
                                   MarketHandoff(req, j.epoch, verdict)]
            ELSE UNCHANGED <<frozen, handoffs>>
  /\ jobs' = [jobs EXCEPT ![w] = None]
  /\ UNCHANGED <<revisions, outbox, scope, blind, epochs>>

Next == \E w \in Workers :
          \/ \E e \in Events : PublishRead(w, e)
          \/ PublishWrite(w)
          \/ \E e \in Events, b \in Bindings \cup {None} : ApplyRead(w, e, b)
          \/ ApplyEpoch(w)
          \/ ApplyWrite(w)
          \/ \E r \in Revs : ResolveRead(w, r)
          \/ \E req \in Requests : ResolveWrite(w, req)
          \/ Abort(w)

-----------------------------------------------------------------------------
\* A MARKET_HANDOFF that Position may be acting on is the epoch's retained
\* result and frozen condition, under the binding its OPEN was applied with
\* (set_engine/handler.py, resolve).
HandoffIsBacked ==
  \A r \in Revs : handoffs[r] # None =>
    /\ results[r].verdict = Matched(handoffs[r].direction)
    /\ results[r].request = handoffs[r].facts
    /\ frozen[r] = FrozenCondition(handoffs[r].facts, epochs[r], results[r].verdict)
    /\ handoffs[r].binding = epochs[r].binding

\* However late, repeated or concurrent the Coins messages, one epoch at most is
\* ACTIVE and none is newer than the scope row; and the row and the epochs tell
\* one story, an OPEN scope has its own epoch ACTIVE and a CLOSEd scope none,
\* but for a symbol whose first revisions raced before it had a row to lock,
\* and then until the next one that is applied (apply_to_set).
EpochFollowsScope ==
  /\ \A r, q \in ActiveEpochs : r = q /\ scope # None /\ r <= scope.rev
  /\ scope # None /\ ~blind => ActiveEpochs = IF scope.action = "OPEN" THEN {scope.rev} ELSE {}

\* The market upside down: prices mirrored at the largest, signs turned.
Mirrored(c) ==
  LET top == Max({x.high : x \in Candles})
  IN  [c EXCEPT !.high = top - c.low, !.low = top - c.high, !.close = top - c.close]

Turned(x) == CASE x = "BULLISH" -> "BEARISH" [] x = "BEARISH" -> "BULLISH" [] x = "LONG" -> "SHORT"
               [] x = "SHORT" -> "LONG" [] OTHER -> x

Negated(x) == IF x = None THEN None ELSE -x

\* The formulas favour no direction: on the mirrored tape every high is a low
\* and the structure turns, the path is as efficient, the score of the newest
\* close as far on the other side; inputs turned around are classified the
\* other way, with the same score, gate and veto (set_engine/formulas.py).
FormulasAreFair ==
  /\ tape # <<>> /\ AllUsable(tape) =>
       LET image == [i \in DOMAIN tape |-> Mirrored(tape[i])]
           other == Reading(image)
       IN  /\ SwingPoints(image, "HIGH") = SwingPoints(tape, "LOW")
           /\ other.sequence = Turned(reading.sequence)
           /\ other.efficiency = reading.efficiency
           /\ other.z = Negated(reading.z)
           /\ Ranges(image) = Ranges(tape)
  /\ class # None =>
       ClassifyDirection([f \in DOMAIN evidence |->
           IF f \in {"de", "turnover", "atrPercentile"} THEN evidence[f]
           ELSE IF f \in {"structure1h", "structure15m", "btcStructure"} THEN Turned(evidence[f])
           ELSE Negated(evidence[f])])
         = [class EXCEPT !.direction = Turned(@), !.score = Negated(@)]

\* What later candles bring changes no swing point that was reported, and two
\* of a type are never less than three candles apart (swing_points).
SwingsAreFinal ==
  /\ AllUsable(tape) => swings = Points(tape)
  /\ \A p, q \in swings : p[1] = q[1] /\ p[2] < q[2] => p[2] + 3 <= q[2]

\* Seeded once and updated candle by candle, with a rounding each time, the ATR
\* never leaves the true ranges seen so far (wilder_atr_update_for_timeframe).
AtrIsAverage ==
  \A k \in DOMAIN atr :
    LET seen == {Ranges(tape)[i] : i \in 1 .. (Period + k - 1)}
    IN  Min(seen) <= atr[k].work /\ atr[k].work <= Max(seen)

\* A participation trigger is volume at least twice that of half of its window
\* (evaluate_f002_participation).
ParticipationIsRare ==
  reading # None => (reading.participation = "TRUE" =>
    Cardinality({i \in 1 .. Window : 2 * tape[Len(tape) - i].volume <= Last(tape).volume}) >= Window \div 2)
=============================================================================

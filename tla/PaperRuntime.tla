---------------------------- MODULE PaperRuntime ----------------------------
(***************************************************************************)
(* The candle-driven paper runtimes (services/runtime.py and               *)
(* services/dual_lane_runtime.py) over their SQLite stores.  One cycle     *)
(* picks the next completed candle after the checkpoint and drives it      *)
(* through trigger, strategy, risk and paper execution, once per lane.     *)
(* Every write is a transaction of its own, so the process may die between *)
(* any two of them; the paper adapter's order book dies with it.           *)
(* The paper adapter never raises, so the branches for an exchange error   *)
(* (status "unknown") cannot be reached by these two runtimes.  The fetch  *)
(* of the candles and the reading of the clock are one instant here;       *)
(* FuturesRuntime takes them apart.                                        *)
(***************************************************************************)
EXTENDS Integers

CONSTANTS Candles,     \* 1..n: candle c is complete from instant c on
          Markets,     \* candle -> "flat", "drop" (a buy signal) or
                       \* "volume" (a buy signal with confirmed volume)
          Sets,        \* trigger set versions; 1 is active at the start
          VolumeSets,  \* those whose rules include TRG-002
          Window,      \* completed candles the market client returns
          Lookback,    \* REGIME_LOOKBACK_CANDLES
          StaleAfter,  \* stale_after_seconds, in candles
          Modes,       \* \subseteq {"paper", "dual"}
          MaxFaults    \* bound: deaths and executions refused by validation

VARIABLES mode, now, market, paused, active, testing, created,
          checkpoint, lifecycle, execution, fills, regime,
          orders, pc, deaths, errors,
          since        \* history: the first checkpoint of a key

runtimeTables   == <<checkpoint, lifecycle, regime>>
executionTables == <<execution, fills>>
durable == <<runtimeTables, since, executionTables>>
env     == <<mode, now, market, paused, active, testing, created>>
counts  == <<deaths, errors>>
vars    == <<env, durable, orders, pc, counts>>

Paper == <<"PAPER", 0>>
Keys  == {Paper} \cup ({"ACTIVE", "TEST"} \X Sets)
Final == {"no_signal", "no_intent", "risk_rejected", "completed",
          "test_recorded", "active_execution_paused"}

Status == Final \cup {"none", "trigger_evaluated", "risk_recorded", "execution_error"}

\* What is assumed of the constants.
PaperConstants ==
    /\ Candles \subseteq Nat /\ 2 \in Candles /\ \E n \in Candles : Candles = 1..n
    /\ Window \in Nat /\ 1 \in Sets

Idle  == [at |-> "idle"]

Init == /\ mode \in Modes
        /\ now = 2 /\ paused = FALSE
        /\ market \in Markets
        /\ active = 1 /\ testing = {} /\ created = [s \in Sets |-> 0]
        /\ checkpoint = [k \in Keys |-> 0]
        /\ since = [k \in Keys |-> 0]
        /\ lifecycle = [k \in Keys |-> [c \in Candles |-> "none"]]
        /\ execution = [k \in Keys |-> [c \in Candles |-> "none"]]
        /\ fills = {} /\ orders = {}
        /\ regime = [c \in Candles |-> "none"]
        /\ pc = Idle /\ deaths = 0 /\ errors = 0

---------------------------------------------------------------------------
(* The environment: time, the operator's pause and the Set registry.  Each *)
(* may change at any time; a change is taken where the code next reads it, *)
(* which no other step can tell from an earlier one.                       *)

Key  == pc.key
Lane == Key[1]

Reads(places) == pc.at \in places

Tick == /\ now + 1 \in Candles /\ Reads({"idle", "lane", "signal"})
        /\ now' = now + 1
        /\ UNCHANGED <<mode, market, paused, active, testing, created,
                       durable, orders, pc, counts>>

Toggle == /\ mode = "dual" /\ Reads({"approved"}) /\ Lane = "ACTIVE"
          /\ paused' = ~paused
          /\ UNCHANGED <<mode, now, market, active, testing, created,
                         durable, orders, pc, counts>>

(* A version enters TESTING, and a TESTING one replaces the active one.    *)
CreateSet(s) == /\ mode = "dual" /\ Reads({"idle"}) /\ s # active /\ s \notin testing
                /\ created[s] = 0
                /\ testing' = testing \cup {s}
                /\ created' = [created EXCEPT ![s] = now]
                /\ UNCHANGED <<mode, now, market, paused, active, durable,
                               orders, pc, counts>>

Promote(s) == /\ s \in testing /\ Reads({"idle"})
              /\ testing' = testing \ {s} /\ active' = s
              /\ UNCHANGED <<mode, now, market, paused, created, durable,
                             orders, pc, counts>>

---------------------------------------------------------------------------
(* Choosing the candle.                                                    *)

Complete(c) == c <= now

(* Completed candles whose predecessor is in the fetched window too.       *)
Candidates == IF now < 2 THEN {} ELSE
              {c \in Candles : Complete(c) /\ c > now - Window + 1 /\ c > 1}

(* What the stores hold of a lane.                                         *)
Last(k) == checkpoint[k]
Outcome(k, c) == lifecycle[k][c]

Newest(S) == CHOOSE c \in S : \A d \in S : d <= c
Oldest(S) == CHOOSE c \in S : \A d \in S : c <= d

(* Mutant: the first new candle is taken wherever it lies.                 *)
NextCompletedMutant(last) ==
    LET fresh == {c \in Candidates : c > last} IN
    IF Candidates = {} THEN 0
    ELSE IF last = 0 THEN Newest(Candidates)
    ELSE IF fresh = {} THEN 0
    ELSE Oldest(fresh)

(* The first candidate after the checkpoint, which must be contiguous with *)
(* it (-1: RuntimeGapError); the newest one when there is no checkpoint.   *)
NextCompleted(last) ==
    LET fresh == {c \in Candidates : c > last} IN
    IF Candidates = {} THEN 0
    ELSE IF last = 0 THEN Newest(Candidates)
    ELSE IF fresh = {} THEN 0
    ELSE IF Oldest(fresh) = last + 1 THEN last + 1 ELSE -1

(* PaperTradingRuntime.process_once up to the lifecycle lookup.            *)
PollPaper ==
    LET c == NextCompleted(Last(Paper)) IN
    /\ mode = "paper" /\ pc = Idle /\ c > 0
    /\ pc' = [at |-> "lane", c |-> c, key |-> Paper, todo |-> {}]
    /\ UNCHANGED <<env, durable, orders, counts>>

(* DualLaneRuntime.process_once: without a newer candle the latest one is  *)
(* driven again.  The regime of a candle is immutable once saved: another  *)
(* value, met when the window no longer holds the lookback, ends the cycle *)
(* with an error that run_forever does not catch.                          *)
RegimeOf(c) == IF c - Lookback >= now - Window THEN "full" ELSE "insufficient"

DualCandle == LET next == NextCompleted(Last(<<"ACTIVE", active>>))
              IN  IF next = 0 /\ Candidates # {} THEN Newest(Candidates)
                                                 ELSE next

(* The row of a candle's regime is inserted once; an equal one is accepted.*)
RegimeAccepted(c) == regime[c] \in {"none", RegimeOf(c)}

PollDual ==
    LET c == DualCandle IN
    /\ mode = "dual" /\ pc = Idle /\ c > 0
    /\ RegimeAccepted(c)
    /\ regime' = [regime EXCEPT ![c] = RegimeOf(c)]
    /\ pc' = [at |-> "lane", c |-> c, key |-> <<"ACTIVE", active>>, todo |-> testing]
    /\ UNCHANGED <<env, checkpoint, since, lifecycle, execution, fills, orders,
                   counts>>

RegimeConflict ==
    LET c == DualCandle IN
    /\ mode = "dual" /\ pc = Idle /\ c > 0
    /\ ~RegimeAccepted(c)
    /\ pc' = [at |-> "dead"]
    /\ UNCHANGED <<env, durable, orders, counts>>

---------------------------------------------------------------------------
(* One lane.                                                               *)

(* Stale(c): the candle closed more than stale_after_seconds ago.          *)
Stale(c) == now - c > StaleAfter

Save(k, c, status) == lifecycle' = [lifecycle EXCEPT ![k][c] = status]

(* The TEST lanes follow the ACTIVE one, in an order the registry chooses. *)
NextLane == IF pc.todo = {} THEN pc' = Idle
            ELSE \E s \in pc.todo :
                    pc' = [at |-> "lane", c |-> pc.c, key |-> <<"TEST", s>>,
                           todo |-> pc.todo \ {s}]

(* The lane's reasons to leave the candle alone.                           *)
Leaves(k, c) == k # Paper /\ (\/ c <= created[k[2]]
                              \/ Last(k) # 0 /\ c > Last(k) + 1)

SkipLane == /\ pc.at = "lane" /\ Leaves(Key, pc.c)
            /\ NextLane
            /\ UNCHANGED <<env, durable, orders, counts>>

(* A durable final lifecycle only re-checkpoints.                          *)
AlreadyDurable == /\ pc.at = "lane" /\ ~Leaves(Key, pc.c)
                  /\ Outcome(Key, pc.c) \in Final
                  /\ pc' = [pc EXCEPT !.at = "checkpoint"]
                  /\ UNCHANGED <<env, durable, orders, counts>>

(* The trigger is evaluated at the current time: a stale observation is    *)
(* no signal.                                                              *)
PriceSignal(c) == market[c] # "flat" /\ ~Stale(c)

EvaluateTrigger ==
    /\ pc.at = "lane" /\ ~Leaves(Key, pc.c)
    /\ Outcome(Key, pc.c) \notin Final
    /\ Save(Key, pc.c, "trigger_evaluated")
    /\ pc' = [pc EXCEPT !.at = IF PriceSignal(pc.c) THEN "signal" ELSE "nosignal"]
    /\ UNCHANGED <<env, checkpoint, since, execution, fills, regime, orders, counts>>

NoSignal == /\ pc.at = "nosignal"
            /\ Save(Key, pc.c, "no_signal")
            /\ pc' = [pc EXCEPT !.at = "checkpoint"]
            /\ UNCHANGED <<env, checkpoint, since, execution, fills, regime, orders,
                           counts>>

(* TRG-002 asks for a confirmed volume as well.                            *)
VolumeConfirmed(c) == market[c] = "volume" /\ ~Stale(c)
Confirmed == Lane = "PAPER" \/ Key[2] \notin VolumeSets \/ VolumeConfirmed(pc.c)

NoIntent == /\ pc.at = "signal" /\ ~Confirmed
            /\ Save(Key, pc.c, "no_intent")
            /\ pc' = [pc EXCEPT !.at = "checkpoint"]
            /\ UNCHANGED <<env, checkpoint, since, execution, fills, regime, orders,
                           counts>>

(* An execution of this intent already exists: reconcile, never resubmit.  *)
Resume == /\ pc.at = "signal" /\ Confirmed /\ Lane # "TEST"
          /\ execution[Key][pc.c] # "none"
          /\ pc' = [pc EXCEPT !.at = "reconcile"]
          /\ UNCHANGED <<env, durable, orders, counts>>

(* Risk: RSK-005 rejects a stale observation.                              *)
EvaluateRisk ==
    /\ pc.at = "signal" /\ Confirmed
    /\ Lane = "TEST" \/ execution[Key][pc.c] = "none"
    /\ Save(Key, pc.c, "risk_recorded")
    /\ pc' = [pc EXCEPT !.at = IF Stale(pc.c) THEN "rejected" ELSE "approved"]
    /\ UNCHANGED <<env, checkpoint, since, execution, fills, regime, orders, counts>>

RiskRejected == /\ pc.at = "rejected"
                /\ Save(Key, pc.c, "risk_rejected")
                /\ pc' = [pc EXCEPT !.at = "checkpoint"]
                /\ UNCHANGED <<env, checkpoint, since, execution, fills, regime,
                               orders, counts>>

TestRecorded == /\ pc.at = "approved" /\ Lane = "TEST"
                /\ Save(Key, pc.c, "test_recorded")
                /\ pc' = [pc EXCEPT !.at = "checkpoint"]
                /\ UNCHANGED <<env, checkpoint, since, execution, fills, regime,
                               orders, counts>>

---------------------------------------------------------------------------
(* Paper execution (execution/service.py).                                 *)

OperatorPaused == /\ pc.at = "approved" /\ Lane = "ACTIVE" /\ paused
                  /\ Save(Key, pc.c, "active_execution_paused")
                  /\ pc' = [pc EXCEPT !.at = "checkpoint"]
                  /\ UNCHANGED <<env, checkpoint, since, execution, fills, regime,
                                 orders, counts>>

(* A refusal by validation is not final: no checkpoint, the cycle moves on.*)
ExecutionError == /\ pc.at = "approved" /\ Lane # "TEST" /\ deaths + errors < MaxFaults
                  /\ Save(Key, pc.c, "execution_error")
                  /\ NextLane /\ errors' = errors + 1
                  /\ UNCHANGED <<env, checkpoint, since, execution, fills, regime,
                                 orders, deaths>>

Update(status) == execution' = [execution EXCEPT ![Key][pc.c] = status]

(* reserve: one row per intent.                                            *)
Reserve == /\ pc.at = "approved" /\ Lane # "TEST"
           /\ Lane = "ACTIVE" => ~paused
           /\ execution[Key][pc.c] = "none"
           /\ Update("created")
           /\ pc' = [pc EXCEPT !.at = "reserved"]
           /\ UNCHANGED <<env, checkpoint, since, lifecycle, fills, regime, orders,
                          counts>>

Submitting == /\ pc.at = "reserved"
              /\ Update("submitting")
              /\ pc' = [pc EXCEPT !.at = "create"]
              /\ UNCHANGED <<env, checkpoint, since, lifecycle, fills, regime,
                             orders, counts>>

(* The adapter keeps the order in memory only.                             *)
PlaceOrder == orders' = orders \cup {<<Key, pc.c>>}

CreateOrder == /\ pc.at = "create"
               /\ PlaceOrder
               /\ Update("submitted")
               /\ pc' = [pc EXCEPT !.at = "reconcile"]
               /\ UNCHANGED <<env, checkpoint, since, lifecycle, fills, regime,
                              counts>>

(* An order the adapter forgot is rebuilt from the record as filled.       *)
RecordFill == fills' = fills \cup {<<Key, pc.c>>}

SaveFill == /\ pc.at = "reconcile"
            /\ RecordFill
            /\ pc' = [pc EXCEPT !.at = "fill"]
            /\ UNCHANGED <<env, checkpoint, since, lifecycle, execution, regime,
                           orders, counts>>

Reconciled == /\ pc.at = "fill"
              /\ Update("filled")
              /\ pc' = [pc EXCEPT !.at = "filled"]
              /\ UNCHANGED <<env, checkpoint, since, lifecycle, fills, regime,
                             orders, counts>>

Completed == /\ pc.at = "filled"
             /\ Save(Key, pc.c, "completed")
             /\ pc' = [pc EXCEPT !.at = "checkpoint"]
             /\ UNCHANGED <<env, checkpoint, since, execution, fills, regime,
                            orders, counts>>

Advance == checkpoint' = [checkpoint EXCEPT ![Key] = pc.c]

Checkpoint == /\ pc.at = "checkpoint"
              /\ Advance
              /\ since' = [since EXCEPT ![Key] = IF @ = 0 THEN pc.c ELSE @]
              /\ NextLane
              /\ UNCHANGED <<env, lifecycle, execution, fills, regime,
                             orders, counts>>

(* The process dies and starts again with an empty adapter.                *)
Die == /\ deaths + errors < MaxFaults
       /\ deaths' = deaths + 1 /\ pc' = Idle /\ orders' = {}
       /\ UNCHANGED <<env, durable, errors>>

Next == \/ Tick \/ Toggle \/ PollPaper \/ PollDual \/ RegimeConflict
        \/ \E s \in Sets : CreateSet(s) \/ Promote(s)
        \/ SkipLane \/ AlreadyDurable \/ EvaluateTrigger
        \/ NoSignal \/ NoIntent \/ Resume \/ EvaluateRisk
        \/ RiskRejected \/ TestRecorded \/ OperatorPaused \/ ExecutionError
        \/ Reserve \/ Submitting \/ CreateOrder \/ SaveFill \/ Reconciled
        \/ Completed \/ Checkpoint \/ Die

---------------------------------------------------------------------------
(* What a lane has decided has no holes, across deaths, retries, clock     *)
(* drift and a change of the active set: every candle from the first       *)
(* checkpointed one to the current checkpoint has a final lifecycle, and   *)
(* one reported as completed has its one fill recorded.                    *)
HistoryHasNoHoles ==
    \A k \in Keys :
        LET done == {c \in Candles : lifecycle[k][c] \in Final} IN
        /\ checkpoint[k] \in done \cup {0}
        /\ checkpoint[k] # 0 => since[k]..checkpoint[k] \subseteq done
        /\ \A c \in Candles : lifecycle[k][c] = "completed" =>
              <<k, c>> \in fills /\ execution[k][c] = "filled"

---------------------------------------------------------------------------
(* The inductive invariant.                                                *)

Undecided == {"signal", "nosignal", "approved", "rejected", "reserved", "create",
              "reconcile", "fill", "filled"}
Working   == Undecided \cup {"lane", "checkpoint"}
LaneWork  == [at : Working, c : Candles, key : Keys, todo : SUBSET Sets]

TypeOK ==
    /\ now \in Candles /\ active \in Sets /\ testing \in SUBSET Sets
    /\ checkpoint \in [Keys -> Candles \cup {0}] /\ since \in [Keys -> Candles \cup {0}]
    /\ lifecycle \in [Keys -> [Candles -> Status]]
    /\ execution \in [Keys -> [Candles -> {"none", "created", "submitting", "submitted", "filled"}]]
    /\ pc = Idle \/ pc = [at |-> "dead"] \/ pc \in LaneWork

(* The candle is the first of the lane, or not beyond the successor of its *)
(* checkpoint; a SET lane has to look before it knows.                     *)
LaneIsContiguous ==
    pc.at \in Working /\ (pc.at # "lane" \/ Key = Paper) =>
        checkpoint[Key] = 0 \/ pc.c <= checkpoint[Key] + 1

(* Only a decided candle is checkpointed, one being decided is not final,  *)
(* and a fill is recorded before the execution, which precedes the report. *)
StepsInOrder ==
    /\ pc.at = "checkpoint" => Outcome(Key, pc.c) \in Final
    /\ pc.at \in Undecided => Outcome(Key, pc.c) \notin Final
    /\ pc.at \in {"fill", "filled"} => <<Key, pc.c>> \in fills
    /\ pc.at = "filled" => execution[Key][pc.c] = "filled"

PaperInv ==
    /\ TypeOK /\ LaneIsContiguous /\ StepsInOrder
    /\ \A k \in Keys : since[k] = 0 <=> checkpoint[k] = 0
    /\ HistoryHasNoHoles
=============================================================================

---------------------------- MODULE LiveCapture ----------------------------
(***************************************************************************)
(* Prospective evidence of the live direction estimator: kline responses   *)
(* captured at receipt, the append-only sink, the as-of snapshot of an     *)
(* origin, the registered schedule and the sealed origin records           *)
(* (live_direction_estimator_v1: capture, durable_capture,                 *)
(* bybit_rest_source, prospective_source, snapshot, calendar,              *)
(* governance_seal, origin_contract).                                      *)
(*                                                                         *)
(* Time is in thirds of a minute.  The collector's clock is off by at most *)
(* Skew; an attested receipt carries that bound.  A response takes time to *)
(* arrive.  Content of a minute is opaque: a running minute, the closed    *)
(* one or a provider's correction.                                         *)
(***************************************************************************)
EXTENDS Integers, FiniteSets, FiniteSetsExt

CONSTANTS None,
          Symbols,      \* physical symbols, Btc among them
          Btc,          \* the context symbol every snapshot needs
          First, Last,  \* the time the model covers
          Grid,         \* distance of two prediction origins
          Support,      \* minutes a snapshot needs
          Limit,        \* rows of one response
          Skew,         \* largest error of the collector's clock
          Purge,        \* distance of readiness and the first origin
          MaxResponses, \* bound on responses
          MaxRecords,   \* bound on origin records
          Correctable,  \* minutes the provider may correct
          ReadyTimes    \* when readiness may be reached

VARIABLES now,          \* true time
          drift,        \* error of the collector's clock
          revised,      \* minutes the provider has corrected
          flight,       \* responses on their way, by symbol
          sent,         \* number of responses, the request identity
          sink,         \* files of the DurableCaptureSink
          copies,       \* captures loaded from JSON without the sink
          ready,        \* when the final artifact and the collector were ready
          seal,         \* the registered ProspectiveSeal
          records,      \* sealed origin records
          joined        \* those of them an outcome is joined to

vars == <<now, drift, revised, flight, sent, sink, copies, ready, seal, records, joined>>

Minute == 3
Origins == {t \in First .. Last : t % Grid = 0}
Starts == {t \in 0 .. Last : t % Minute = 0}
Clock == now + drift
Never == Last + Last

Init == /\ now = First /\ sent = 0
        /\ drift \in -Skew .. Skew
        /\ revised = {} /\ sink = {} /\ copies = {}
        /\ flight = [s \in Symbols |-> None]
        /\ ready = None /\ seal = None
        /\ records = {} /\ joined = {}

Tick == /\ now < Last
        /\ now' = now + 1
        /\ UNCHANGED <<drift, revised, flight, sent, sink, copies, ready, seal, records, joined>>

(***************************************************************************)
(* The provider and the transport.                                         *)
(***************************************************************************)

\* The provider corrects a minute that is over.
Revise(s, m) ==
    /\ m + Minute <= now
    /\ m \in Correctable /\ <<s, m>> \notin revised
    /\ revised' = revised \cup {<<s, m>>}
    /\ UNCHANGED <<now, drift, flight, sent, sink, copies, ready, seal, records, joined>>

Content(s, m) == IF now < m + Minute THEN <<"running", now>>
                 ELSE IF <<s, m>> \in revised THEN <<"corrected", m>>
                 ELSE <<"closed", m>>

\* The provider answers with the newest rows, the running minute included.
Respond(s) ==
    LET newest == now - (now % Minute)
        rows == {m \in Starts : newest - (Limit - 1) * Minute <= m /\ m <= newest}
    IN /\ flight[s] = None
       /\ sent < MaxResponses
       /\ sent' = sent + 1
       /\ flight' = [flight EXCEPT ![s] = [id |-> sent + 1, rows |-> [m \in rows |-> Content(s, m)]]]
       /\ UNCHANGED <<now, drift, revised, sink, copies, ready, seal, records, joined>>

(***************************************************************************)
(* Capture and storage.                                                    *)
(***************************************************************************)

\* The hook stamps the bytes right after the I/O; the attestor may have no
\* bound for this receipt.
Capture(s, error) ==
    [sym |-> s, id |-> flight[s].id, rows |-> flight[s].rows,
     at |-> now, received |-> Clock, error |-> error, live |-> TRUE]

\* The call returns with the response, or without.
Return(s) == flight' = [flight EXCEPT ![s] = None]

\* One file per receipt, linked into place within the same call.
Receive(s) ==
    /\ flight[s] # None
    /\ \E error \in {None, Skew} : sink' = sink \cup {Capture(s, error)}
    /\ Return(s)
    /\ UNCHANGED <<now, drift, revised, sent, copies, ready, seal, records, joined>>

\* The request fails, the storage is unavailable or the collector dies before
\* the link: at most a temporary file stays behind, which nobody reads.
Lose(s) ==
    /\ flight[s] # None
    /\ Return(s)
    /\ UNCHANGED <<now, drift, revised, sent, sink, copies, ready, seal, records, joined>>

\* What a capture is once it went through JSON.
Copy(c) == [c EXCEPT !.live = FALSE]

\* load_capture_record without the sink: the bytes, and no authority.
Import(c) ==
    /\ copies = {}
    /\ copies' = {Copy(c)}
    /\ UNCHANGED <<now, drift, revised, flight, sent, sink, ready, seal, records, joined>>

(***************************************************************************)
(* The as-of snapshot.                                                     *)
(***************************************************************************)

\* The sink vouches for the record, the attestor for its time.
Authenticated(c) == c.live /\ c.error # None

\* A row is final once the interval and the row before it are over by the
\* earliest time the receipt can have been; it is available at the latest.
Completed(c, m) == /\ Authenticated(c)
                   /\ m + Minute <= c.received - c.error
                   /\ m - Minute \in DOMAIN c.rows

\* Mutant: the clock bound is ignored.
AvailableMutant(c) == c.received

Available(c) == c.received + c.error

Versions(C) == UNION {{[sym |-> c.sym, start |-> m, content |-> c.rows[m],
                        available |-> IF Completed(c, m) THEN Available(c) ELSE Never] :
                          m \in DOMAIN c.rows} : c \in C}

\* Retransmissions of one content keep the earliest evidence.
Collapse(V) == {v \in V : \A w \in V : (w.sym = v.sym /\ w.start = v.start /\ w.content = v.content)
                                          => v.available <= w.available}

Candidates(V, s, m, t) == {v \in V : v.sym = s /\ v.start = m /\ v.available <= t}

Window(t) == {m \in Starts : t - Minute - Support * Minute <= m /\ m < t - Minute}

Required(s) == {s, Btc}

\* Every required minute has exactly one content known by the origin; without
\* a supersession policy two contents conflict.
Snapshot(s, t, C) ==
    LET V == Collapse(Versions(C))
        contents(r, m) == {v.content : v \in Candidates(V, r, m, t)}
    IN IF \A r \in Required(s), m \in Window(t) : Cardinality(contents(r, m)) = 1
       THEN [k \in Required(s) \X Window(t) |-> CHOOSE x \in contents(k[1], k[2]) : TRUE]
       ELSE None

Captures == sink \cup copies

(***************************************************************************)
(* Registration and origin records.                                        *)
(***************************************************************************)

\* The final artifact and the collector are ready, by an authenticated clock.
BecomeReady ==
    /\ ready = None /\ now \in ReadyTimes
    /\ ready' = Clock
    /\ UNCHANGED <<now, drift, revised, flight, sent, sink, copies, seal, records, joined>>

CeilGrid(t) == ((t + Grid - 1) \div Grid) * Grid

Schedule == CeilGrid(ready + Purge)

Seal(start) == [at |-> now, start |-> start]

\* Registration is valid only if its clock bound ends before the first origin.
Register ==
    /\ ready # None /\ seal = None
    /\ Clock + Skew < Schedule
    /\ seal' = Seal(Schedule)
    /\ UNCHANGED <<now, drift, revised, flight, sent, sink, copies, ready, records, joined>>

OriginRecord(s, t, snapshot, emitted) ==
    [sym |-> s, origin |-> t, snapshot |-> snapshot, emitted |-> emitted]

\* An available forecast is one from a snapshot of its origin, by a fitted state
\* that was there at the origin, emitted within the deadline.
Forecast(s, t) ==
    LET taken == Snapshot(s, t, Captures)
    IN {OriginRecord(s, t, x, Clock) :
          x \in {y \in {taken} : /\ y # None
                                 /\ ready # None /\ ready <= t
                                 /\ t <= Clock /\ Clock < t + Grid}}

\* A record is sealed, available or with its reasons.  Nothing asks whether the
\* cohort is registered, and a second record of the origin is refused only
\* where a list of them is checked.
SealOrigin(s, t) ==
    /\ Cardinality(records) < MaxRecords
    /\ \E r \in Forecast(s, t) \cup {OriginRecord(s, t, None, None)} : records' = records \cup {r}
    /\ UNCHANGED <<now, drift, revised, flight, sent, sink, copies, ready, seal, joined>>

\* An outcome is joined to the record's key; the record is not touched and
\* nothing here asks whether the horizon has passed.
JoinOutcome(r) ==
    /\ joined' = joined \cup {r}
    /\ r \notin joined
    /\ UNCHANGED <<now, drift, revised, flight, sent, sink, copies, ready, seal, records>>

Next == \/ Tick
        \/ \E s \in Symbols : Respond(s) \/ Receive(s) \/ Lose(s)
        \/ \E s \in Symbols, m \in Starts : Revise(s, m)
        \/ \E c \in sink : Import(c)
        \/ BecomeReady \/ Register
        \/ \E s \in Symbols, t \in Origins : SealOrigin(s, t)
        \/ \E r \in records : JoinOutcome(r)

Spec == Init /\ [][Next]_vars

\* What an origin's snapshot may rest on.
ArrivedBy(t) == {c \in sink : c.at <= t}

\* What the sink gives for an origin is decided by what had really arrived by
\* then, whatever the collector's clock said, whatever is captured, corrected
\* or imported later; a sealed forecast holds that snapshot; and a registration
\* really came before the first origin of its schedule (bybit_rest_source.py,
\* snapshot.py, origin_contract.py, governance_seal.py).
NoHindsight ==
    /\ \A s \in Symbols, t \in Origins : t <= now =>
         Snapshot(s, t, Captures) = Snapshot(s, t, ArrivedBy(t))
    /\ \A r \in records : r.snapshot # None /\ r.origin <= now =>
         r.snapshot = Snapshot(r.sym, r.origin, ArrivedBy(r.origin))
    /\ seal # None => seal.at < seal.start
=============================================================================

--------------------------- MODULE CertifiedReplay ---------------------------
(***************************************************************************)
(* The checkpointed replay of a certified population                       *)
(* (services/research_backtest_execution.py).                              *)
(*                                                                         *)
(* Records run one after the other, ordered by portfolio and time.  A      *)
(* record is judged against the state of its portfolio at its own time,    *)
(* folded from an event journal held in memory: a position reserves at its *)
(* decision and releases when its simulated life ends, which is usually    *)
(* later than the decisions of the records that follow.  After each record *)
(* a line is appended to the results or to the errors; a process that      *)
(* starts again rebuilds the journal from the completed lines.             *)
(*                                                                         *)
(* The simulated life of one order in a replay:                            *)
(* _simulate_research_v1_backtest_lifecycle over minute bars, the bounded  *)
(* loop of the V2 screen that extends the window chunk by chunk, and the   *)
(* resolution of an ambiguous bar from raw trades.  History is a sequence  *)
(* of minutes, each with its raw trades; an order is submitted at the open *)
(* of a minute.  Prices are ranks: the order's own levels and what lies    *)
(* between and beyond them.  Times count half minutes: 2m is the open of   *)
(* minute m, 2m + 1 its last instant.                                      *)
(***************************************************************************)
EXTENDS Integers, Sequences, FiniteSets, FiniteSetsExt

CONSTANTS
    Population,     \* the records in replay order: [book, coin, at]
    EndTime,        \* times at which a simulated order may be released
    CoinCap,        \* positions one coin's allocation carries
    BookCap,        \* positions the aggregate cap carries
    MaxStop,        \* bound on interruptions of the process
    Minute,         \* minutes of history: [trades, tied]
    Length,         \* minutes in the window
    Entry, Target, Stop, Proxy,   \* ranks for a LONG order; a SHORT one mirrors them
    Validity,       \* entry validity in minutes; 0 is good till cancelled
    FundingMinute,  \* the minute whose open is a funding boundary
    Chunk           \* minutes one extension of the bounded loop adds

VARIABLES
    market,     \* what history holds for each record
    up,         \* the driver runs
    journal,    \* the portfolio events in memory
    made,       \* the outcome computed and not yet appended
    results,    \* completed lines: record -> the events it contributed
    errors,     \* records on an error line
    stops,      \* interruptions so far
    history,    \* the minutes of the window
    short,      \* direction of the order
    validity,   \* 0, or the minutes the entry rests
    proxy,      \* reference price the post-only check uses
    fact,       \* the funding fact for the boundary is known
    end,        \* minutes simulated so far
    life        \* the lifecycle result

certifiedVars == <<market, up, journal, made, results, errors, stops>>

Index == DOMAIN Population
Idle == [kind |-> "none", of |-> 0, events |-> {}]

\* The history a record meets: the evidence for it is missing, the position
\* rules decline it, its order is still open at the end, or is released at a
\* time: the record's own when post-only rejects it or it expires unfilled.
Market ==
    {h \in [Index -> [kind : {"unavailable", "declined", "open"}, at : {0}]
                     \cup [kind : {"released"}, at : EndTime]] :
        \A i \in Index : h[i].kind = "released" => h[i].at >= Population[i].at}

CertifiedConstants ==
    /\ \A i \in Index : \A j \in Index :
         i < j /\ Population[i].book = Population[j].book
             => Population[i].at <= Population[j].at
    /\ CoinCap \in Nat \ {0} /\ BookCap \in Nat \ {0} /\ MaxStop \in Nat

-----------------------------------------------------------------------------
(* The portfolio folded from its events                                    *)

Reserve(i) == [action |-> "RESERVE", of |-> i, at |-> Population[i].at]

Release(i, t) == [action |-> "RELEASE", of |-> i, at |-> t]

\* Releases of one instant come before its reservations.
EventRank(e) == IF e.action = "RELEASE" THEN 0 ELSE 1

EventBefore(e, f) ==
    \/ e.at < f.at
    \/ e.at = f.at /\ EventRank(e) < EventRank(f)
    \/ e.at = f.at /\ EventRank(e) = EventRank(f) /\ e.of < f.of

Coin == {Population[i].coin : i \in Index}
Bad == [c \in Coin |-> BookCap + 1]
Empty == [c \in Coin |-> 0]

Fits(s, c) == s[c] < CoinCap /\ MapThenSumSet(LAMBDA d : s[d], Coin) < BookCap

\* One event on the projection; what cannot be applied raises.
ApplyPortfolioEvent(s, e) ==
    LET c == Population[e.of].coin IN
    IF s = Bad THEN Bad
    ELSE IF e.action = "RESERVE"
         THEN IF Fits(s, c) THEN [s EXCEPT ![c] = @ + 1] ELSE Bad
         ELSE IF s[c] > 0 THEN [s EXCEPT ![c] = @ - 1] ELSE Bad

RECURSIVE ApplyInOrder(_, _)
ApplyInOrder(s, events) ==
    IF events = {} THEN s
    ELSE LET e == CHOOSE e \in events : \A f \in events \ {e} : EventBefore(e, f) IN
         ApplyInOrder(ApplyPortfolioEvent(s, e), events \ {e})

\* The state of a book at a time: the events due by then, in event order.
StateAt(events, book, t) ==
    ApplyInOrder(Empty, {e \in events : Population[e.of].book = book /\ e.at <= t})

-----------------------------------------------------------------------------
(* The driver                                                              *)

ReplayInit ==
    /\ market \in Market
    /\ up = FALSE /\ journal = {} /\ made = Idle
    /\ results = [i \in {} |-> {}]
    /\ errors = {}
    /\ stops = 0

\* Mutant: a restart begins with an empty journal.
StartMutant ==
    /\ ~up
    /\ up' = TRUE /\ journal' = {}
    /\ UNCHANGED <<market, made, results, errors, stops>>

\* A start clears the memory and restores the journal from the completed lines.
Start ==
    /\ ~up
    /\ up' = TRUE
    /\ journal' = UNION {results[i] : i \in DOMAIN results}
    /\ UNCHANGED <<market, made, results, errors, stops>>

\* The records without a line yet, in order.
Outstanding == {i \in Index : i \notin DOMAIN results /\ i \notin errors}

\* What an approved, affordable record contributes.
PositionEvents(i) ==
    {Reserve(i)} \cup (IF market[i].kind = "open" THEN {} ELSE {Release(i, market[i].at)})

Fail(i) ==
    /\ made' = [kind |-> "error", of |-> i, events |-> {}]
    /\ UNCHANGED journal

\* One record: the state before it, the decision and the grant, the events into
\* the journal, and the state folded again with them, which may raise although
\* the journal already holds the events.
RunRecord ==
    /\ up /\ made = Idle /\ Outstanding # {}
    /\ LET i == CHOOSE i \in Outstanding : \A j \in Outstanding : i <= j
           r == Population[i]
           before == StateAt(journal, r.book, r.at)
           extended == journal \cup PositionEvents(i) IN
       IF before = Bad \/ market[i].kind = "unavailable" THEN Fail(i)
       ELSE IF market[i].kind = "declined" \/ ~Fits(before, r.coin)
       THEN /\ made' = [kind |-> "result", of |-> i, events |-> {}]
            /\ UNCHANGED journal
       ELSE /\ journal' = extended
            /\ made' = IF StateAt(extended, r.book, r.at) = Bad
                       THEN [kind |-> "error", of |-> i, events |-> {}]
                       ELSE [kind |-> "result", of |-> i, events |-> PositionEvents(i)]
    /\ UNCHANGED <<market, up, results, errors, stops>>

\* The line of the record goes to its file.
AppendLine ==
    /\ up /\ made # Idle
    /\ IF made.kind = "result"
       THEN /\ results' = [i \in DOMAIN results \cup {made.of} |->
                              IF i = made.of THEN made.events ELSE results[i]]
            /\ UNCHANGED errors
       ELSE errors' = errors \cup {made.of} /\ UNCHANGED results
    /\ made' = Idle
    /\ UNCHANGED <<market, up, journal, stops>>

\* The process ends, at its record limit or by a crash.
Interrupt ==
    /\ up /\ stops < MaxStop
    /\ up' = FALSE /\ journal' = {} /\ made' = Idle /\ stops' = stops + 1
    /\ UNCHANGED <<market, results, errors>>

ReplayNext == Start \/ RunRecord \/ AppendLine \/ Interrupt

-----------------------------------------------------------------------------
(* The life of one order                                                   *)

lifecycleVars == <<history, short, validity, proxy, fact, end, life>>

\* A price seen from the side of the order: lower is adverse for both directions.
Side(d, p) == IF d THEN -p ELSE p
AdverseTo(d, p, level) == Side(d, p) <= Side(d, level)
FavourableTo(d, p, level) == Side(d, p) >= Side(d, level)

\* The levels of a SHORT order are the mirrored ranks.
Level(d, p) == IF d THEN -p ELSE p

-----------------------------------------------------------------------------
(* Minute bars from raw trades                                             *)

Trades(h, m) == h[m].trades
Bars(h, n) == {m \in 1..n : Trades(h, m) # <<>>}    \* a minute without trades has no bar
Low(d, h, m, level) == \E k \in DOMAIN Trades(h, m) : AdverseTo(d, Trades(h, m)[k], level)
High(d, h, m, level) == \E k \in DOMAIN Trades(h, m) : FavourableTo(d, Trades(h, m)[k], level)
OpenTime(m) == 2 * m
LastInstant(m) == 2 * m + 1

-----------------------------------------------------------------------------
(* The lifecycle over bars                                                 *)

Result(status, reason) ==
    [status |-> status, reason |-> reason, filled |-> 0, closed |-> 0,
     openedAt |-> 0, closedAt |-> 0]

PostOnlyMarketable(d, px) == FavourableTo(d, Level(d, Entry), px)

First(S) == CHOOSE m \in S : \A n \in S : m <= n

\* Mutant: a bar that touches both levels counts as the target.
ExitMutant(d, h, m) ==
    IF High(d, h, m, Level(d, Target)) THEN "TAKE_PROFIT" ELSE "STOP_LOSS"

\* The level a bar reaches; both leave the order of events open.
Exit(d, h, m) ==
    IF High(d, h, m, Level(d, Target)) /\ Low(d, h, m, Level(d, Stop)) THEN "BOTH"
    ELSE IF High(d, h, m, Level(d, Target)) THEN "TAKE_PROFIT" ELSE "STOP_LOSS"

\* A level the bar opens beyond is left at the open, otherwise within the bar.
ExitAt(d, h, m, reason) ==
    LET o == Trades(h, m)[1]
        level == Level(d, IF reason = "TAKE_PROFIT" THEN Target ELSE Stop)
        gapped == IF reason = "TAKE_PROFIT" THEN FavourableTo(d, o, level)
                                            ELSE AdverseTo(d, o, level) IN
    IF gapped /\ o # level THEN OpenTime(m) ELSE LastInstant(m)

\* Funding boundaries fall after the fill and not after the exit.
FundingKnown(opened, closed, known) ==
    known \/ ~(opened < OpenTime(FundingMinute) /\ OpenTime(FundingMinute) <= closed)

CloseOrCensor(r, reason, m, at, known) ==
    LET c == [r EXCEPT !.closed = m, !.closedAt = at] IN
    IF FundingKnown(r.openedAt, at, known)
    THEN [c EXCEPT !.status = "CLOSED", !.reason = reason]
    ELSE [c EXCEPT !.status = "CENSORED", !.reason = "FUNDING"]

\* The first bar after the fill that reaches a level decides.
AfterFill(d, h, n, r, known) ==
    LET hits == {m \in Bars(h, n) :
                    m > r.filled /\ (\/ High(d, h, m, Level(d, Target))
                                     \/ Low(d, h, m, Level(d, Stop)))}
        m == First(hits)
        reason == Exit(d, h, m) IN
    IF hits = {} THEN [r EXCEPT !.status = "FILLED_OPEN_AT_ENDPOINT"]
    ELSE IF reason = "BOTH" THEN [r EXCEPT !.status = "CENSORED", !.reason = "TP_SL"]
    ELSE CloseOrCensor(r, reason, m, ExitAt(d, h, m, reason), known)

\* The whole simulation over the first n minutes.
Simulate(d, h, n, ttl, px, known) ==
    LET live == {m \in Bars(h, n) : ttl = 0 \/ m <= ttl}
        touching == {m \in live : Low(d, h, m, Level(d, Entry))}
        m == First(touching)
        atOpen == AdverseTo(d, Trades(h, m)[1], Level(d, Entry))
        fill == [Result("", "") EXCEPT !.filled = m,
                     !.openedAt = IF atOpen THEN OpenTime(m) ELSE LastInstant(m)]
        reached == High(d, h, m, Level(d, Target)) \/ Low(d, h, m, Level(d, Stop)) IN
    IF PostOnlyMarketable(d, px) THEN Result("SIMULATED_REJECTED", "")
    ELSE IF Bars(h, n) = {} THEN Result("ACCEPTED_NOT_FILLED", "NO_CANDLES")
    ELSE IF touching = {}
    THEN Result("ACCEPTED_NOT_FILLED",
                IF ttl # 0 /\ \E b \in Bars(h, n) : b > ttl THEN "EXPIRED" ELSE "NOT_TOUCHED")
    ELSE IF ~reached THEN AfterFill(d, h, n, fill, known)
    ELSE IF ~atOpen \/ Exit(d, h, m) = "BOTH"
    THEN [fill EXCEPT !.status = "CENSORED", !.reason = "ENTRY_PROTECTION"]
    ELSE CloseOrCensor(fill, Exit(d, h, m), m, ExitAt(d, h, m, Exit(d, h, m)), known)

\* Mutant: the loop also stops on a position that is merely still open.
TerminalWithinWindowMutant(r) ==
    r.status \in {"CLOSED", "CENSORED", "SIMULATED_REJECTED", "RAISED", "FILLED_OPEN_AT_ENDPOINT"}

\* What ends the bounded loop before the window does.
TerminalWithinWindow(r) ==
    \/ r.status \in {"CLOSED", "CENSORED", "SIMULATED_REJECTED", "RAISED"}
    \/ r.status = "ACCEPTED_NOT_FILLED" /\ r.reason = "EXPIRED"

-----------------------------------------------------------------------------
(* Raw trades                                                              *)

\* The instant of the k-th trade of a minute: the trades of a tied minute share one.
Instant(h, m, k) == IF h[m].tied THEN 1 ELSE k

\* (A fill and an exit within one minute have no funding boundary between them.)
\* The trades of the fill minute decide, from the first that touches the entry
\* on; equal instants and a minute without a later touch leave it censored.
ResolveIntrabar(d, h, r) ==
    LET m == r.filled
        ts == Trades(h, m)
        touch == First({k \in DOMAIN ts : AdverseTo(d, ts[k], Level(d, Entry))})
        later == {k \in DOMAIN ts : Instant(h, m, k) >= Instant(h, m, touch)}
        tp == {k \in later : FavourableTo(d, ts[k], Level(d, Target))}
        sl == {k \in later : AdverseTo(d, ts[k], Level(d, Stop))}
        first == First(tp \cup sl) IN
    IF \/ r.reason \notin {"ENTRY_PROTECTION", "TP_SL"}
       \/ tp \cup sl = {}
       \/ tp # {} /\ sl # {} /\ Instant(h, m, First(tp)) = Instant(h, m, First(sl))
    THEN r
    ELSE [r EXCEPT !.status = "CLOSED", !.closed = m,
                   !.reason = IF first \in tp THEN "TAKE_PROFIT" ELSE "STOP_LOSS",
                   !.openedAt = OpenTime(m), !.closedAt = LastInstant(m)]

-----------------------------------------------------------------------------
(* One replayed order                                                      *)

LifeInit ==
    /\ short \in BOOLEAN
    /\ history \in {[m \in 1..Length |->
                        [h[m] EXCEPT !.trades = [k \in DOMAIN @ |-> Level(short, @[k])]]] :
                    h \in [1..Length -> Minute]}
    /\ validity \in Validity
    /\ proxy \in {Level(short, p) : p \in Proxy}
    /\ fact \in BOOLEAN
    /\ end = 0 /\ life = Result("SUBMITTED", "")

\* One pass of the bounded loop over a window that grew by a chunk.
SimulateChunk ==
    /\ life.status \in {"SUBMITTED", "FILLED_OPEN_AT_ENDPOINT", "ACCEPTED_NOT_FILLED"}
    /\ ~TerminalWithinWindow(life) /\ end < Length
    /\ end' = IF end + Chunk < Length THEN end + Chunk ELSE Length
    /\ life' = IF Bars(history, end') = {} THEN Result("RAISED", "")
               ELSE Simulate(short, history, end', validity, proxy, fact)
    /\ UNCHANGED <<history, short, validity, proxy, fact>>

\* The screen resolves what the bars left ambiguous.
Resolve ==
    /\ life.status = "CENSORED"
    /\ ResolveIntrabar(short, history, life) # life
    /\ life' = ResolveIntrabar(short, history, life)
    /\ UNCHANGED <<history, short, validity, proxy, fact, end>>

LifeNext == SimulateChunk \/ Resolve

-----------------------------------------------------------------------------
(* Properties                                                              *)

\* The completed positions of i's book that are open when i is decided.
OpenAt(i) ==
    {j \in DOMAIN results :
        /\ j < i /\ results[j] # {}
        /\ Population[j].book = Population[i].book
        /\ market[j].kind = "open" \/ market[j].at > Population[i].at}

\* Whatever the interruptions, a completed record was given capital exactly when
\* the completed positions still open at its time left room for it: nothing the
\* journal has of the future counts, nothing a restart should know is forgotten.
ReplayIsSequential ==
    \A i \in DOMAIN results :
        (results[i] # {}) <=>
            /\ market[i].kind \notin {"unavailable", "declined"}
            /\ Cardinality({j \in OpenAt(i) : Population[j].coin = Population[i].coin}) < CoinCap
            /\ Cardinality(OpenAt(i)) < BookCap

\* The trades of a minute in every order their instants allow.
Readings(h, m) ==
    {Trades(h, m)} \cup
    (IF h[m].tied /\ Len(Trades(h, m)) = 2 THEN {<<Trades(h, m)[2], Trades(h, m)[1]>>} ELSE {})

\* The trade by trade execution of the order: the place <<minute, trade>> of the
\* fill and of the exit under one reading of the history.
Places(g) == UNION {{<<m, k>> : k \in DOMAIN g[m]} : m \in 1..Length}
NotAfter(a, b) == a[1] < b[1] \/ (a[1] = b[1] /\ a[2] <= b[2])
Executes(d, ttl, g, fill, exit, reason) ==
    /\ fill[1] = life.filled
    /\ AdverseTo(d, g[fill[1]][fill[2]], Level(d, Entry))
    /\ \A p \in Places(g) :
         NotAfter(p, fill) /\ p # fill => ~AdverseTo(d, g[p[1]][p[2]], Level(d, Entry))
    /\ NotAfter(fill, exit)
    /\ IF reason = "TAKE_PROFIT" THEN FavourableTo(d, g[exit[1]][exit[2]], Level(d, Target))
                                 ELSE AdverseTo(d, g[exit[1]][exit[2]], Level(d, Stop))
    /\ \A p \in Places(g) :
         NotAfter(fill, p) /\ NotAfter(p, exit) /\ p # exit =>
             /\ ~FavourableTo(d, g[p[1]][p[2]], Level(d, Target))
             /\ ~AdverseTo(d, g[p[1]][p[2]], Level(d, Stop))

\* A trade the replay reports as closed is one the raw trades execute: filled in
\* that minute, left in that minute for that reason, whatever happened inside
\* the bars.
ClosedAsTraded ==
    life.status = "CLOSED" =>
        \E g \in {f \in [1..Length -> UNION {Readings(history, m) : m \in 1..Length}] :
                    \A m \in 1..Length : f[m] \in Readings(history, m)} :
            \E fill \in Places(g), exit \in Places(g) :
                exit[1] = life.closed /\ Executes(short, validity, g, fill, exit, life.reason)

\* Growing the window chunk by chunk ends with the result of the whole window,
\* unless a chunk has no trades at all.
ChunksAgree ==
    end # 0 /\ (TerminalWithinWindow(life) \/ end = Length) /\ life.status # "RAISED" =>
        LET whole == Simulate(short, history, Length, validity, proxy, fact) IN
        life = whole \/ life = ResolveIntrabar(short, history, whole)
=============================================================================

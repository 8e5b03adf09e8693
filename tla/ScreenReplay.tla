---------------------------- MODULE ScreenReplay ----------------------------
(***************************************************************************)
(* The replay of a materialized population by the seven-day screen         *)
(* (tools/research_v2/run_7d_screen.py).                                   *)
(*                                                                         *)
(* The contexts of one job run in order of time against one book in        *)
(* memory.  The whole simulated life of an accepted order is committed to  *)
(* the book at once, so the book holds events of the future; the daily     *)
(* loss guard walks that future and cancels the orders that would still be *)
(* pending at a breach.  Result lines and ledger lines are appended after  *)
(* each context; finalization rewrites both from the cancellations.        *)
(***************************************************************************)
EXTENDS Integers, FiniteSets, FiniteSetsExt

CONSTANTS
    Contexts,       \* the contexts in replay order: [coin, at]
    Horizon,        \* last minute of the window
    DayStart,       \* minute at which the second accounting day opens
    Mark,           \* the marks to choose from: [price : 0..Horizon -> Int, without],
                    \* without: the coins the dataset has no mark of
    Lives,          \* the simulated lives to choose from, per context, relative to the
                    \* decision: [kind, fill, end]
    Limit,          \* loss that breaches the daily guard
    Slots, CoinSlots, Cooldown,     \* max_open_and_pending, per coin, minutes
    MaxCrash

VARIABLES
    mark, lives,    \* the history this replay meets
    up,
    book,           \* [active, accepted, events, opening]
    made,           \* the outcome of the context at hand
    written,        \* contexts with a result line, and what each line says
    errors,
    ledger,         \* lines of account_event_ledger.jsonl
    guards,         \* lines of factual_timeline_daily_guard_evidence.jsonl
    final,          \* the run is finalized
    crashes

screenVars == <<mark, lives, up, book, made, written, errors, ledger, guards, final, crashes>>

Index == DOMAIN Contexts
Never == Horizon + 1
Day(t) == IF t < DayStart THEN 0 ELSE 1
Boundary(d) == IF d = 0 THEN 0 ELSE DayStart
Idle == [kind |-> "none", of |-> 0, events |-> {}, rows |-> {}]
EmptyBook == [active |-> {}, accepted |-> [c \in {} |-> 0], events |-> {}, opening |-> [d \in {} |-> 0]]

ScreenConstants ==
    /\ \A i \in Index, j \in Index : i < j => Contexts[i].at <= Contexts[j].at
    /\ Slots \in Nat \ {0} /\ CoinSlots \in Nat \ {0} /\ Cooldown \in Nat /\ MaxCrash \in Nat

-----------------------------------------------------------------------------
(* Lives, events, equity                                                   *)

Clip(t) == IF t > Horizon THEN Never ELSE t
Opened(i) == IF lives[i].kind \in {"closes", "stays", "censored"}
             THEN Clip(Contexts[i].at + lives[i].fill) ELSE Never
Closed(i) == IF lives[i].kind = "closes" THEN Clip(Contexts[i].at + lives[i].end) ELSE Never

\* A censored fill gives its reservation back at once, a filled order at its
\* close, an expired one at its expiry.
ReleaseAt(i) ==
    CASE lives[i].kind = "closes" -> Closed(i)
      [] lives[i].kind = "censored" -> Opened(i)
      [] lives[i].kind = "expires" -> Clip(Contexts[i].at + lives[i].end)
      [] OTHER -> Never

Event(type, i, t) == [type |-> type, of |-> i, at |-> t]

AccountEvents(i) ==
    {e \in {Event("ORDER_ACCEPTED", i, Contexts[i].at), Event("ENTRY_FILLED", i, Opened(i)),
            Event("FINAL_CLOSE", i, Closed(i)), Event("RESERVATION_RELEASE", i, ReleaseAt(i))} :
        e.at # Never}

CancelType == {"ORDER_CANCEL_REQUEST", "ENTRY_CANCELLED_UNFILLED", "RESERVATION_RELEASE"}

Filled(events, t) == {e \in events : e.type = "ENTRY_FILLED" /\ e.at <= t}
Exit(events, i, t) == {f.at : f \in {f \in events : f.type = "FINAL_CLOSE" /\ f.of = i /\ f.at <= t}}

\* The positions open at t that have no mark: they count nothing.
Unmarked(events, t) ==
    {e \in Filled(events, t) : Exit(events, e.of, t) = {} /\ Contexts[e.of].coin \in mark.without}

\* A position of the ledger is worth its mark while open, its exit once closed;
\* one that never closes stays marked, its reservation released or not.
Equity(events, t) ==
    LET exit(e) == Exit(events, e.of, t)
        worth(e) == mark.price[IF exit(e) = {} THEN t ELSE CHOOSE x \in exit(e) : TRUE] - mark.price[e.at] IN
    MapThenSumSet(worth, Filled(events, t) \ Unmarked(events, t))

\* The equity the day opened with is computed once, at the first evaluation of a
\* point of that day.
WithOpening(b, t) ==
    IF Day(t) \in DOMAIN b.opening THEN b
    ELSE [b EXCEPT !.opening = [d \in DOMAIN @ \cup {Day(t)} |->
              IF d = Day(t) THEN Equity(b.events, Boundary(d)) ELSE @[d]]]

\* The guard's decision on the change since the day opened.  Without the mark of
\* an open position it is DATA_UNAVAILABLE, which rejects nothing.
Rejects(events, opening, t) == Unmarked(events, t) = {} /\ Equity(events, t) - opening <= -Limit

Breached(b, t) == Rejects(b.events, b.opening[Day(t)], t)

Pending(b, t) == {x \in b.active : x.opened > t /\ x.release > t}

-----------------------------------------------------------------------------
(* The book                                                                *)

ApplyDue(b, t) == [b EXCEPT !.active = {x \in @ : x.release > t}]

\* The pending orders leave, or stay until the instant of their cancellation;
\* what the ledger said of them from then on is replaced by the cancellation.
CancelPending(b, t, retain) ==
    LET gone == Pending(b, t)
        ids == {x.of : x \in gone} IN
    [b EXCEPT
        !.active = (@ \ gone) \cup (IF retain THEN {[x EXCEPT !.release = t] : x \in gone} ELSE {}),
        !.events = {e \in @ : ~(e.of \in ids /\ e.at >= t /\ e.type # "ORDER_ACCEPTED")}
                   \cup {Event(k, i, t) : k \in CancelType, i \in ids}]

CancelEvents(b, t) == {Event(k, x.of, t) : k \in CancelType, x \in Pending(b, t)}

\* The cooldown of the coin begins.
Stamped(b, i) ==
    [b EXCEPT !.accepted = [c \in DOMAIN @ \cup {Contexts[i].coin} |->
                                IF c = Contexts[i].coin THEN Contexts[i].at ELSE @[c]]]

Commit(b, i) ==
    [Stamped(b, i) EXCEPT
        !.events = @ \cup AccountEvents(i),
        !.active = @ \cup {[of |-> i, opened |-> Opened(i), release |-> ReleaseAt(i)]}]

CoolingDown(b, i) ==
    /\ Contexts[i].coin \in DOMAIN b.accepted
    /\ Contexts[i].at < b.accepted[Contexts[i].coin] + Cooldown

Granted(b, i) ==
    /\ Cardinality(b.active) < Slots
    /\ Cardinality({x \in b.active : Contexts[x.of].coin = Contexts[i].coin}) < CoinSlots

-----------------------------------------------------------------------------
(* The guard along the factual timeline                                    *)

\* The latest instant at which a pending order stops being pending.
PendingGuardHorizon(b, t) ==
    Max({t} \cup {IF x.opened # Never THEN x.opened
                  ELSE IF x.release # Never THEN x.release ELSE Horizon : x \in Pending(b, t)})

\* Mutant: the walk ends with the first order that stops being pending.
GuardPointsMutant(b, t) ==
    t + 1 .. Min({PendingGuardHorizon(b, t)} \cup {x.opened : x \in Pending(b, t)}) - 1

GuardPoints(b, t) == t + 1 .. PendingGuardHorizon(b, t) - 1

\* Every point in turn; the walk ends without pending orders, and at a breach
\* with their cancellation.
RECURSIVE Enforce(_, _, _, _)
Enforce(b, i, points, rows) ==
    LET t == Min(points)
        c == WithOpening(b, t)
        row == [of |-> i, at |-> t, breached |-> Breached(c, t)] IN
    IF points = {} THEN [book |-> b, rows |-> rows, events |-> {}]
    ELSE IF Pending(b, t) = {} THEN [book |-> b, rows |-> rows, events |-> {}]
    ELSE IF row.breached
         THEN [book |-> CancelPending(c, t, TRUE), rows |-> rows \cup {row},
               events |-> CancelEvents(c, t)]
         ELSE Enforce(c, i, points \ {t}, rows \cup {row})

-----------------------------------------------------------------------------
(* The replay loop                                                         *)

Init ==
    /\ mark \in Mark
    /\ lives \in Lives
    /\ up = FALSE /\ book = EmptyBook /\ made = Idle
    /\ written = [i \in {} |-> ""] /\ errors = {} /\ ledger = {} /\ guards = {}
    /\ final = FALSE /\ crashes = 0

\* A start reads the finished contexts back; the books are new.
Start ==
    /\ ~up /\ ~final
    /\ up' = TRUE /\ book' = EmptyBook
    /\ UNCHANGED <<mark, lives, made, written, errors, ledger, guards, final, crashes>>

Outstanding == {i \in Index : i \notin DOMAIN written \cup errors}

Outcome(kind, i, events, rows) == made' = [kind |-> kind, of |-> i, events |-> events, rows |-> rows]

\* One context against the book.
ReplayOneContext ==
    /\ up /\ made = Idle /\ Outstanding # {}
    /\ LET i == Min(Outstanding)
           t == Contexts[i].at
           b == WithOpening(ApplyDue(book, t), t)
           committed == Commit(b, i)
           walk == Enforce(committed, i, GuardPoints(committed, t), {}) IN
       \/ /\ lives[i].kind = "ineligible"
          /\ Outcome("blocked", i, {}, {}) /\ UNCHANGED book
       \/ /\ lives[i].kind # "ineligible" /\ Breached(b, t)
          /\ book' = CancelPending(b, t, FALSE)
          /\ Outcome("blocked", i, CancelEvents(b, t), {[of |-> i, at |-> t, breached |-> TRUE]})
       \/ /\ lives[i].kind # "ineligible" /\ ~Breached(b, t) /\ (CoolingDown(b, i) \/ ~Granted(b, i))
          /\ book' = b
          /\ Outcome("blocked", i, {}, {})
       \/ /\ lives[i].kind # "ineligible" /\ ~Breached(b, t) /\ ~CoolingDown(b, i) /\ Granted(b, i)
          \* The simulation raises, or the commit once it has stamped the cooldown.
          /\ CASE lives[i].kind = "raises" -> book' \in {b, Stamped(b, i)} /\ Outcome("error", i, {}, {})
               [] lives[i].kind = "refused" -> book' = b /\ Outcome("blocked", i, {}, {})
               [] OTHER -> /\ book' = walk.book
                           /\ Outcome("accepted", i, AccountEvents(i) \cup walk.events, walk.rows)
    /\ UNCHANGED <<mark, lives, up, written, errors, ledger, guards, final, crashes>>

\* The result line, or the error line.
AppendResult ==
    /\ up /\ made.kind \in {"accepted", "blocked", "error"}
    /\ IF made.kind = "error"
       THEN errors' = errors \cup {made.of} /\ made' = Idle /\ UNCHANGED written
       ELSE /\ written' = [i \in DOMAIN written \cup {made.of} |->
                              IF i = made.of THEN made.kind ELSE written[i]]
            /\ made' = [made EXCEPT !.kind = "evidence"]
            /\ UNCHANGED errors
    /\ UNCHANGED <<mark, lives, up, book, ledger, guards, final, crashes>>

\* The evidence lines of the context follow.
AppendEvidence ==
    /\ up /\ made.kind = "evidence"
    /\ ledger' = ledger \cup made.events /\ guards' = guards \cup made.rows
    /\ made' = Idle
    /\ UNCHANGED <<mark, lives, up, book, written, errors, final, crashes>>

Crash ==
    /\ up /\ crashes < MaxCrash
    /\ up' = FALSE /\ book' = EmptyBook /\ made' = Idle /\ crashes' = crashes + 1
    /\ UNCHANGED <<mark, lives, written, errors, ledger, guards, final>>

Cancelled(lines) == {e.of : e \in {e \in lines : e.type = "ENTRY_CANCELLED_UNFILLED"}}
CancelledAt(lines, i) ==
    Min({e.at : e \in {e \in lines : e.type = "ENTRY_CANCELLED_UNFILLED" /\ e.of = i}})

\* Mutant: a cancellation keeps what the order did afterwards.
OverrideMutant(lines) == lines

\* The earliest cancellation of an order decides: its acceptance and that
\* cancellation stay, what lies after it goes.
Override(lines) ==
    {e \in lines :
        \/ e.of \notin Cancelled(lines)
        \/ e.type = "ORDER_ACCEPTED"
        \/ e.type \in CancelType /\ e.at = CancelledAt(lines, e.of)
        \/ e.at < CancelledAt(lines, e.of)}

\* The guard lines are judged again against the complete ledger.
RebuiltGuards(lines) ==
    {[r EXCEPT !.breached = Rejects(lines, Equity(lines, Boundary(Day(r.at))), r.at)] : r \in guards}

Finalize ==
    /\ up /\ made = Idle /\ Outstanding = {} /\ ~final
    /\ ledger' = Override(ledger)
    /\ guards' = RebuiltGuards(Override(ledger))
    /\ written' = [i \in DOMAIN written |->
                      IF i \in Cancelled(ledger) THEN "cancelled" ELSE written[i]]
    /\ final' = TRUE /\ up' = FALSE
    /\ UNCHANGED <<mark, lives, book, made, errors, crashes>>

Next ==
    \/ Start \/ ReplayOneContext \/ AppendResult \/ AppendEvidence \/ Crash \/ Finalize

Spec == Init /\ [][Next]_screenVars

-----------------------------------------------------------------------------
(* Properties                                                              *)

\* No order the replay credits with a fill had to survive a breach first: at no
\* minute between its acceptance and its fill was the day's loss, measured from
\* the opening equity the book holds, at the limit.
NoFillAfterBreach ==
    \A e \in book.events :
        e.type = "ENTRY_FILLED" =>
            \A t \in Contexts[e.of].at + 1 .. e.at - 1 :
                Day(t) \in DOMAIN book.opening => ~Breached(book, t)

\* In an uninterrupted run the finalized ledger file and the book agree: the two
\* ways the code applies a cancellation, to the events in memory at once and to
\* the lines of the file at the end, come to the same history.
LedgerIsBook == final /\ crashes = 0 => ledger = book.events
=============================================================================

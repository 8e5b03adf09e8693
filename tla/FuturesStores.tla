---------------------------- MODULE FuturesStores ----------------------------
(***************************************************************************)
(* The futures execution and position stores, statement by statement: the  *)
(* PostgreSQL ones of the trading workers (PostgresFuturesExecutionStore,  *)
(* PostgresFuturesPositionStore over OwnerStateStore, READ COMMITTED) and  *)
(* the SQLite ones of the legacy runtime (FuturesExecutionStore,           *)
(* FuturesPositionStore).  Two workers call them at a time: one worker may *)
(* execute an operator's close while another runs a trading cycle.         *)
(*                                                                         *)
(* All positions are of one symbol; a position has the id of its entry     *)
(* intent.  A call reads, and writes what it made of what it read.         *)
(***************************************************************************)
EXTENDS Naturals, FiniteSets

CONSTANTS None, Workers,
          Backends,  \* of "postgres" and "sqlite"
          Intents,
          ClientOf,  \* client order id of an intent: a hash, which may collide
          Reasons,   \* close reasons, each the close intent of a position
          Calls,     \* calls the workers make
          MaxCalls   \* bound on the calls

VARIABLES backend,
          orders,    \* execution records: intent -> is there one
          rows,      \* positions: intent -> [status, close, revision] or None
          closed,    \* positions with a closed-position record
          locks,     \* transaction-level advisory locks: key -> holder or None
          call,      \* worker -> the call it is in
          told,      \* <<call number, intent>>: reserve returned created
          made       \* number of calls

vars == <<backend, orders, rows, closed, locks, call, told, made>>

Live == {"OPEN", "CLOSING", "UNKNOWN"}
Status == Live \cup {"CLOSED"}
Row == [status : Status, close : Reasons \cup {None}, revision : Nat]
Operations == {"reserve", "open", "mark_closing", "update_open_fill", "mark_closed", "save_closed"}

\* What is assumed of the constants: an insert carries the status of the new
\* position, a close its reason.
StoresConstants ==
    /\ Backends \subseteq {"postgres", "sqlite"}
    /\ Calls \subseteq [op : Operations, p : Intents, arg : Status \cup Reasons \cup {None}]
    /\ \A c \in Calls : /\ c.op = "open" => c.arg \in Status
                        /\ c.op = "mark_closing" => c.arg \in Reasons
    /\ None \notin Workers \cup Row

tables == <<orders, rows, closed>>

IsLive(p) == rows[p] # None /\ rows[p].status \in Live
Keys == {<<"intent", i>> : i \in Intents} \cup {<<"client", ClientOf[i]>> : i \in Intents}
          \cup {<<"symbol", None>>}

Init == /\ backend \in Backends
        /\ orders = [i \in Intents |-> FALSE]
        /\ rows = [i \in Intents |-> None]
        /\ closed = {}
        /\ locks = [k \in Keys |-> None]
        /\ call = [w \in Workers |-> None]
        /\ told = {}
        /\ made = 0

\* Mutant: only the intent is locked.
LocksMutant(op, i) ==
    IF backend = "sqlite" THEN {} ELSE IF op = "reserve" THEN {<<"intent", i>>}
    ELSE IF op = "open" THEN {<<"symbol", None>>} ELSE {}

\* The advisory locks a PostgreSQL call takes before it reads.
Locks(op, i) ==
    IF backend = "sqlite" THEN {}
    ELSE IF op = "reserve" THEN {<<"intent", i>>, <<"client", ClientOf[i]>>}
    ELSE IF op = "open" THEN {<<"symbol", None>>}
    ELSE {}

\* What the lifecycle service has looked at before it calls: no live position
\* before an entry, a position that is not CLOSED before a change of it,
\* update_open_fill only without a close intent, and save_closed_position of
\* one whose close order is filled.
Looked(c) ==
    CASE c.op = "reserve" -> TRUE
      [] c.op = "open" -> ~\E q \in Intents : IsLive(q)
      [] c.op = "mark_closing" -> IsLive(c.p)
      [] c.op = "update_open_fill" -> IsLive(c.p) /\ rows[c.p].close = None
      [] c.op = "save_closed" -> IsLive(c.p) /\ rows[c.p].close # None
      [] c.op = "mark_closed" -> IsLive(c.p)

Begin(w, c) ==
    /\ call[w] = None /\ made < MaxCalls
    /\ Looked(c)
    /\ call' = [call EXCEPT ![w] = [n |-> made, op |-> c.op, p |-> c.p, arg |-> c.arg, step |-> "lock",
                                    wanted |-> Locks(c.op, c.p), seen |-> None]]
    /\ made' = made + 1
    /\ UNCHANGED <<backend, tables, locks, told>>

\* The intent's lock before the client order's (the symbol's is alone).
Lock(w) ==
    /\ call[w] # None /\ call[w].step = "lock"
    /\ \/ /\ call[w].wanted = {}
          /\ call' = [call EXCEPT ![w].step = "read"]
          /\ UNCHANGED locks
       \/ \E k \in call[w].wanted :
            /\ k[1] = "client" => Cardinality(call[w].wanted) = 1
            /\ locks[k] = None
            /\ locks' = [locks EXCEPT ![k] = w]
            /\ call' = [call EXCEPT ![w].wanted = @ \ {k}]
    /\ UNCHANGED <<backend, tables, told, made>>

\* Commit or rollback: the locks go with the transaction.
End(w) == /\ call' = [call EXCEPT ![w] = None]
          /\ locks' = [k \in Keys |-> IF locks[k] = w THEN None ELSE locks[k]]

Collides(i) == \E j \in Intents : orders[j] /\ ClientOf[j] = ClientOf[i]

\* What a call makes of the row it has read: a new row, None when it raises,
\* the row itself when there is nothing to do.
Change(c, row) ==
    CASE c.op = "mark_closing" -> IF row.status = "CLOSED" THEN row
                                  ELSE IF row.close \notin {None, c.arg} THEN None
                                  ELSE [row EXCEPT !.status = "CLOSING", !.close = c.arg]
      [] c.op = "update_open_fill" -> [row EXCEPT !.status = "OPEN"]
      [] c.op = "mark_closed" -> IF backend = "postgres" /\ c.p \notin closed THEN None
                                 ELSE [row EXCEPT !.status = "CLOSED"]

\* A second mark_closing finds nothing to do; every other call writes, changed
\* or not.
ReturnsEarly(c, row) == c.op = "mark_closing" /\ row.status = "CLOSED"

Inserts(op) == op \in {"reserve", "open", "save_closed"}

\* The first statement: an existing record ends an insert, and an absent one
\* anything else.
Read(w) ==
    LET c == call[w]
        refused == CASE c.op = "reserve" -> Collides(c.p)
                     [] c.op = "open" -> rows[c.p] # None \/ \E q \in Intents : IsLive(q)
                     [] c.op = "save_closed" -> rows[c.p] = None \/ c.p \in closed
                     [] OTHER -> \/ rows[c.p] = None
                                 \/ Change(c, rows[c.p]) = None \/ ReturnsEarly(c, rows[c.p])
    IN /\ c # None /\ c.step = "read"
       /\ IF refused THEN End(w)
          ELSE /\ call' = [call EXCEPT ![w].step = IF Inserts(c.op) THEN "insert"
                                                   ELSE IF backend = "postgres" THEN "revision" ELSE "update",
                                       ![w].seen = rows[c.p]]
               /\ UNCHANGED locks
       /\ UNCHANGED <<backend, tables, told, made>>

\* _put_position reads the revision it will compare with, again.
Revision(w) ==
    /\ call[w] # None /\ call[w].step = "revision"
    /\ call' = [call EXCEPT ![w].step = "update",
                            ![w].seen = [Change(call[w], call[w].seen) EXCEPT !.revision = rows[call[w].p].revision]]
    /\ UNCHANGED <<backend, tables, locks, told, made>>

\* SQLite's unique indexes; PostgreSQL has the primary key alone.
Reservable(i) == IF backend = "sqlite" THEN ~Collides(i) ELSE ~orders[i]

\* Mutant: the partial index on the symbol is missing.
OneOpenPerSymbolMutant(p, status) == TRUE

OneOpenPerSymbol(p, status) ==
    backend = "sqlite" /\ status \in Live => \A q \in Intents \ {p} : ~IsLive(q)

Position(status) == [status |-> status, close |-> None, revision |-> 1]

SaveClosed(p) == closed' = closed \cup {p}

Insert(w) ==
    LET c == call[w] IN
    /\ c # None /\ c.step = "insert"
    /\ \/ /\ c.op = "reserve"
          /\ \/ /\ Reservable(c.p)
                /\ orders' = [orders EXCEPT ![c.p] = TRUE]
                /\ told' = told \cup {<<c.n, c.p>>}
             \/ ~Reservable(c.p) /\ UNCHANGED <<orders, told>>
          /\ UNCHANGED <<rows, closed>>
       \/ /\ c.op = "open"
          /\ rows' = IF rows[c.p] = None /\ OneOpenPerSymbol(c.p, c.arg)
                     THEN [rows EXCEPT ![c.p] = Position(c.arg)]
                     ELSE rows
          /\ UNCHANGED <<orders, closed, told>>
       \/ /\ c.op = "save_closed"
          /\ SaveClosed(c.p)
          /\ UNCHANGED <<orders, rows, told>>
    /\ End(w)
    /\ UNCHANGED <<backend, made>>

\* An UPDATE of SQLite sets its columns in whatever row is there.
Columns(c, row) ==
    CASE c.op = "mark_closing" -> [row EXCEPT !.status = "CLOSING", !.close = c.arg]
      [] c.op = "update_open_fill" -> [row EXCEPT !.status = "OPEN"]
      [] c.op = "mark_closed" -> [row EXCEPT !.status = "CLOSED"]

\* PostgreSQL replaces the payload if the revision is the one just read.
Update(w) ==
    LET c == call[w]
        row == rows[c.p]
        new == IF backend = "postgres" THEN c.seen ELSE Columns(c, row)
    IN /\ c # None /\ c.step = "update"
       /\ rows' = IF new.revision = row.revision /\ OneOpenPerSymbol(c.p, new.status)
                  THEN [rows EXCEPT ![c.p] = [new EXCEPT !.revision = IF backend = "postgres" THEN @ + 1 ELSE @]]
                  ELSE rows
       /\ End(w)
       /\ UNCHANGED <<backend, orders, closed, told, made>>

\* The worker dies: its transaction is rolled back.
Die(w) == /\ call[w] # None
          /\ End(w)
          /\ UNCHANGED <<backend, tables, told, made>>

Next == \E w \in Workers : \/ \E c \in Calls : Begin(w, c)
                           \/ Lock(w) \/ Read(w) \/ Revision(w) \/ Insert(w) \/ Update(w) \/ Die(w)

---------------------------------------------------------------------------
\* What a worker may be in the middle of.
InCall == [n : Nat, op : Operations, p : Intents, arg : Status \cup Reasons \cup {None},
           step : {"lock", "read", "revision", "insert", "update"}, wanted : SUBSET Keys, seen : Row \cup {None}]

TypeOK ==
    /\ backend \in {"postgres", "sqlite"} /\ made \in Nat
    /\ orders \in [Intents -> BOOLEAN]
    /\ rows \in [Intents -> Row \cup {None}]
    /\ closed \subseteq Intents
    /\ locks \in [Keys -> Workers \cup {None}]
    /\ DOMAIN call = Workers /\ \A w \in Workers : call[w] # None => call[w] \in InCall
    /\ told \subseteq Nat \X Intents

\* A call carries what its operation needs, and holds every lock it no longer
\* wants.
CallIsSound(c, w) ==
    /\ c.op = "open" => c.arg \in Status
    /\ c.op = "mark_closing" => c.arg \in Reasons
    /\ c.wanted \subseteq Locks(c.op, c.p)
    /\ c.step # "lock" => c.wanted = {}
    /\ \A k \in Locks(c.op, c.p) \ c.wanted : locks[k] = w

\* What a call has read is still so when it writes: under the lock of the
\* client order id nobody else has reserved it, and a row stays where it is.
ReadStillHolds(c) ==
    /\ c.step = "insert" => Inserts(c.op)
    /\ c.step = "insert" /\ c.op = "reserve" /\ backend = "postgres" => ~Collides(c.p)
    /\ c.step \in {"revision", "update"} => ~Inserts(c.op) /\ rows[c.p] # None
    /\ c.step = "revision" => c.seen \in Row /\ Change(c, c.seen) \in Row
    /\ c.step = "update" /\ backend = "postgres" => c.seen \in Row

\* However the calls of two workers interleave and die, one reserve of an
\* intent returns created, and no two orders share a client order id
\* (PostgresFuturesExecutionStore.reserve, FuturesExecutionStore.reserve).
OneReservation ==
    /\ \A t, u \in told : t[2] = u[2] => t = u
    /\ \A i, j \in Intents : orders[i] /\ orders[j] /\ ClientOf[i] = ClientOf[j] => i = j
    /\ \A t \in told : orders[t[2]]

\* At most one position of a symbol is live, whatever calls of two workers
\* interleave (save_open_position).
OneLivePosition == \A p, q \in Intents : IsLive(p) /\ IsLive(q) => p = q

\* The same of SQLite, whose partial index holds through every stale write
\* (idx_futures_one_open_per_symbol).
IndexHolds == backend = "sqlite" => OneLivePosition

\* The inductive invariant.
StoresInv ==
    /\ TypeOK /\ OneReservation /\ IndexHolds
    /\ \A w \in Workers : call[w] # None => CallIsSound(call[w], w) /\ ReadStillHolds(call[w])
=============================================================================

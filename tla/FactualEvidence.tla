--------------------------- MODULE FactualEvidence ---------------------------
(***************************************************************************)
(* The facts the exchange adapters hand to the owners, and the stores that *)
(* keep them: accepted evidence with its anchors and preflight challenges  *)
(* (persistence/factual_evidence_store.py), market data pages              *)
(* (market_data_fact_store.py), portfolio data requests and responses      *)
(* (portfolio_data_facts.py), all over one PostgreSQL unit of work         *)
(* (persistence/postgres.py).                                              *)
(*                                                                         *)
(* Every store writes a row in the same way: INSERT ... ON CONFLICT DO     *)
(* NOTHING, and when nothing was inserted the row that is there must have  *)
(* the same content.  A row is inserted by one transaction at a time:      *)
(* whoever inserts the key of another's uncommitted row waits for it.      *)
(* Transactions are READ COMMITTED, each statement is a step, and a        *)
(* transaction may end in a rollback at any step: an exception that leaves *)
(* the unit of work, a lost connection, the victim of a deadlock.          *)
(***************************************************************************)
EXTENDS Integers, Sequences, FiniteSets, TLAPS

CONSTANTS
    Connection,   \* units of work
    Offers,       \* put_evidence: id, payload, provenance, anchors
    Responses,    \* put_response: sequences of market data pages
    Requests,     \* record_request: id, symbols
    Answers,      \* record_response: id, request, items
    Probes,       \* preflight_known_evidence: anchors, candidate
    Instants,     \* as_of of the price read
    MaxCalls,     \* MaxCalls[c]: calls of a unit of work
    None

VARIABLES
    rows,         \* committed rows
    at,           \* "idle", "open", "put", "probe" per unit of work
    todo,         \* rows still to write
    look,         \* anchors still to look up
    savepoint,    \* the call under way is under SAVEPOINT factual_evidence_put
    mine,         \* rows inserted and not committed
    saved,        \* those of them from before the call under way
    probe,        \* the preflight under way
    found,        \* accepted evidence ids it has seen
    said,         \* what the transaction has answered
    given,        \* what committed transactions have answered
    calls

txVars == <<at, todo, look, savepoint, mine, saved, probe, found, said, calls>>
vars == <<rows, given, txVars>>

-----------------------------------------------------------------------------
(* What the adapters build.                                                *)

\* Mutant: a magnitude is a credit whatever its direction.
SignedAmountMutant(amount, convention, direction) ==
    IF convention = "COST_POSITIVE" THEN -amount ELSE amount

\* A cashflow's wallet effect: a cost is negated, a credit kept, a magnitude
\* takes the sign of its direction.  A cost or a credit may come with any
\* direction.
SignedAmount(amount, convention, direction) ==
    CASE convention = "COST_POSITIVE" -> -amount
      [] convention = "CREDIT_POSITIVE" -> amount
      [] convention = "MAGNITUDE_WITH_DIRECTION" /\ direction = "DEBIT" -> -amount
      [] OTHER -> amount

\* normalize_magnitude_with_direction: zero goes with ZERO and nothing else does.
DirectionFits(amount, direction) == (amount = 0) <=> (direction = "ZERO")

\* The builder refuses a negative source amount under every convention.
FinancialRecord(id, amounts) ==
    {[record |-> id, amount |-> SignedAmount(x.amount, x.convention, x.direction),
      convention |-> x.convention, direction |-> x.direction] :
        x \in {y \in [amount : amounts, direction : {"DEBIT", "CREDIT", "ZERO"},
                      convention : {"COST_POSITIVE", "CREDIT_POSITIVE", "MAGNITUDE_WITH_DIRECTION"}] :
                /\ y.amount >= 0
                /\ y.convention = "MAGNITUDE_WITH_DIRECTION" => DirectionFits(y.amount, y.direction)}}

\* An order as the exchange reports it, refused when more is filled than ordered.
OrderFact(id, quantities) ==
    {[record |-> id, filled |-> x.filled, remaining |-> x.quantity - x.filled] :
        x \in {y \in [quantity : quantities, filled : quantities] : y.filled <= y.quantity}}

\* An execution of the order.
ExecutionFact(id, quantities) == {[record |-> id, quantity |-> q] : q \in quantities}

\* Coverage that can be declared: complete needs finality, an exhausted listing
\* has no cursor, and nothing is complete or final about what is unavailable.
Coverages(status) ==
    {v \in [complete : BOOLEAN, listed : BOOLEAN, final : BOOLEAN, cursor : BOOLEAN, missing : BOOLEAN] :
        /\ v.listed => ~v.cursor
        /\ v.complete => v.final
        /\ status = "UNAVAILABLE" => ~v.complete /\ ~v.final}

\* A page of one selection: a dataset read AS_OF, observed at some instant.
SelectionResult(id, dataset, times) ==
    UNION {{[id |-> id, dataset |-> dataset, status |-> s, observed |-> o, asOf |-> t, coverage |-> v] :
               o \in IF s = "UNAVAILABLE" THEN {None} ELSE times, t \in times, v \in Coverages(s)} :
           s \in {"AVAILABLE", "PARTIAL", "UNAVAILABLE"}}

\* The status of a section is that of its items, PARTIAL when they differ.
SectionStatus(items) ==
    CASE items = {"AVAILABLE"} -> "AVAILABLE" [] items = {"UNAVAILABLE"} -> "UNAVAILABLE" [] OTHER -> "PARTIAL"

\* The items of a response cover the requested symbols exactly.
PortfolioResponse(id, request, symbols) ==
    {[id |-> id, request |-> request, items |-> i, status |-> SectionStatus({i[s] : s \in symbols})] :
        i \in [symbols -> {"AVAILABLE", "UNAVAILABLE"}]}

-----------------------------------------------------------------------------
(* Rows.  The parent of a row is the evidence of an anchor or the request   *)
(* of a response, a foreign key.                                           *)

Row(t, k, c, p) == [kind |-> t, key |-> k, content |-> c, parent |-> p]
SameKey(r, s) == r.kind = s.kind /\ r.key = s.key

\* put_evidence writes the record and then its anchors in the order given.
EvidenceRows(o) ==
    <<Row("evidence", o.id, [payload |-> o.payload, provenance |-> o.provenance], None)>> \o
    [i \in 1..Len(o.anchors) |-> Row("anchor", o.anchors[i], o.id, o.id)]
PageRows(r) == [i \in 1..Len(r) |-> Row("page", r[i].id, r[i], None)]
RequestRows(q) == <<Row("request", q.id, q, None)>>
ResponseRows(s) == <<Row("response", s.id, s, s.request)>>

ParentTable(r) == IF r.kind = "anchor" THEN "evidence" ELSE "request"
HasParent(r, s) ==
    r.kind \in {"anchor", "response"} =>
        \E p \in s : p.kind = ParentTable(r) /\ p.key = r.parent

\* What a statement of c sees.
Visible(c) == rows \cup mine[c]

\* The key is held by the uncommitted row of another transaction.
Waits(c, r) == \E d \in Connection \ {c} : \E s \in mine[d] : SameKey(r, s)

-----------------------------------------------------------------------------
Init ==
    /\ rows = {}
    /\ given = {}
    /\ at = [c \in Connection |-> "idle"]
    /\ todo = [c \in Connection |-> <<>>]
    /\ look = [c \in Connection |-> {}]
    /\ savepoint = [c \in Connection |-> FALSE]
    /\ mine = [c \in Connection |-> {}]
    /\ saved = [c \in Connection |-> {}]
    /\ probe = [c \in Connection |-> None]
    /\ found = [c \in Connection |-> {}]
    /\ said = [c \in Connection |-> {}]
    /\ calls = [c \in Connection |-> 0]

Goto(c, l) == at' = [at EXCEPT ![c] = l]

Open(c) ==
    /\ at[c] = "idle" /\ calls[c] < MaxCalls[c]
    /\ Goto(c, "open")
    /\ UNCHANGED <<rows, given, look, todo, savepoint, mine, saved, probe, found, said, calls>>

\* The unit of work ends and takes what is not committed with it.
Leave(c) ==
    /\ Goto(c, "idle")
    /\ todo' = [todo EXCEPT ![c] = <<>>]
    /\ look' = [look EXCEPT ![c] = {}]
    /\ savepoint' = [savepoint EXCEPT ![c] = FALSE]
    /\ mine' = [mine EXCEPT ![c] = {}]
    /\ saved' = [saved EXCEPT ![c] = {}]
    /\ probe' = [probe EXCEPT ![c] = None]
    /\ found' = [found EXCEPT ![c] = {}]
    /\ said' = [said EXCEPT ![c] = {}]
    /\ UNCHANGED calls

Commit(c) ==
    /\ at[c] = "open"
    /\ rows' = rows \cup mine[c]
    /\ given' = given \cup said[c]
    /\ Leave(c)

Rollback(c) == at[c] # "idle" /\ Leave(c) /\ UNCHANGED <<rows, given>>

\* A call of one of the stores, with the rows it is to write.
Put(c, w, atomic) ==
    /\ at[c] = "open" /\ calls[c] < MaxCalls[c]
    /\ Goto(c, "put")
    /\ todo' = [todo EXCEPT ![c] = w]
    /\ savepoint' = [savepoint EXCEPT ![c] = atomic]
    /\ calls' = [calls EXCEPT ![c] = @ + 1]
    /\ UNCHANGED <<rows, given, look, mine, saved, probe, found, said>>

PutEvidence(c) == \E o \in Offers : Put(c, EvidenceRows(o), TRUE)
PutResponse(c) == \E r \in Responses : Put(c, PageRows(r), FALSE)
RecordRequest(c) == \E q \in Requests : Put(c, RequestRows(q), FALSE)
RecordResponse(c) == \E s \in Answers : Put(c, ResponseRows(s), FALSE)

Writing(c) == at[c] = "put" /\ todo[c] # <<>> /\ ~Waits(c, Head(todo[c]))
Taken(c) == \E r \in Visible(c) : SameKey(r, Head(todo[c]))

InsertRow(c) ==
    /\ Writing(c)
    /\ ~Taken(c)
    /\ HasParent(Head(todo[c]), Visible(c))
    /\ mine' = [mine EXCEPT ![c] = @ \cup {Head(todo[c])}]
    /\ todo' = [todo EXCEPT ![c] = Tail(@)]
    /\ UNCHANGED <<rows, given, look, at, savepoint, saved, probe, found, said, calls>>

\* The row is there already with this content.
KeepRow(c) ==
    /\ Writing(c)
    /\ Head(todo[c]) \in Visible(c)
    /\ todo' = [todo EXCEPT ![c] = Tail(@)]
    /\ UNCHANGED <<rows, given, look, at, savepoint, mine, saved, probe, found, said, calls>>

\* Another content under the key: put_evidence goes back to its savepoint and
\* its caller may go on with the transaction.
Conflict(c) ==
    /\ Writing(c)
    /\ Taken(c)
    /\ Head(todo[c]) \notin Visible(c)
    /\ savepoint[c]
    /\ Goto(c, "open")
    /\ todo' = [todo EXCEPT ![c] = <<>>]
    /\ savepoint' = [savepoint EXCEPT ![c] = FALSE]
    /\ mine' = [mine EXCEPT ![c] = saved[c]]
    /\ UNCHANGED <<rows, given, look, saved, probe, found, said, calls>>

Return(c) ==
    /\ at[c] = "put" /\ todo[c] = <<>>
    /\ Goto(c, "open")
    /\ savepoint' = [savepoint EXCEPT ![c] = FALSE]
    /\ saved' = [saved EXCEPT ![c] = mine[c]]
    /\ UNCHANGED <<rows, given, look, todo, mine, probe, found, said, calls>>

-----------------------------------------------------------------------------
(* The preflight: one query per anchor, in any order, then one answer.     *)

Preflight(c) ==
    /\ at[c] = "open" /\ calls[c] < MaxCalls[c]
    /\ \E p \in Probes :
        /\ probe' = [probe EXCEPT ![c] = p]
        /\ look' = [look EXCEPT ![c] = p.anchors]
    /\ Goto(c, "probe")
    /\ found' = [found EXCEPT ![c] = {}]
    /\ calls' = [calls EXCEPT ![c] = @ + 1]
    /\ UNCHANGED <<rows, given, todo, savepoint, mine, saved, said>>

\* The accepted evidence an anchor leads to, with its payload.
AcceptedBy(a, s) ==
    {[id |-> e.key, payload |-> e.content.payload] :
        e \in {r \in s : /\ r.kind = "evidence"
                         /\ \E l \in s : l.kind = "anchor" /\ l.key = a /\ l.content = r.key}}

ReadAnchor(c) ==
    /\ at[c] = "probe"
    /\ \E a \in look[c] :
        /\ found' = [found EXCEPT ![c] = @ \cup AcceptedBy(a, Visible(c))]
        /\ look' = [look EXCEPT ![c] = @ \ {a}]
    /\ UNCHANGED <<rows, given, at, todo, savepoint, mine, saved, probe, said, calls>>

\* Mutant: the content is compared before the owners are.
VerdictMutant(p, accepted) ==
    IF \E e \in accepted : e.payload = p.candidate THEN "RECOGNIZED"
    ELSE IF \E e, f \in accepted : e.id # f.id THEN "AMBIGUOUS_OWNER" ELSE "CONTENT_CONTRADICTION"

Verdict(p, accepted) ==
    IF \E e, f \in accepted : e.id # f.id THEN "AMBIGUOUS_OWNER"
    ELSE IF \E e \in accepted : e.payload = p.candidate THEN "RECOGNIZED" ELSE "CONTENT_CONTRADICTION"

Statement(p, accepted) == [verdict |-> Verdict(p, accepted), probe |-> p, accepted |-> accepted]

\* A challenge is a row of its own, keyed by the digest of all it says.
ChallengeRows(p, accepted) ==
    IF Verdict(p, accepted) = "RECOGNIZED" THEN {}
    ELSE {Row("challenge", Statement(p, accepted), None, None)}

Conclude(c) ==
    /\ at[c] = "probe" /\ look[c] = {}
    /\ IF found[c] = {} THEN UNCHANGED <<mine, saved, said>>
       ELSE LET new == {r \in ChallengeRows(probe[c], found[c]) : ~\E s \in Visible(c) : SameKey(r, s)}
            IN  /\ \A r \in new : ~Waits(c, r)
                /\ mine' = [mine EXCEPT ![c] = @ \cup new]
                /\ saved' = [saved EXCEPT ![c] = @ \cup new]
                /\ said' = [said EXCEPT ![c] = @ \cup {Statement(probe[c], found[c])}]
    /\ Goto(c, "open")
    /\ probe' = [probe EXCEPT ![c] = None]
    /\ found' = [found EXCEPT ![c] = {}]
    /\ UNCHANGED <<rows, given, look, todo, savepoint, calls>>

-----------------------------------------------------------------------------
(* The last traded price as of an instant.                                 *)

Complete(v) == v.complete /\ v.listed /\ v.final /\ ~v.cursor /\ ~v.missing

Eligible(g) ==
    /\ g.dataset = "LAST_TRADED_PRICE"
    /\ g.status = "AVAILABLE"
    /\ Complete(g.coverage)
    /\ g.observed <= g.asOf

Pages(s) == {r.content : r \in {x \in s : x.kind = "page"}}
Candidates(s, t) == {g \in Pages(s) : Eligible(g) /\ g.observed <= t}
NotNewer(g, h) == g.observed < h.observed \/ (g.observed = h.observed /\ g.id <= h.id)

Priced(s, g, t) == [verdict |-> "PRICE", page |-> g, asOf |-> t, over |-> s]

PriceAsOf(c, t) ==
    /\ at[c] = "open" /\ calls[c] < MaxCalls[c]
    /\ \E g \in Candidates(Visible(c), t) :
        /\ \A h \in Candidates(Visible(c), t) : NotNewer(h, g)
        /\ said' = [said EXCEPT ![c] = @ \cup {Priced(Candidates(Visible(c), t), g, t)}]
    /\ calls' = [calls EXCEPT ![c] = @ + 1]
    /\ UNCHANGED <<rows, given, look, at, todo, savepoint, mine, saved, probe, found>>

Next ==
    \E c \in Connection :
        \/ Open(c) \/ Commit(c) \/ Rollback(c)
        \/ PutEvidence(c) \/ PutResponse(c) \/ RecordRequest(c) \/ RecordResponse(c)
        \/ InsertRow(c) \/ KeepRow(c) \/ Conflict(c) \/ Return(c)
        \/ Preflight(c) \/ ReadAnchor(c) \/ Conclude(c)
        \/ \E t \in Instants : PriceAsOf(c, t)

Spec == Init /\ [][Next]_vars

-----------------------------------------------------------------------------
(* Whoever raced, died or was rolled back.                                 *)

\* One content per identity: evidence, anchor, page, request, response.
OneContent(s) == \A r, x \in s : SameKey(r, x) => r = x

\* What was answered holds of the rows s: a recognized candidate is the one
\* accepted content its anchors lead to, a contradiction differs from it, an
\* ambiguity has two owners, and a price is the newest eligible one it saw.
Stands(a, s) ==
    CASE a.verdict = "PRICE" -> /\ a.page \in Candidates(s, a.asOf)
                                /\ a.over \subseteq Candidates(s, a.asOf)
                                /\ \A h \in a.over : NotNewer(h, a.page)
      [] OTHER -> /\ \A e \in a.accepted : \E k \in a.probe.anchors : e \in AcceptedBy(k, s)
                  /\ a.verdict = "AMBIGUOUS_OWNER" <=> \E e, f \in a.accepted : e.id # f.id
                  /\ a.verdict = "RECOGNIZED" => \A e \in a.accepted : e.payload = a.probe.candidate
                  /\ a.verdict = "CONTENT_CONTRADICTION" =>
                        \A e \in a.accepted : e.payload # a.probe.candidate

\* A cashflow accepted as a magnitude has the sign of the direction it came
\* with.  Under the other conventions the sign is the source's: the direction
\* beside it is not compared with it.
MagnitudeIsDirected ==
    \A r \in rows : r.kind = "evidence" /\ "amount" \in DOMAIN r.content.payload =>
        LET m == r.content.payload
        IN  m.convention = "MAGNITUDE_WITH_DIRECTION" =>
                m.direction = (CASE m.amount < 0 -> "DEBIT" [] m.amount > 0 -> "CREDIT" [] OTHER -> "ZERO")

\* A fact is accepted once and stays: no identity has two contents, no anchor
\* or response is without its evidence or request, and every committed answer
\* holds of the rows as they are now.
FactsHold ==
    /\ OneContent(rows)
    /\ \A r \in rows : HasParent(r, rows)
    /\ \A a \in given : Stands(a, rows)

\* Every row, committed or not.
Written == rows \cup UNION {mine[c] : c \in Connection}

\* The same of what is not committed: a transaction's rows have their parents
\* in what it sees, back to its savepoint too, what it has answered holds of
\* that, and a preflight under way has seen what is still there.
TransactionIsSound(c) ==
    /\ at[c] = "idle" => mine[c] = {}
    /\ at[c] # "put" => saved[c] = mine[c]
    /\ saved[c] \subseteq mine[c]
    /\ \A r \in mine[c] : HasParent(r, rows \cup mine[c])
    /\ \A r \in saved[c] : HasParent(r, rows \cup saved[c])
    /\ \A a \in said[c] : Stands(a, rows \cup saved[c])
    /\ at[c] = "probe" =>
        /\ look[c] \subseteq probe[c].anchors
        /\ \A e \in found[c] : \E k \in probe[c].anchors : e \in AcceptedBy(k, rows \cup mine[c])

\* Every function of the state is over the units of work.
Shaped ==
    /\ DOMAIN at = Connection /\ DOMAIN todo = Connection /\ DOMAIN look = Connection
    /\ DOMAIN savepoint = Connection /\ DOMAIN mine = Connection /\ DOMAIN saved = Connection
    /\ DOMAIN probe = Connection /\ DOMAIN found = Connection /\ DOMAIN said = Connection

FactsInv ==
    /\ Shaped
    /\ FactsHold
    /\ OneContent(Written)
    /\ \A c \in Connection : TransactionIsSound(c)

-----------------------------------------------------------------------------
(* The invariant for any connections, offers, responses, probes and        *)
(* instants.                                                               *)

USE DEF Shaped

\* A row keeps its parent, and an anchor what it leads to, while rows are added.
LEMMA ParentStays ==
    ASSUME NEW r, NEW s, NEW t, s \subseteq t, HasParent(r, s) PROVE HasParent(r, t)
BY DEF HasParent

\* What an anchor leads to stays.
LEMMA AcceptedStays ==
    ASSUME NEW k, NEW s, NEW t, s \subseteq t PROVE AcceptedBy(k, s) \subseteq AcceptedBy(k, t)
BY DEF AcceptedBy

\* An answer that holds of some rows holds of more rows: it names what it saw
\* and denies nothing about what it did not see.
LEMMA AnswerStays ==
    ASSUME NEW a, NEW s, NEW t, s \subseteq t, Stands(a, s) PROVE Stands(a, t)
<1>1. Candidates(s, a.asOf) \subseteq Candidates(t, a.asOf)
  BY DEF Candidates, Pages
<1>2. CASE a.verdict = "PRICE"
  BY <1>1, <1>2 DEF Stands
<1>3. CASE a.verdict # "PRICE"
  <2>1. \A e \in a.accepted : \E k \in a.probe.anchors : e \in AcceptedBy(k, s)
    BY <1>3 DEF Stands
  <2>2. \A e \in a.accepted : \E k \in a.probe.anchors : e \in AcceptedBy(k, t)
    BY <2>1, AcceptedStays
  <2> QED BY <1>3, <2>2 DEF Stands
<1> QED BY <1>2, <1>3

\* A transaction that does nothing stays sound while others commit.
LEMMA OthersStaySound ==
    ASSUME NEW d \in Connection, TransactionIsSound(d), rows \subseteq rows',
           at'[d] = at[d], mine'[d] = mine[d], saved'[d] = saved[d], said'[d] = said[d],
           look'[d] = look[d], probe'[d] = probe[d], found'[d] = found[d]
    PROVE  TransactionIsSound(d)'
<1> DEFINE m == mine[d]  s == saved[d]
<1>1. \A r \in m : HasParent(r, rows' \cup m)
  BY ParentStays DEF TransactionIsSound
<1>2. \A r \in s : HasParent(r, rows' \cup s)
  BY ParentStays DEF TransactionIsSound
<1>3. \A a \in said[d] : Stands(a, rows' \cup s)
  BY AnswerStays DEF TransactionIsSound
<1>4. ASSUME at[d] = "probe"
      PROVE \A e \in found[d] : \E k \in probe[d].anchors : e \in AcceptedBy(k, rows' \cup m)
  BY <1>4, AcceptedStays DEF TransactionIsSound
<1> QED BY <1>1, <1>2, <1>3, <1>4 DEF TransactionIsSound

\* What the rows hold now, they hold with the rows of a sound transaction.
LEMMA CommitKeepsFacts ==
    ASSUME NEW c \in Connection, FactsInv, at[c] = "open",
           rows' = rows \cup mine[c], given' = given \cup said[c]
    PROVE  FactsHold'
<1>1. rows' \subseteq Written /\ OneContent(Written)
  BY DEF FactsInv, Written
<1>2. OneContent(rows)'
  BY <1>1 DEF OneContent
<1>3. \A r \in rows' : HasParent(r, rows')
  <2>1. ASSUME NEW r \in rows PROVE HasParent(r, rows')
    BY <2>1, ParentStays DEF FactsInv, FactsHold
  <2>2. ASSUME NEW r \in mine[c] PROVE HasParent(r, rows')
    BY <2>2 DEF FactsInv, TransactionIsSound
  <2> QED BY <2>1, <2>2
<1>4. \A a \in given' : Stands(a, rows')
  <2>1. ASSUME NEW a \in given PROVE Stands(a, rows')
    BY <2>1, AnswerStays DEF FactsInv, FactsHold
  <2>2. saved[c] = mine[c]
    BY DEF FactsInv, TransactionIsSound
  <2>3. ASSUME NEW a \in said[c] PROVE Stands(a, rows')
    BY <2>2, <2>3 DEF FactsInv, TransactionIsSound
  <2> QED BY <2>1, <2>3
<1> QED BY <1>2, <1>3, <1>4 DEF FactsHold

\* A step of c that leaves its rows, the savepoint and its answers alone, and
\* is not part of a preflight, keeps the invariant.
LEMMA MovesOnly ==
    ASSUME NEW c \in Connection, FactsInv, UNCHANGED <<rows, given, mine, saved, said>>,
           Shaped',
           at'[c] # "idle" \/ mine[c] = {}, at'[c] # "put" => saved[c] = mine[c],
           at'[c] = "probe" =>
              /\ look'[c] \subseteq probe'[c].anchors
              /\ \A e \in found'[c] : \E k \in probe'[c].anchors : e \in AcceptedBy(k, rows \cup mine[c]),
           \A d \in Connection \ {c} : /\ at'[d] = at[d] /\ look'[d] = look[d]
                                       /\ probe'[d] = probe[d] /\ found'[d] = found[d]
    PROVE  FactsInv'
<1>1. FactsHold' /\ OneContent(Written)'
  BY DEF FactsInv, FactsHold, OneContent, Written
<1>2. ASSUME NEW d \in Connection \ {c} PROVE TransactionIsSound(d)'
  BY <1>2, OthersStaySound DEF FactsInv
<1>3. TransactionIsSound(c)'
  BY DEF FactsInv, TransactionIsSound
<1> QED BY <1>1, <1>2, <1>3 DEF FactsInv

\* A unit of work that ends, committed or not, leaves the others as they were.
LEMMA LeavingKeeps ==
    ASSUME NEW c \in Connection, FactsInv, Leave(c),
           \/ at[c] = "open" /\ rows' = rows \cup mine[c] /\ given' = given \cup said[c]
           \/ UNCHANGED <<rows, given>>
    PROVE  FactsInv'
<1>0. DOMAIN at = Connection /\ DOMAIN todo = Connection /\ DOMAIN look = Connection
      /\ DOMAIN savepoint = Connection /\ DOMAIN mine = Connection /\ DOMAIN saved = Connection
      /\ DOMAIN probe = Connection /\ DOMAIN found = Connection /\ DOMAIN said = Connection
  BY DEF FactsInv
<1>1. Shaped'
  BY <1>0 DEF Leave, Goto
<1>2. FactsHold'
  <2>1. CASE UNCHANGED <<rows, given>>
    BY <2>1 DEF FactsInv, FactsHold, OneContent
  <2> QED BY <2>1, CommitKeepsFacts
<1>3. OneContent(Written)'
  <2>1. mine'[c] = {} /\ \A d \in Connection \ {c} : mine'[d] = mine[d]
    BY <1>0 DEF Leave
  <2>2. Written' \subseteq Written
    BY <2>1 DEF Written
  <2> QED BY <2>2 DEF OneContent, FactsInv
<1>4. ASSUME NEW d \in Connection \ {c} PROVE TransactionIsSound(d)'
  <2>1. /\ at'[d] = at[d] /\ mine'[d] = mine[d] /\ saved'[d] = saved[d] /\ said'[d] = said[d]
        /\ look'[d] = look[d] /\ probe'[d] = probe[d] /\ found'[d] = found[d]
    BY <1>0, <1>4 DEF Leave, Goto
  <2>2. rows \subseteq rows'
    OBVIOUS
  <2> QED BY <1>4, <2>1, <2>2, OthersStaySound DEF FactsInv
<1>5. TransactionIsSound(c)'
  <2>1. at'[c] = "idle" /\ mine'[c] = {} /\ saved'[c] = {} /\ said'[c] = {}
    BY <1>0 DEF Leave, Goto
  <2> QED BY <2>1 DEF TransactionIsSound
<1> QED BY <1>1, <1>2, <1>3, <1>4, <1>5 DEF FactsInv

\* New rows whose keys nobody has keep one content per identity.
LEMMA NewKeys ==
    ASSUME NEW c \in Connection, NEW new, OneContent(Written), DOMAIN mine = Connection,
           \A r \in new : ~Waits(c, r) /\ \A s \in Visible(c) : ~SameKey(r, s),
           \A r, s \in new : r = s,
           rows' = rows, mine' = [mine EXCEPT ![c] = @ \cup new]
    PROVE  OneContent(Written)'
<1>1. Written' = Written \cup new
  BY DEF Written
<1>2. ASSUME NEW r \in new, NEW s \in Written PROVE ~SameKey(r, s) /\ ~SameKey(s, r)
  BY <1>2 DEF Written, Waits, Visible, SameKey
<1> QED BY <1>1, <1>2 DEF OneContent

\* A row inserted under a free key, with its parent in sight, keeps the facts.
LEMMA InsertKeeps == ASSUME NEW c \in Connection, FactsInv, InsertRow(c) PROVE FactsInv'
<1> DEFINE r == Head(todo[c])
<1>0. /\ DOMAIN at = Connection /\ DOMAIN todo = Connection /\ DOMAIN mine = Connection
      /\ OneContent(Written) /\ TransactionIsSound(c)
  BY DEF FactsInv
<1>1. /\ UNCHANGED <<rows, given, at, look, savepoint, saved, probe, found, said>>
      /\ at[c] = "put" /\ mine' = [mine EXCEPT ![c] = @ \cup {r}] /\ HasParent(r, rows \cup mine[c])
      /\ ~Waits(c, r) /\ \A s \in Visible(c) : ~SameKey(r, s)
  BY DEF InsertRow, Writing, Taken, Visible, SameKey
<1>2. Shaped'
  BY <1>1 DEF FactsInv, InsertRow
<1> HIDE DEF r
<1>3. FactsHold'
  BY <1>1 DEF FactsInv, FactsHold, OneContent
<1>4. mine'[c] = mine[c] \cup {r} /\ \A d \in Connection \ {c} : mine'[d] = mine[d]
  BY <1>0, <1>1
<1>5. OneContent(Written)'
  <2>1. Written' = Written \cup {r}
    BY <1>1, <1>4 DEF Written
  <2>2. ASSUME NEW s \in Written PROVE ~SameKey(r, s) /\ ~SameKey(s, r)
    BY <1>1, <2>2 DEF Written, Waits, Visible, SameKey
  <2> QED BY <1>0, <2>1, <2>2 DEF OneContent
<1>6. ASSUME NEW d \in Connection \ {c} PROVE TransactionIsSound(d)'
  BY <1>1, <1>4, <1>6, OthersStaySound DEF FactsInv
<1>7. TransactionIsSound(c)'
  <2>1. \A s \in mine'[c] : HasParent(s, rows \cup mine'[c])
    <3>1. ASSUME NEW s \in mine[c] PROVE HasParent(s, rows \cup mine'[c])
      BY <1>0, <1>4, <3>1, ParentStays DEF TransactionIsSound
    <3>2. HasParent(r, rows \cup mine'[c])
      BY <1>1, <1>4, ParentStays
    <3> QED BY <1>4, <3>1, <3>2
  <2> QED BY <1>0, <1>1, <1>4, <2>1 DEF TransactionIsSound
<1> QED BY <1>2, <1>3, <1>5, <1>6, <1>7 DEF FactsInv

\* Back to the savepoint: the rows of the refused call go and nothing that was
\* answered in the transaction rested on them.
LEMMA ConflictKeeps == ASSUME NEW c \in Connection, FactsInv, Conflict(c) PROVE FactsInv'
<1>0. /\ DOMAIN at = Connection /\ DOMAIN mine = Connection
      /\ OneContent(Written) /\ TransactionIsSound(c)
  BY DEF FactsInv
<1>1. /\ UNCHANGED <<rows, given, look, saved, probe, found, said>>
      /\ mine' = [mine EXCEPT ![c] = saved[c]] /\ at' = [at EXCEPT ![c] = "open"]
  BY DEF Conflict, Goto
<1>2. Shaped'
  BY <1>1 DEF FactsInv, Conflict
<1>3. FactsHold'
  BY <1>1 DEF FactsInv, FactsHold, OneContent
<1>4. mine'[c] = saved[c] /\ at'[c] = "open" /\ saved[c] \subseteq mine[c]
      /\ \A d \in Connection \ {c} : mine'[d] = mine[d] /\ at'[d] = at[d]
  BY <1>0, <1>1 DEF TransactionIsSound
<1>5. OneContent(Written)'
  <2>1. Written' \subseteq Written
    BY <1>1, <1>4 DEF Written
  <2> QED BY <1>0, <2>1 DEF OneContent
<1>6. ASSUME NEW d \in Connection \ {c} PROVE TransactionIsSound(d)'
  BY <1>1, <1>4, <1>6, OthersStaySound DEF FactsInv
<1>7. TransactionIsSound(c)'
  BY <1>0, <1>1, <1>4 DEF TransactionIsSound
<1> QED BY <1>2, <1>3, <1>5, <1>6, <1>7 DEF FactsInv

\* A call that returns makes its rows the ones a later savepoint keeps.
LEMMA ReturnKeeps == ASSUME NEW c \in Connection, FactsInv, Return(c) PROVE FactsInv'
<1>0. /\ DOMAIN at = Connection /\ DOMAIN saved = Connection
      /\ OneContent(Written) /\ TransactionIsSound(c)
  BY DEF FactsInv
<1>1. /\ UNCHANGED <<rows, given, look, mine, probe, found, said>>
      /\ saved' = [saved EXCEPT ![c] = mine[c]] /\ at' = [at EXCEPT ![c] = "open"]
  BY DEF Return, Goto
<1>2. Shaped'
  BY <1>1 DEF FactsInv, Return
<1>3. FactsHold' /\ OneContent(Written)'
  BY <1>1 DEF FactsInv, FactsHold, OneContent, Written
<1>4. saved'[c] = mine[c] /\ at'[c] = "open"
      /\ \A d \in Connection \ {c} : saved'[d] = saved[d] /\ at'[d] = at[d]
  BY <1>0, <1>1
<1>5. ASSUME NEW d \in Connection \ {c} PROVE TransactionIsSound(d)'
  BY <1>1, <1>4, <1>5, OthersStaySound DEF FactsInv
<1>6. \A a \in said[c] : Stands(a, rows \cup mine[c])
  <2>1. rows \cup saved[c] \subseteq rows \cup mine[c]
    BY <1>0 DEF TransactionIsSound
  <2>2. \A a \in said[c] : Stands(a, rows \cup saved[c])
    BY <1>0 DEF TransactionIsSound
  <2> QED BY <2>1, <2>2, AnswerStays
<1>7. TransactionIsSound(c)'
  BY <1>0, <1>1, <1>4, <1>6 DEF TransactionIsSound
<1> QED BY <1>2, <1>3, <1>5, <1>7 DEF FactsInv

\* A price read is the newest eligible page of what the transaction sees.
LEMMA PriceKeeps ==
    ASSUME NEW c \in Connection, NEW t \in Instants, FactsInv, PriceAsOf(c, t) PROVE FactsInv'
<1>0. DOMAIN said = Connection /\ OneContent(Written) /\ TransactionIsSound(c)
  BY DEF FactsInv
<1>1. UNCHANGED <<rows, given, at, look, mine, saved, probe, found>> /\ at[c] = "open"
  BY DEF PriceAsOf
<1> DEFINE s == rows \cup saved[c]
<1>2. saved[c] = mine[c] /\ Visible(c) = s
  BY <1>0, <1>1 DEF TransactionIsSound, Visible
<1>3. PICK g \in Candidates(s, t) :
        /\ \A h \in Candidates(s, t) : NotNewer(h, g)
        /\ said' = [said EXCEPT ![c] = @ \cup {Priced(Candidates(s, t), g, t)}]
  BY <1>2 DEF PriceAsOf
<1> HIDE DEF s
<1>4. Stands(Priced(Candidates(s, t), g, t), s)
  BY <1>3 DEF Stands, Priced
<1>5. said'[c] = said[c] \cup {Priced(Candidates(s, t), g, t)}
      /\ \A d \in Connection \ {c} : said'[d] = said[d]
  BY <1>0, <1>3
<1>6. Shaped'
  BY <1>1, <1>3 DEF FactsInv, PriceAsOf
<1>7. FactsHold' /\ OneContent(Written)'
  BY <1>1 DEF FactsInv, FactsHold, OneContent, Written
<1>8. ASSUME NEW d \in Connection \ {c} PROVE TransactionIsSound(d)'
  BY <1>1, <1>5, <1>8, OthersStaySound DEF FactsInv
<1>9. \A a \in said'[c] : Stands(a, rows \cup saved[c])
  BY <1>0, <1>4, <1>5 DEF TransactionIsSound, s
<1>10. TransactionIsSound(c)'
  BY <1>0, <1>1, <1>9 DEF TransactionIsSound
<1> QED BY <1>6, <1>7, <1>8, <1>10 DEF FactsInv

\* The conclusion of a preflight holds of what the transaction sees, since an
\* evidence id has one payload there, and its challenge is a row of its own.
LEMMA ConcludeKeeps == ASSUME NEW c \in Connection, FactsInv, Conclude(c) PROVE FactsInv'
<1> DEFINE p == probe[c]  acc == found[c]  s == rows \cup mine[c]
           new == {r \in ChallengeRows(p, acc) : ~\E x \in Visible(c) : SameKey(r, x)}
<1>0. /\ DOMAIN at = Connection /\ DOMAIN mine = Connection /\ DOMAIN saved = Connection
      /\ DOMAIN said = Connection /\ DOMAIN probe = Connection /\ DOMAIN found = Connection
      /\ OneContent(Written) /\ TransactionIsSound(c)
  BY DEF FactsInv
<1>1. /\ UNCHANGED <<rows, given, look, todo, savepoint>> /\ at[c] = "probe"
      /\ at' = [at EXCEPT ![c] = "open"]
      /\ probe' = [probe EXCEPT ![c] = None] /\ found' = [found EXCEPT ![c] = {}]
  BY DEF Conclude, Goto
<1>2. saved[c] = mine[c]
  BY <1>0, <1>1 DEF TransactionIsSound
<1>3. CASE acc = {}
  <2>1. UNCHANGED <<mine, saved, said>>
    BY <1>3 DEF Conclude
  <2>2. at'[c] = "open" /\ \A d \in Connection \ {c} : /\ at'[d] = at[d] /\ look'[d] = look[d]
                                                       /\ probe'[d] = probe[d] /\ found'[d] = found[d]
    BY <1>0, <1>1
  <2>3. Shaped'
    BY <1>1, <2>1 DEF FactsInv
  <2> QED BY <1>1, <1>2, <2>1, <2>2, <2>3, MovesOnly
<1>4. CASE acc # {}
  <2>1. /\ \A r \in new : ~Waits(c, r)
        /\ mine' = [mine EXCEPT ![c] = @ \cup new]
        /\ saved' = [saved EXCEPT ![c] = @ \cup new]
        /\ said' = [said EXCEPT ![c] = @ \cup {Statement(p, acc)}]
    BY <1>4 DEF Conclude
  <2>2. /\ \A r \in new : ~Waits(c, r) /\ \A x \in Visible(c) : ~SameKey(r, x)
        /\ \A r, x \in new : r = x
        /\ \A r \in new : r.kind = "challenge"
    BY <2>1 DEF ChallengeRows, Row
  <2> HIDE DEF new
  <2>3. OneContent(Written)'
    BY <1>0, <1>1, <2>1, <2>2, NewKeys
  <2>4. Shaped'
    BY <1>1, <2>1 DEF FactsInv
  <2>5. FactsHold'
    BY <1>1 DEF FactsInv, FactsHold, OneContent
  <2>6. /\ mine'[c] = mine[c] \cup new /\ saved'[c] = mine[c] \cup new
        /\ said'[c] = said[c] \cup {Statement(p, acc)} /\ at'[c] = "open"
        /\ \A d \in Connection \ {c} :
            /\ at'[d] = at[d] /\ mine'[d] = mine[d] /\ saved'[d] = saved[d] /\ said'[d] = said[d]
            /\ look'[d] = look[d] /\ probe'[d] = probe[d] /\ found'[d] = found[d]
    BY <1>0, <1>1, <1>2, <2>1
  <2>7. ASSUME NEW d \in Connection \ {c} PROVE TransactionIsSound(d)'
    BY <1>1, <2>6, <2>7, OthersStaySound DEF FactsInv
  <2>8. \A e \in acc : \E k \in p.anchors : e \in AcceptedBy(k, s)
    BY <1>0, <1>1 DEF TransactionIsSound
  <2>9. ASSUME NEW e \in acc, NEW f \in acc, e.id = f.id PROVE e.payload = f.payload
    <3>1. PICK x \in s : x.kind = "evidence" /\ e = [id |-> x.key, payload |-> x.content.payload]
      BY <2>8, <2>9 DEF AcceptedBy
    <3>2. PICK y \in s : y.kind = "evidence" /\ f = [id |-> y.key, payload |-> y.content.payload]
      BY <2>8, <2>9 DEF AcceptedBy
    <3>3. x \in Written /\ y \in Written /\ SameKey(x, y)
      BY <2>9, <3>1, <3>2 DEF Written, SameKey
    <3>4. x = y
      BY <1>0, <3>3 DEF OneContent
    <3> QED BY <3>1, <3>2, <3>4
  <2>10. Stands(Statement(p, acc), s)
    <3> DEFINE a == Statement(p, acc)
    <3>1. a.verdict = Verdict(p, acc) /\ a.accepted = acc /\ a.probe = p /\ a.verdict # "PRICE"
      BY DEF Statement, Verdict
    <3>2. a.verdict = "AMBIGUOUS_OWNER" <=> \E e, f \in acc : e.id # f.id
      BY <3>1 DEF Verdict
    <3>3. ASSUME a.verdict = "RECOGNIZED" PROVE \A e \in acc : e.payload = p.candidate
      BY <2>9, <3>1, <3>3 DEF Verdict
    <3>4. ASSUME a.verdict = "CONTENT_CONTRADICTION" PROVE \A e \in acc : e.payload # p.candidate
      BY <3>1, <3>4 DEF Verdict
    <3> HIDE DEF a
    <3>5. Stands(a, s)
      BY <2>8, <3>1, <3>2, <3>3, <3>4 DEF Stands
    <3> QED BY <3>5 DEF a
  <2>11. \A a \in said'[c] : Stands(a, rows \cup saved'[c])
    <3>1. \A a \in said[c] : Stands(a, s)
      BY <1>0, <1>2 DEF TransactionIsSound
    <3>2. s \subseteq rows \cup saved'[c]
      BY <2>6
    <3> QED BY <2>6, <2>10, <3>1, <3>2, AnswerStays
  <2>12. \A r \in mine'[c] : HasParent(r, rows \cup mine'[c])
    <3>1. ASSUME NEW r \in mine[c] PROVE HasParent(r, rows \cup mine'[c])
      <4>1. HasParent(r, s)
        BY <1>0, <3>1 DEF TransactionIsSound
      <4> QED BY <2>6, <4>1, ParentStays
    <3>2. ASSUME NEW r \in new PROVE HasParent(r, rows \cup mine'[c])
      BY <2>2, <3>2 DEF HasParent
    <3> QED BY <2>6, <3>1, <3>2
  <2>13. TransactionIsSound(c)'
    BY <1>1, <2>6, <2>11, <2>12 DEF TransactionIsSound
  <2> QED BY <2>3, <2>4, <2>5, <2>7, <2>13 DEF FactsInv
<1> QED BY <1>3, <1>4

\* What a preflight reads of an anchor is still there when it concludes.
LEMMA ReadKeeps == ASSUME NEW c \in Connection, FactsInv, ReadAnchor(c) PROVE FactsInv'
<1>0. DOMAIN look = Connection /\ DOMAIN found = Connection /\ TransactionIsSound(c)
  BY DEF FactsInv
<1>1. UNCHANGED <<rows, given, at, todo, savepoint, mine, saved, probe, said>> /\ at[c] = "probe"
  BY DEF ReadAnchor
<1>2. PICK a \in look[c] :
        /\ found' = [found EXCEPT ![c] = @ \cup AcceptedBy(a, Visible(c))]
        /\ look' = [look EXCEPT ![c] = @ \ {a}]
  BY DEF ReadAnchor
<1>3. /\ found'[c] = found[c] \cup AcceptedBy(a, rows \cup mine[c]) /\ look'[c] \subseteq look[c]
      /\ \A d \in Connection \ {c} : look'[d] = look[d] /\ found'[d] = found[d]
  BY <1>0, <1>2 DEF Visible
<1>4. /\ look[c] \subseteq probe[c].anchors
      /\ \A e \in found[c] : \E k \in probe[c].anchors : e \in AcceptedBy(k, rows \cup mine[c])
      /\ saved[c] = mine[c]
  BY <1>0, <1>1 DEF TransactionIsSound
<1>5. \A e \in found'[c] : \E k \in probe[c].anchors : e \in AcceptedBy(k, rows \cup mine[c])
  BY <1>3, <1>4
<1>6. Shaped'
  BY <1>1, <1>2 DEF FactsInv
<1> QED BY <1>1, <1>3, <1>4, <1>5, <1>6, MovesOnly

\* Every statement of every store keeps the invariant.
LEMMA FactsStep == FactsInv /\ [Next]_vars => FactsInv'
<1> SUFFICES ASSUME FactsInv, [Next]_vars PROVE FactsInv'
  OBVIOUS
<1>0. DOMAIN at = Connection /\ DOMAIN todo = Connection /\ DOMAIN look = Connection
      /\ DOMAIN savepoint = Connection /\ DOMAIN probe = Connection /\ DOMAIN found = Connection
  BY DEF FactsInv
<1>1. ASSUME NEW c \in Connection, Open(c) PROVE FactsInv'
  <2>1. at'[c] = "open" /\ mine[c] = saved[c] /\ \A d \in Connection \ {c} : at'[d] = at[d]
    BY <1>0, <1>1 DEF Open, Goto, FactsInv, TransactionIsSound
  <2>2. Shaped'
    BY <1>1 DEF Open, Goto, FactsInv
  <2> QED BY <1>1, <2>1, <2>2, MovesOnly DEF Open
<1>2. ASSUME NEW c \in Connection, Commit(c) PROVE FactsInv'
  BY <1>2, LeavingKeeps DEF Commit
<1>3. ASSUME NEW c \in Connection, Rollback(c) PROVE FactsInv'
  BY <1>3, LeavingKeeps DEF Rollback
<1>4. ASSUME NEW c \in Connection, NEW w, NEW b, Put(c, w, b) PROVE FactsInv'
  <2>1. at'[c] = "put" /\ \A d \in Connection \ {c} : at'[d] = at[d]
    BY <1>0, <1>4 DEF Put, Goto
  <2>2. Shaped'
    BY <1>4 DEF Put, Goto, FactsInv
  <2> QED BY <1>4, <2>1, <2>2, MovesOnly DEF Put
<1>5. ASSUME NEW c \in Connection, KeepRow(c) PROVE FactsInv'
  <2>1. at'[c] = "put" /\ at' = at
    BY <1>5 DEF KeepRow, Writing
  <2>2. Shaped'
    BY <1>5 DEF KeepRow, FactsInv
  <2> QED BY <1>5, <2>1, <2>2, MovesOnly DEF KeepRow
<1>6. ASSUME NEW c \in Connection, Preflight(c) PROVE FactsInv'
  <2>1. /\ at'[c] = "probe" /\ found'[c] = {} /\ mine[c] = saved[c]
        /\ \A d \in Connection \ {c} : at'[d] = at[d] /\ found'[d] = found[d]
    BY <1>0, <1>6 DEF Preflight, Goto, FactsInv, TransactionIsSound
  <2>2. PICK p \in Probes : probe' = [probe EXCEPT ![c] = p] /\ look' = [look EXCEPT ![c] = p.anchors]
    BY <1>6 DEF Preflight
  <2>3. /\ probe'[c] = p /\ look'[c] = p.anchors
        /\ \A d \in Connection \ {c} : probe'[d] = probe[d] /\ look'[d] = look[d]
    BY <1>0, <2>2
  <2>4. Shaped'
    BY <1>6, <2>2 DEF Preflight, Goto, FactsInv
  <2> QED BY <1>6, <2>1, <2>3, <2>4, MovesOnly DEF Preflight
<1>7. CASE UNCHANGED vars
  <2>1. UNCHANGED <<rows, given, at, todo, look, savepoint, mine, saved, probe, found, said>>
    BY <1>7 DEF vars, txVars
  <2>2. FactsHold'
    BY <2>1 DEF FactsInv, FactsHold, OneContent
  <2>3. OneContent(Written)'
    BY <2>1 DEF FactsInv, OneContent, Written
  <2>4. ASSUME NEW d \in Connection PROVE TransactionIsSound(d)'
    BY <2>1, <2>4, OthersStaySound DEF FactsInv
  <2>5. Shaped'
    BY <2>1 DEF FactsInv
  <2> QED BY <2>2, <2>3, <2>4, <2>5 DEF FactsInv
<1> QED
  BY <1>1, <1>2, <1>3, <1>4, <1>5, <1>6, <1>7, InsertKeeps, ConflictKeeps, ReturnKeeps, ReadKeeps,
     ConcludeKeeps, PriceKeeps DEF Next, PutEvidence, PutResponse, RecordRequest, RecordResponse

\* A fact is accepted once and every committed answer about it stays true,
\* however the transactions of any number of connections interleave, fail and
\* roll back.
THEOREM FactsAreFinal == Spec => []FactsHold
<1>1. Init => FactsInv
  <2> SUFFICES ASSUME Init PROVE FactsInv
    OBVIOUS
  <2>1. \A c \in Connection : mine[c] = {} /\ saved[c] = {} /\ said[c] = {} /\ at[c] = "idle"
    BY DEF Init
  <2>2. Written = {} /\ rows = {} /\ given = {}
    BY <2>1 DEF Init, Written
  <2>3. \A c \in Connection : TransactionIsSound(c)
    BY <2>1 DEF TransactionIsSound
  <2>4. Shaped
    BY DEF Init
  <2> QED BY <2>2, <2>3, <2>4 DEF FactsInv, FactsHold, OneContent
<1>2. FactsInv => FactsHold
  BY DEF FactsInv
<1> QED BY <1>1, <1>2, FactsStep, PTL DEF Spec
=============================================================================

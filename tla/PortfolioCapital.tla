--------------------------- MODULE PortfolioCapital ---------------------------
(***************************************************************************)
(* Capital of one portfolio and one coin: the revisions of the portfolio   *)
(* state (portfolio_state_store), the non-reserving grants issued on       *)
(* approved decisions (portfolio_grants, portfolio_grant_decision_store,   *)
(* capital_grant_store) and the bookings that turn a constructed grant     *)
(* into a submit authorization with its hold and its cooldown pin          *)
(* (portfolio_current_booking, portfolio_current_booking_workflow,         *)
(* submit_authorization_store).                                            *)
(*                                                                         *)
(* A call reads what it needs, evaluates, and writes everything in one     *)
(* transaction: read and commit are two steps of the model, a refused      *)
(* write rolls the whole call back, and the process may die in between.    *)
(* Grants and bookings take the portfolio state from their caller, who     *)
(* read the current revision earlier.  Capital is counted in quanta.       *)
(***************************************************************************)
EXTENDS Integers, FiniteSets, FiniteSetsExt

CONSTANTS
    Snapshot,   \* states to record: [evidence, rev, live, global, coin], of
                \* buckets [held, reserved, filled, closing, tranches]; coin
                \* may be Nil
    Request,    \* approved decisions put to Portfolio: [decision, content,
                \* grant]
    Construction, \* constructed results: [id, grant, spec, capital]
    Policy,     \* [minimum, globalCap, coinCap, maxOpen, maxPerCoin]
    Input,      \* what else the gates are told: [daily, cooldown, clear]
    Auth,       \* authorization ids callers choose
    Txn,        \* connections
    Nil

VARIABLES
    revisions,  \* triggertrade_portfolio_state_revisions
    current,    \* triggertrade_portfolio_state_current, or Nil
    decisions,  \* portfolio_grant_decision records
    grants,     \* triggertrade_capital_grants
    bookings,   \* portfolio_current_booking records
    auths,      \* triggertrade_submit_authorizations
    pins,       \* authorizations with a row in ..._portfolio_cooldown_pins
    txn         \* txn[x]: what x read and evaluated, or Nil

stateVars == <<revisions, current>>
grantVars == <<decisions, grants>>
bookingVars == <<bookings, auths, pins>>
vars == <<stateVars, grantVars, bookingVars, txn>>

(***************************************************************************)
(* Committed capital and tranches are counted; what a call carries from    *)
(* its reads to its writes is a state to record, a grant decided or a      *)
(* booking decided.                                                        *)
(***************************************************************************)
Bucket == [held : Nat, reserved : Nat, filled : Nat, closing : Nat, tranches : Nat]
Decided == [request : Request, on : Snapshot, status : {"UNAVAILABLE", "ALLOWED", "BLOCKED"},
            capital : Int \cup {Nil}]
Booked == [construction : Construction, auth : Auth, on : Snapshot,
           status : {"UNAVAILABLE", "AUTHORIZED", "BLOCKED"}]
Work == [kind : {"state"}, new : Snapshot, locks : BOOLEAN]
        \cup [kind : {"grant"}, new : Decided] \cup [kind : {"booking"}, new : Booked]

CapitalConstants ==
    /\ \A s \in Snapshot : /\ s.rev \in Nat /\ s.live \in BOOLEAN
                           /\ s.global \in Bucket /\ s.coin \in Bucket \cup {Nil}
    /\ Policy \in [minimum : Nat, globalCap : Nat, coinCap : Nat, maxOpen : Nat, maxPerCoin : Nat]
    /\ \A c \in Construction : c.capital \in Nat
    /\ Nil \notin Snapshot \cup Work

TypeOK ==
    /\ revisions \subseteq Snapshot /\ current \in Snapshot \cup {Nil}
    /\ decisions \subseteq Decided /\ grants \subseteq Decided
    /\ bookings \subseteq Booked /\ auths \subseteq Booked /\ pins \subseteq Auth
    /\ txn \in [Txn -> Work \cup {Nil}]

Init ==
    /\ revisions = {} /\ current = Nil
    /\ decisions = {} /\ grants = {}
    /\ bookings = {} /\ auths = {} /\ pins = {}
    /\ txn = [x \in Txn |-> Nil]

Begin(x, what) == txn[x] = Nil /\ txn' = [txn EXCEPT ![x] = what]
Doing(x, kind) == txn[x] # Nil /\ txn[x].kind = kind
End(x) == txn' = [txn EXCEPT ![x] = Nil]

(***************************************************************************)
(* An exception, or the process dies: the transaction rolls back.          *)
(***************************************************************************)
Rollback(x) ==
    /\ txn[x] # Nil
    /\ End(x)
    /\ UNCHANGED <<stateVars, grantVars, bookingVars>>

-----------------------------------------------------------------------------
(* The portfolio state.                                                    *)

(***************************************************************************)
(* PortfolioStateStore.record up to the revision check.  The current row   *)
(* is locked when there is one; before the first commit there is nothing   *)
(* to lock, and first writers run side by side.                            *)
(***************************************************************************)
RowLocked == \E y \in Txn : Doing(y, "state") /\ txn[y].locks

SelectCurrent(x, s) ==
    /\ \A r \in revisions : r.evidence # s.evidence
    /\ current # Nil => ~RowLocked /\ s.rev > current.rev
    /\ Begin(x, [kind |-> "state", new |-> s, locks |-> current # Nil])
    /\ UNCHANGED <<stateVars, grantVars, bookingVars>>

(***************************************************************************)
(* Its insert and its upsert, and the commit.  (portfolio_id, evidence_id) *)
(* is unique, which makes a replay or a conflict; (portfolio_id, revision) *)
(* is the primary key, which raises.                                       *)
(***************************************************************************)
\* Mutant: the upsert has no WHERE clause.
UpsertAlways(s) == s

Upsert(s) == IF current = Nil \/ current.rev < s.rev THEN s ELSE current

RecordState(x) ==
    /\ Doing(x, "state")
    /\ LET s == txn[x].new IN
       IF \E r \in revisions : r.evidence = s.evidence \/ r.rev = s.rev
       THEN UNCHANGED stateVars
       ELSE /\ revisions' = revisions \cup {s}
            /\ current' = Upsert(s)
    /\ End(x)
    /\ UNCHANGED <<grantVars, bookingVars>>

-----------------------------------------------------------------------------
(* Grants.                                                                 *)

(***************************************************************************)
(* _bucket_commitment                                                      *)
(***************************************************************************)
\* Mutant: capital retained while a tranche closes is forgotten.
CommittedWithoutClosing(b) == b.held + b.reserved + b.filled

Committed(b) == b.held + b.reserved + b.filled + b.closing

(***************************************************************************)
(* evaluate_portfolio_grant: the candidate divides the coin's free capital *)
(* evenly over its free slots, rounded down, and must reach the minimum    *)
(* and fit into the free global capital.                                   *)
(***************************************************************************)
Candidate(s) ==
    (Policy.coinCap - Committed(s.coin)) \div (Policy.maxPerCoin - s.coin.tranches)

GrantStatus(s, i) ==
    IF ~s.live \/ s.coin = Nil THEN "UNAVAILABLE"
    ELSE IF /\ ~i.daily
            /\ s.global.tranches < Policy.maxOpen
            /\ s.coin.tranches < Policy.maxPerCoin
            /\ Committed(s.coin) < Policy.coinCap
            /\ Candidate(s) > 0 /\ Candidate(s) >= Policy.minimum
            /\ Candidate(s) <= Policy.globalCap - Committed(s.global)
         THEN "ALLOWED"
    ELSE "BLOCKED"

Evaluation(q, s, i) ==
    [request |-> q, on |-> s, status |-> GrantStatus(s, i),
     capital |-> IF GrantStatus(s, i) = "ALLOWED" THEN Candidate(s) ELSE Nil]

(***************************************************************************)
(* evaluate_and_record of the grant store: no decision is recorded yet.    *)
(* (When one is, the call ends there: the same decision's grant exists,    *)
(* for it was issued with it, and another decision is a conflict.)         *)
(***************************************************************************)
EvaluateGrant(x, q, i) ==
    /\ current # Nil
    /\ \A d \in decisions : d.request.decision # q.decision
    /\ Begin(x, [kind |-> "grant", new |-> Evaluation(q, current, i)])
    /\ UNCHANGED <<stateVars, grantVars, bookingVars>>

(***************************************************************************)
(* CapitalGrantStore.issue: the grant id and the decision are unique; any  *)
(* other content under one of them raises and rolls the decision back too. *)
(***************************************************************************)
Issuable(e) ==
    \A g \in grants : g.request.grant # e.request.grant
                      /\ g.request.decision # e.request.decision

\* Mutant: the conflict of the grant does not roll the decision back.
IssueConflictSwallowed(e) ==
    /\ decisions' = decisions \cup {e}
    /\ grants' = IF e.status = "ALLOWED" /\ Issuable(e) THEN grants \cup {e} ELSE grants

Issue(e) ==
    IF e.status # "ALLOWED" THEN decisions' = decisions \cup {e} /\ UNCHANGED grants
    ELSE IF Issuable(e) THEN decisions' = decisions \cup {e} /\ grants' = grants \cup {e}
    ELSE UNCHANGED grantVars

RecordGrant(x) ==
    /\ Doing(x, "grant")
    /\ IF \E d \in decisions : d.request.decision = txn[x].new.request.decision
       THEN UNCHANGED grantVars
       ELSE Issue(txn[x].new)
    /\ End(x)
    /\ UNCHANGED <<stateVars, bookingVars>>

-----------------------------------------------------------------------------
(* Bookings.                                                               *)

(***************************************************************************)
(* evaluate_current_portfolio_booking with _capital_gates.  Only the held  *)
(* bucket is set against the caps.                                         *)
(***************************************************************************)
CapitalGates(s, c) ==
    /\ s.global.held + c.capital <= Policy.globalCap
    /\ s.coin # Nil
    /\ s.coin.held + c.capital <= Policy.coinCap
    /\ s.global.tranches + 1 <= Policy.maxOpen
    /\ s.coin.tranches + 1 <= Policy.maxPerCoin

BookingStatus(s, c, i) ==
    IF ~s.live \/ i.cooldown = "UNAVAILABLE" THEN "UNAVAILABLE"
    ELSE IF CapitalGates(s, c) /\ ~i.daily /\ i.cooldown = "PASS" /\ i.clear
      THEN "AUTHORIZED"
    ELSE "BLOCKED"

(***************************************************************************)
(* build_submit_authorized refuses a hold larger than the grant; the       *)
(* remaining capital and slots of the grant were positive at its issue.    *)
(***************************************************************************)
HoldFits(g, c) == c.capital <= g.capital

(***************************************************************************)
(* evaluate_and_record of the workflow, up to the evaluation.              *)
(***************************************************************************)
EvaluateBooking(x, c, a, i) ==
    /\ current # Nil
    /\ \A b \in bookings : b.construction.id # c.id
    /\ \E g \in grants :
         /\ g.request.grant = c.grant
         /\ BookingStatus(current, c, i) = "AUTHORIZED" => HoldFits(g, c)
    /\ Begin(x, [kind |-> "booking",
                 new |-> [construction |-> c, auth |-> a, on |-> current,
                          status |-> BookingStatus(current, c, i)]])
    /\ UNCHANGED <<stateVars, grantVars, bookingVars>>

(***************************************************************************)
(* SubmitAuthorizationStore.authorize: four unique columns.                *)
(***************************************************************************)
\* Mutant: the grant's column is not unique.
AuthorizableTwice(b) ==
    \A a \in auths : a.auth # b.auth /\ a.construction.id # b.construction.id
                     /\ a.construction.spec # b.construction.spec

Authorizable(b) ==
    \A a \in auths : /\ a.auth # b.auth
                     /\ a.construction.id # b.construction.id
                     /\ a.construction.spec # b.construction.spec
                     /\ a.construction.grant # b.construction.grant

(***************************************************************************)
(* The booking, the authorization with its message, and the pin are        *)
(* written together or, when one of them is refused, not at all.           *)
(***************************************************************************)
\* Mutant: the booking is committed before it is authorized.
BookFirst(b) ==
    /\ bookings' = bookings \cup {b}
    /\ IF b.status = "AUTHORIZED" /\ Authorizable(b)
       THEN auths' = auths \cup {b} /\ pins' = pins \cup {b.auth}
       ELSE UNCHANGED <<auths, pins>>

Book(b) ==
    IF b.status # "AUTHORIZED" THEN bookings' = bookings \cup {b} /\ UNCHANGED <<auths, pins>>
    ELSE IF Authorizable(b)
      THEN /\ bookings' = bookings \cup {b}
           /\ auths' = auths \cup {b}
           /\ pins' = pins \cup {b.auth}
    ELSE UNCHANGED bookingVars

RecordBooking(x) ==
    /\ Doing(x, "booking")
    /\ IF \E b \in bookings : b.construction.id = txn[x].new.construction.id
       THEN UNCHANGED bookingVars
       ELSE Book(txn[x].new)
    /\ End(x)
    /\ UNCHANGED <<stateVars, grantVars>>

Next ==
    \E x \in Txn :
        \/ \E s \in Snapshot : SelectCurrent(x, s)
        \/ RecordState(x)
        \/ \E q \in Request, i \in Input : EvaluateGrant(x, q, i)
        \/ RecordGrant(x)
        \/ \E c \in Construction, a \in Auth, i \in Input : EvaluateBooking(x, c, a, i)
        \/ RecordBooking(x)
        \/ Rollback(x)

Spec == Init /\ [][Next]_vars

-----------------------------------------------------------------------------
(***************************************************************************)
(* The current row of PortfolioStateStore.record is the newest revision    *)
(* recorded, also when two first writers find no row to lock and commit    *)
(* in the wrong order.                                                     *)
(***************************************************************************)
CurrentIsNewest ==
    IF current = Nil THEN revisions = {}
    ELSE current \in revisions /\ \A r \in revisions : r.rev <= current.rev

(***************************************************************************)
(* A decision has one grant exactly when it was allowed, and a grant id    *)
(* serves one decision, although callers evaluate the same decision at the *)
(* same time on different states and choose the grant ids themselves.      *)
(***************************************************************************)
GrantIffAllowed ==
    /\ grants = {d \in decisions : d.status = "ALLOWED"}
    /\ \A d, e \in grants : d.request.decision = e.request.decision
                            \/ d.request.grant = e.request.grant => d = e

(***************************************************************************)
(* A grant fits the state it was decided on: with what all four buckets    *)
(* hold already, the coin's remaining slots can each be given as much      *)
(* without exceeding the coin's cap, and one of them the global cap.       *)
(***************************************************************************)
Fits(g) ==
    LET b == g.on.coin w == g.on.global
        slots == Policy.maxPerCoin - b.tranches
    IN  /\ slots > 0 /\ g.capital > 0 /\ g.capital >= Policy.minimum
        /\ b.held + b.reserved + b.filled + b.closing + slots * g.capital <= Policy.coinCap
        /\ w.held + w.reserved + w.filled + w.closing + g.capital <= Policy.globalCap

GrantFits == \A g \in grants : Fits(g)

(***************************************************************************)
(* An authorized booking has its submit authorization and its cooldown     *)
(* pin, and there is neither without it, whatever refusals, replays and    *)
(* crashes did to the workflow's transaction.                              *)
(***************************************************************************)
BookedTogether ==
    /\ auths = {b \in bookings : b.status = "AUTHORIZED"}
    /\ pins = {b.auth : b \in auths}

(***************************************************************************)
(* A grant is spent at most once, on no more than it granted, although two *)
(* constructions may name it and be booked at the same time.               *)
(***************************************************************************)
Covered(a) ==
    \E g \in grants :
        g.request.grant = a.construction.grant /\ a.construction.capital <= g.capital

GrantSpentOnce ==
    /\ \A a, b \in auths : a.construction.grant = b.construction.grant => a = b
    /\ \A a \in auths : Covered(a)

(***************************************************************************)
(* What the capital ledgers promise together, to every interleaving of     *)
(* recorders, grants and bookings.                                         *)
(***************************************************************************)
CapitalHolds ==
    CurrentIsNewest /\ GrantIffAllowed /\ GrantFits /\ BookedTogether /\ GrantSpentOnce

(***************************************************************************)
(* The inductive strengthening: what a call has decided and not yet        *)
(* written is sound on the state it read, which may be stale by then, and  *)
(* a booking it will authorize is covered by a grant that is never         *)
(* withdrawn.                                                              *)
(***************************************************************************)
DecidedIsSound ==
    \A x \in Txn :
        /\ Doing(x, "grant") /\ txn[x].new.status = "ALLOWED" => Fits(txn[x].new)
        /\ Doing(x, "booking") /\ txn[x].new.status = "AUTHORIZED" => Covered(txn[x].new)

CapitalInv == TypeOK /\ CapitalHolds /\ DecidedIsSound
=============================================================================

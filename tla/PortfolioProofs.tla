-------------------------- MODULE PortfolioProofs --------------------------
(***************************************************************************)
(* Machine-checked proofs about the ledgers of Portfolio: capital, cooldown*)
(* pins, accounting days and final receipts, for any values of the         *)
(* constants.                                                              *)
(***************************************************************************)
EXTENDS MCPortfolio, SumTheorems

-----------------------------------------------------------------------------
(***************************************************************************)
(* Capital                                                                 *)
(***************************************************************************)
\* Rounding a share down never gives away more than there is.
LEMMA SharesFit ==
  ASSUME NEW a \in Nat, NEW b \in Nat, b > 0
  PROVE  a \div b \in Int /\ b * (a \div b) <= a
OBVIOUS

\* What a call carries has the type of its kind.
LEMMA WorkKinds ==
  ASSUME CapitalConstants, TypeOK, NEW x \in Txn
  PROVE  /\ Doing(x, "state") => txn[x].new \in Snapshot
         /\ Doing(x, "grant") => txn[x].new \in Decided
         /\ Doing(x, "booking") => txn[x].new \in Booked
<1>1. txn[x] \in Work \cup {Nil}
  BY DEF TypeOK
<1> QED BY <1>1 DEF Work, Doing

\* A grant that evaluate_portfolio_grant allows fits the state it was given.
LEMMA AllowedFits ==
  ASSUME CapitalConstants, NEW q \in Request, NEW s \in Snapshot, NEW i \in Input
  PROVE  /\ Evaluation(q, s, i) \in Decided
         /\ Evaluation(q, s, i).status = "ALLOWED" => Fits(Evaluation(q, s, i))
<1>1. /\ s.live \in BOOLEAN /\ s.global \in Bucket /\ s.coin \in Bucket \cup {Nil}
      /\ Policy.minimum \in Nat /\ Policy.globalCap \in Nat /\ Policy.coinCap \in Nat
      /\ Policy.maxOpen \in Nat /\ Policy.maxPerCoin \in Nat
  BY DEF CapitalConstants
<1>2. CASE GrantStatus(s, i) = "ALLOWED"
  <2>1. /\ s.coin \in Bucket
        /\ s.coin.tranches < Policy.maxPerCoin
        /\ Committed(s.coin) < Policy.coinCap
        /\ Candidate(s) > 0 /\ Candidate(s) >= Policy.minimum
        /\ Candidate(s) <= Policy.globalCap - Committed(s.global)
    BY <1>1, <1>2 DEF GrantStatus
  <2> DEFINE a == Policy.coinCap - Committed(s.coin)
             b == Policy.maxPerCoin - s.coin.tranches
  <2>2. /\ s.coin.held \in Nat /\ s.coin.reserved \in Nat /\ s.coin.filled \in Nat
        /\ s.coin.closing \in Nat /\ s.coin.tranches \in Nat
        /\ s.global.held \in Nat /\ s.global.reserved \in Nat /\ s.global.filled \in Nat
        /\ s.global.closing \in Nat
    BY <1>1, <2>1 DEF Bucket
  <2>3. a \in Nat /\ b \in Nat /\ b > 0
    BY <1>1, <2>1, <2>2 DEF Committed
  <2>4. Candidate(s) = a \div b
    BY DEF Candidate
  <2>5. Candidate(s) \in Int /\ b * Candidate(s) <= a
    <3> HIDE DEF a, b
    <3> QED BY <2>3, <2>4, SharesFit
  <2> DEFINE g == Evaluation(q, s, i)
  <2>6. g.on = s /\ g.capital = Candidate(s) /\ g.status = "ALLOWED" /\ g \in Decided
    BY <1>2, <2>5 DEF Evaluation, Decided
  <2>7. b * Candidate(s) \in Int
    BY <2>3, <2>5
  <2>8. /\ s.coin.held + s.coin.reserved + s.coin.filled + s.coin.closing + b * Candidate(s)
             <= Policy.coinCap
        /\ s.global.held + s.global.reserved + s.global.filled + s.global.closing
             + Candidate(s) <= Policy.globalCap
    <3> DEFINE c == b * Candidate(s)
    <3>1. c \in Int /\ c <= Policy.coinCap - (s.coin.held + s.coin.reserved + s.coin.filled + s.coin.closing)
      BY <2>5, <2>7 DEF Committed
    <3> HIDE DEF c
    <3> QED BY <1>1, <2>1, <2>2, <2>5, <3>1 DEF Committed, c
  <2>9. b > 0 /\ Candidate(s) > 0 /\ Candidate(s) >= Policy.minimum
    BY <2>1, <2>3
  <2> HIDE DEF g
  <2>10. Fits(g)
    BY <2>6, <2>8, <2>9 DEF Fits
  <2> QED BY <2>6, <2>10 DEF g
<1>3. CASE GrantStatus(s, i) # "ALLOWED"
  BY <1>3 DEF Evaluation, Decided, GrantStatus
<1> QED BY <1>2, <1>3

\* A step that ends a call, or begins one with sound work, keeps the others'.
LEMMA SoundStays ==
  ASSUME DecidedIsSound, TypeOK, grants \subseteq grants', NEW x \in Txn,
         \A y \in Txn : y # x => txn'[y] = txn[y],
         \/ txn'[x] = Nil
         \/ txn'[x].kind = "state"
         \/ txn'[x].kind = "grant" /\ (txn'[x].new.status = "ALLOWED" => Fits(txn'[x].new))
         \/ txn'[x].kind = "booking" /\
              (txn'[x].new.status = "AUTHORIZED" =>
                 \E g \in grants : g.request.grant = txn'[x].new.construction.grant
                                   /\ txn'[x].new.construction.capital <= g.capital)
  PROVE  DecidedIsSound'
<1> SUFFICES ASSUME NEW y \in Txn
             PROVE  /\ (Doing(y, "grant") /\ txn[y].new.status = "ALLOWED"
                          => Fits(txn[y].new))'
                    /\ (Doing(y, "booking") /\ txn[y].new.status = "AUTHORIZED"
                          => Covered(txn[y].new))'
  BY DEF DecidedIsSound
<1>1. CASE y = x
  BY <1>1 DEF Doing, Covered, Fits
<1>2. CASE y # x
  BY <1>2 DEF DecidedIsSound, Doing, Covered, Fits
<1> QED BY <1>1, <1>2

\* The revisions and the current row move together.
LEMMA StateStep ==
  ASSUME CapitalConstants, CapitalInv, NEW x \in Txn, RecordState(x)
  PROVE  CapitalInv'
<1>1. /\ TypeOK /\ CurrentIsNewest /\ DecidedIsSound
      /\ GrantIffAllowed /\ GrantFits
      /\ BookedTogether /\ GrantSpentOnce
  BY DEF CapitalInv, CapitalHolds
<1>2. txn[x].new \in Snapshot
  BY <1>1, WorkKinds DEF RecordState
<1>3. txn' = [txn EXCEPT ![x] = Nil] /\ UNCHANGED <<decisions, grants, bookings, auths, pins>>
  BY DEF RecordState, End, grantVars, bookingVars
<1>4. revisions' \subseteq Snapshot /\ current' \in Snapshot \cup {Nil} /\ CurrentIsNewest'
  <2>1. CASE UNCHANGED <<revisions, current>>
    BY <2>1, <1>1 DEF TypeOK, CurrentIsNewest
  <2>2. CASE revisions' = revisions \cup {txn[x].new} /\ current' = Upsert(txn[x].new)
    <3>1. txn[x].new.rev \in Nat /\ \A r \in revisions : r.rev \in Nat
      BY <1>1, <1>2 DEF CapitalConstants, TypeOK
    <3>2. txn[x].new # Nil /\ (current # Nil => current.rev \in Nat)
      BY <1>1, <1>2 DEF CapitalConstants, TypeOK
    <3> QED BY <1>1, <1>2, <2>2, <3>1, <3>2 DEF TypeOK, CurrentIsNewest, Upsert
  <2> QED BY <2>1, <2>2 DEF RecordState, stateVars
<1>5. txn' \in [Txn -> Work \cup {Nil}]
  BY <1>1, <1>3 DEF TypeOK
<1>6. DecidedIsSound'
  BY <1>1, <1>3, SoundStays DEF TypeOK
<1>7. TypeOK'
  BY <1>1, <1>3, <1>4, <1>5 DEF TypeOK
<1>8. /\ GrantIffAllowed' /\ GrantFits' /\ BookedTogether' /\ GrantSpentOnce'
  BY <1>1, <1>3 DEF GrantIffAllowed, GrantFits, Fits,
       BookedTogether, GrantSpentOnce, Covered
<1> QED BY <1>4, <1>6, <1>7, <1>8 DEF CapitalInv, CapitalHolds

\* A decision and its grant are written together or not at all.
LEMMA GrantStep ==
  ASSUME CapitalConstants, CapitalInv, NEW x \in Txn, RecordGrant(x)
  PROVE  CapitalInv'
<1>1. /\ TypeOK /\ CurrentIsNewest /\ DecidedIsSound
      /\ GrantIffAllowed /\ GrantFits
      /\ BookedTogether /\ GrantSpentOnce
  BY DEF CapitalInv, CapitalHolds
<1>2. txn[x].new \in Decided /\ Doing(x, "grant")
  BY <1>1, WorkKinds DEF RecordGrant
<1>3. txn' = [txn EXCEPT ![x] = Nil] /\ UNCHANGED <<revisions, current, bookings, auths, pins>>
  BY DEF RecordGrant, End, stateVars, bookingVars
<1>4. \/ UNCHANGED <<decisions, grants>>
      \/ /\ txn[x].new.status # "ALLOWED"
         /\ decisions' = decisions \cup {txn[x].new} /\ grants' = grants
      \/ /\ txn[x].new.status = "ALLOWED" /\ Issuable(txn[x].new)
         /\ decisions' = decisions \cup {txn[x].new} /\ grants' = grants \cup {txn[x].new}
  BY DEF RecordGrant, Issue, grantVars
<1>5. txn[x].new.status = "ALLOWED" => Fits(txn[x].new)
  BY <1>1, <1>2 DEF DecidedIsSound
<1>6. grants \subseteq grants'
  BY <1>4
<1>7. DecidedIsSound'
  BY <1>1, <1>3, <1>6, SoundStays DEF TypeOK
<1>8. TypeOK'
  BY <1>1, <1>2, <1>3, <1>4 DEF TypeOK
<1>9. GrantIffAllowed'
  BY <1>1, <1>4 DEF GrantIffAllowed, Issuable
<1>10. GrantFits'
  BY <1>1, <1>4, <1>5 DEF GrantFits, Fits
<1>11. CurrentIsNewest' /\ BookedTogether' /\ GrantSpentOnce'
  BY <1>1, <1>3, <1>6 DEF CurrentIsNewest, BookedTogether, GrantSpentOnce,
       Covered
<1> QED BY <1>7, <1>8, <1>9, <1>10, <1>11 DEF CapitalInv, CapitalHolds

\* A booking, its authorization and its pin are written together or not at all.
LEMMA BookingStep ==
  ASSUME CapitalConstants, CapitalInv, NEW x \in Txn, RecordBooking(x)
  PROVE  CapitalInv'
<1>1. /\ TypeOK /\ CurrentIsNewest /\ DecidedIsSound
      /\ GrantIffAllowed /\ GrantFits
      /\ BookedTogether /\ GrantSpentOnce
  BY DEF CapitalInv, CapitalHolds
<1>2. txn[x].new \in Booked /\ Doing(x, "booking")
  BY <1>1, WorkKinds DEF RecordBooking
<1>3. txn' = [txn EXCEPT ![x] = Nil] /\ UNCHANGED <<revisions, current, decisions, grants>>
  BY DEF RecordBooking, End, stateVars, grantVars
<1>4. \/ UNCHANGED <<bookings, auths, pins>>
      \/ /\ txn[x].new.status # "AUTHORIZED"
         /\ bookings' = bookings \cup {txn[x].new} /\ auths' = auths /\ pins' = pins
      \/ /\ txn[x].new.status = "AUTHORIZED" /\ Authorizable(txn[x].new)
         /\ bookings' = bookings \cup {txn[x].new} /\ auths' = auths \cup {txn[x].new}
         /\ pins' = pins \cup {txn[x].new.auth}
  BY DEF RecordBooking, Book, bookingVars
<1>5. txn[x].new.status = "AUTHORIZED" => Covered(txn[x].new)
  BY <1>1, <1>2 DEF DecidedIsSound
<1>6. DecidedIsSound'
  BY <1>1, <1>3, SoundStays DEF TypeOK
<1>7. TypeOK'
  <2>1. txn[x].new.auth \in Auth
    BY <1>2 DEF Booked
  <2> QED BY <1>1, <1>2, <1>3, <1>4, <2>1 DEF TypeOK
<1>8. BookedTogether'
  BY <1>1, <1>4 DEF BookedTogether
<1>9. GrantSpentOnce'
  BY <1>1, <1>3, <1>4, <1>5 DEF GrantSpentOnce, Authorizable, Covered
<1>10. CurrentIsNewest' /\ GrantIffAllowed' /\ GrantFits'
  BY <1>1, <1>3 DEF CurrentIsNewest, GrantIffAllowed, GrantFits, Fits
<1> QED BY <1>6, <1>7, <1>8, <1>9, <1>10 DEF CapitalInv, CapitalHolds

\* A step that changes no row keeps what is said about the rows.
LEMMA RowsStay ==
  ASSUME CapitalHolds,
         UNCHANGED <<revisions, current, decisions, grants, bookings, auths, pins>>
  PROVE  CapitalHolds'
BY DEF CapitalHolds, CurrentIsNewest, GrantIffAllowed, GrantFits,
     Fits, BookedTogether, GrantSpentOnce, Covered

\* The inductive invariant of the capital ledgers: the type invariant, what
\* they promise, and that every decision a call still carries is sound.
THEOREM CapitalInvariant == Spec => []CapitalInv
<1> USE CapitalAssumption
<1>1. Init => CapitalInv
  BY DEF Init, CapitalInv, TypeOK, CapitalHolds,
       CurrentIsNewest, GrantIffAllowed, GrantFits, BookedTogether,
       GrantSpentOnce, DecidedIsSound, Doing
<1>2. ASSUME CapitalInv, [Next]_vars PROVE CapitalInv'
  <2>1. TypeOK /\ CapitalHolds /\ DecidedIsSound
    BY <1>2 DEF CapitalInv
  <2>2. ASSUME NEW x \in Txn, NEW u, u \in Work \cup {Nil},
               txn' = [txn EXCEPT ![x] = u],
               UNCHANGED <<revisions, current, decisions, grants, bookings, auths, pins>>,
               \/ u = Nil
               \/ u.kind = "state"
               \/ u.kind = "grant" /\ (u.new.status = "ALLOWED" => Fits(u.new))
               \/ u.kind = "booking" /\
                    (u.new.status = "AUTHORIZED" =>
                       \E g \in grants : g.request.grant = u.new.construction.grant
                                         /\ u.new.construction.capital <= g.capital)
        PROVE  CapitalInv'
    <3>1. txn'[x] = u /\ \A y \in Txn : y # x => txn'[y] = txn[y]
      BY <2>1, <2>2 DEF TypeOK
    <3>2. DecidedIsSound'
      BY <2>1, <2>2, <3>1, SoundStays
    <3>3. TypeOK'
      BY <2>1, <2>2 DEF TypeOK
    <3> QED BY <2>1, <2>2, <3>2, <3>3, RowsStay DEF CapitalInv
  <2>3. ASSUME NEW x \in Txn, NEW s \in Snapshot, SelectCurrent(x, s)
        PROVE  CapitalInv'
    <3> DEFINE u == [kind |-> "state", new |-> s, locks |-> current # Nil]
    <3>1. u \in Work /\ u.kind = "state"
      BY DEF Work
    <3>2. txn' = [txn EXCEPT ![x] = u]
          /\ UNCHANGED <<revisions, current, decisions, grants, bookings, auths, pins>>
      BY <2>3 DEF SelectCurrent, Begin, stateVars, grantVars,
           bookingVars
    <3> HIDE DEF u
    <3> QED BY <2>2, <3>1, <3>2
  <2>4. ASSUME NEW x \in Txn, NEW q \in Request, NEW i \in Input, EvaluateGrant(x, q, i)
        PROVE  CapitalInv'
    <3> DEFINE e == Evaluation(q, current, i)
               u == [kind |-> "grant", new |-> e]
    <3>1. current \in Snapshot
      BY <2>1, <2>4 DEF TypeOK, EvaluateGrant
    <3>2. e \in Decided /\ (e.status = "ALLOWED" => Fits(e))
      BY <3>1, AllowedFits
    <3>3. txn' = [txn EXCEPT ![x] = u]
          /\ UNCHANGED <<revisions, current, decisions, grants, bookings, auths, pins>>
      BY <2>4 DEF EvaluateGrant, Begin, stateVars, grantVars,
           bookingVars
    <3> HIDE DEF e
    <3>4. u \in Work /\ u.kind = "grant" /\ u.new = e
      BY <3>2 DEF Work
    <3> HIDE DEF u
    <3>5. u.new.status = "ALLOWED" => Fits(u.new)
      BY <3>2, <3>4
    <3> QED BY <2>2, <3>3, <3>4, <3>5
  <2>5. ASSUME NEW x \in Txn, NEW c \in Construction, NEW a \in Auth, NEW i \in Input,
               EvaluateBooking(x, c, a, i)
        PROVE  CapitalInv'
    <3> DEFINE b == [construction |-> c, auth |-> a, on |-> current,
                     status |-> BookingStatus(current, c, i)]
               u == [kind |-> "booking", new |-> b]
    <3>1. current \in Snapshot
      BY <2>1, <2>5 DEF TypeOK, EvaluateBooking
    <3>2. b \in Booked
      BY <3>1 DEF Booked, BookingStatus
    <3>3. b.status = "AUTHORIZED" =>
            \E g \in grants : g.request.grant = b.construction.grant
                              /\ b.construction.capital <= g.capital
      BY <2>5 DEF EvaluateBooking, HoldFits
    <3>4. txn' = [txn EXCEPT ![x] = u]
          /\ UNCHANGED <<revisions, current, decisions, grants, bookings, auths, pins>>
      BY <2>5 DEF EvaluateBooking, Begin, stateVars, grantVars,
           bookingVars
    <3> HIDE DEF b
    <3>5. u \in Work /\ u.kind = "booking" /\ u.new = b
      BY <3>2 DEF Work
    <3> HIDE DEF u
    <3> QED BY <2>2, <3>3, <3>4, <3>5
  <2>6. ASSUME NEW x \in Txn, Rollback(x) PROVE CapitalInv'
    <3>1. txn' = [txn EXCEPT ![x] = Nil]
          /\ UNCHANGED <<revisions, current, decisions, grants, bookings, auths, pins>>
      BY <2>6 DEF Rollback, End, stateVars, grantVars,
           bookingVars
    <3> QED BY <2>2, <3>1
  <2>7. ASSUME UNCHANGED vars PROVE CapitalInv'
    <3>1. UNCHANGED <<revisions, current, decisions, grants, bookings, auths, pins>> /\ txn' = txn
      BY <2>7 DEF vars, stateVars, grantVars, bookingVars
    <3>2. DecidedIsSound'
      BY <2>1, <3>1 DEF DecidedIsSound, Doing, Fits, Covered
    <3> QED BY <2>1, <3>1, <3>2, RowsStay DEF CapitalInv, TypeOK
  <2> QED BY <1>2, <2>3, <2>4, <2>5, <2>6, <2>7, StateStep, GrantStep, BookingStep DEF Next
<1> QED BY <1>1, <1>2, PTL DEF Spec

\* The capital ledgers keep what they promise, for any policy, any states,
\* decisions and constructions, and any number of connections: the current
\* state is the newest, a decision has a grant exactly when it was allowed, a
\* grant fits the caps, and it is spent once and on no more than it granted.
THEOREM CapitalIsKept == Spec => []CapitalHolds
<1> USE CapitalAssumption
<1>1. CapitalInv => CapitalHolds
  BY DEF CapitalInv
<1> QED BY <1>1, CapitalInvariant, PTL

-----------------------------------------------------------------------------
(***************************************************************************)
(* Cooldown                                                                *)
(***************************************************************************)
\* What an order event says.
LEMMA OrderEvents ==
  ASSUME Cooldown!CooldownConstants, NEW e \in OrderEvent
  PROVE  /\ e.attempt \in Attempt /\ e.rev \in Nat /\ e.resolved \in BOOLEAN
         /\ e.at \in Nat \cup {Nil} /\ (e.status = "PROVEN" => e.at \in Nat)
BY DEF Cooldown!CooldownConstants

\* apply_order_event_to_cooldown_pin returns a pin of the same duration.
LEMMA NewPinIsPin ==
  ASSUME Cooldown!CooldownConstants, NEW p \in Cooldown!PinRow, NEW e \in OrderEvent
  PROVE  /\ Cooldown!NewPin(p, e) \in Cooldown!PinRow
         /\ Cooldown!NewPin(p, e).duration = p.duration
<1>1. /\ p.duration \in Nat /\ p.accepted \in Nat \cup {Nil} /\ p.until \in Nat \cup {Nil}
      /\ p.last \in OrderEvent \cup {Nil}
      /\ p.state \in {"PENDING_ACCEPTANCE", "ACTIVE", "CLEARED", "UNRESOLVED_ACCEPTANCE_TIME",
                      "UNRESOLVED_CONFLICT"}
  BY DEF Cooldown!PinRow
<1>2. e.rev \in Nat /\ e.at \in Nat \cup {Nil} /\ (e.status = "PROVEN" => e.at + p.duration \in Nat)
  BY <1>1, OrderEvents
<1>3. ASSUME NEW st \in {"PENDING_ACCEPTANCE", "ACTIVE", "CLEARED", "UNRESOLVED_ACCEPTANCE_TIME",
                         "UNRESOLVED_CONFLICT"},
             NEW ac \in Nat \cup {Nil}, NEW un \in Nat \cup {Nil}
      PROVE  /\ Cooldown!Seen(p, e, st, ac, un) \in Cooldown!PinRow
             /\ Cooldown!Seen(p, e, st, ac, un).duration = p.duration
  BY <1>2 DEF Cooldown!Seen, Cooldown!PinRow
<1> HIDE DEF Cooldown!Seen
<1>4. CASE e.status = "PROVEN"
  BY <1>1, <1>2, <1>3, <1>4 DEF Cooldown!NewPin
<1>5. CASE e.status # "PROVEN"
  BY <1>1, <1>2, <1>3, <1>5 DEF Cooldown!NewPin
<1> QED BY <1>4, <1>5

\* The state, the end, the duration and the event of a pin that was seen.
LEMMA SeenFields ==
  ASSUME NEW p \in Cooldown!PinRow, NEW e, NEW st, NEW ac, NEW un
  PROVE  /\ Cooldown!Seen(p, e, st, ac, un).state = st
         /\ Cooldown!Seen(p, e, st, ac, un).until = un
         /\ Cooldown!Seen(p, e, st, ac, un).last = e
BY DEF Cooldown!Seen, Cooldown!PinRow

\* What an event not older than the pin makes of it.
LEMMA NewPinTells ==
  ASSUME Cooldown!CooldownConstants, NEW p \in Cooldown!PinRow, NEW e \in OrderEvent,
         Cooldown!Writable(p, e.rev)
  PROVE  /\ Cooldown!NewPin(p, e).last = e
         /\ p.state = "UNRESOLVED_CONFLICT" /\ ~e.resolved
              => Cooldown!NewPin(p, e).state = "UNRESOLVED_CONFLICT"
         /\ e.status = "CONFLICT" => Cooldown!NewPin(p, e).state = "UNRESOLVED_CONFLICT"
         /\ Cooldown!Accepted(e)
              => \/ Cooldown!NewPin(p, e).state = "UNRESOLVED_CONFLICT"
                 \/ /\ Cooldown!NewPin(p, e).state = "ACTIVE"
                    /\ Cooldown!NewPin(p, e).until = e.at + p.duration
         /\ Cooldown!Unproven(e) => Cooldown!NewPin(p, e).state \in Cooldown!Unresolved
         /\ e.status # "PROVEN" /\ e.state # "CANCELLED_ZERO_FILL"
              => \/ Cooldown!NewPin(p, e).state \in Cooldown!Unresolved
                 \/ /\ Cooldown!NewPin(p, e).state = p.state
                    /\ Cooldown!NewPin(p, e).until = p.until
<1>1. ~(p.last # Nil /\ e.rev < p.last.rev)
  <2>1. CASE p.last = Nil
    BY <2>1
  <2>2. CASE p.last # Nil
    <3>1. p.last \in OrderEvent
      BY <2>2 DEF Cooldown!PinRow
    <3>2. p.last.rev \in Nat /\ e.rev \in Nat
      BY <3>1, OrderEvents
    <3> QED BY <2>2, <3>2 DEF Cooldown!Writable
  <2> QED BY <2>1, <2>2
<1> USE DEF Cooldown!Accepted, Cooldown!Unproven, Cooldown!Unresolved
<1> HIDE DEF Cooldown!Seen
<1>2. CASE p.state = "UNRESOLVED_CONFLICT" /\ ~e.resolved
  BY <1>1, <1>2, SeenFields DEF Cooldown!NewPin
<1>3. CASE ~(p.state = "UNRESOLVED_CONFLICT" /\ ~e.resolved)
  <2>1. CASE e.status = "CONFLICT"
    BY <1>1, <1>3, <2>1, SeenFields DEF Cooldown!NewPin
  <2>2. CASE e.status # "CONFLICT" /\ e.state # "CANCELLED_ZERO_FILL" /\ e.status = "PROVEN"
    BY <1>1, <1>3, <2>2, SeenFields DEF Cooldown!NewPin
  <2>3. CASE e.status # "CONFLICT" /\ e.state # "CANCELLED_ZERO_FILL" /\ e.status # "PROVEN"
    BY <1>1, <1>3, <2>3, SeenFields DEF Cooldown!NewPin
  <2>4. CASE e.status # "CONFLICT" /\ e.state = "CANCELLED_ZERO_FILL"
    <3>1. e.state \notin Cooldown!LiveStates
      BY <2>4 DEF Cooldown!LiveStates
    <3> QED BY <1>1, <1>3, <2>4, <3>1, SeenFields DEF Cooldown!NewPin
  <2> QED BY <2>1, <2>2, <2>3, <2>4
<1> QED BY <1>2, <1>3

\* Whatever pin the applier has read, the pin it writes is of the newest
\* event applied; and when it is the pin as it was, it tells all of them.
LEMMA PinIsWritten ==
  ASSUME Cooldown!CooldownConstants, Cooldown!CooldownInv, NEW x \in Applier, job[x] # Nil,
         Cooldown!Writable(pin[job[x].event.attempt], job[x].event.rev),
         pin' = [pin EXCEPT ![job[x].event.attempt]
                              = Cooldown!NewPin(job[x].read, job[x].event)],
         applied' = applied \cup {job[x].event}, booked' = booked,
         raced' = IF pin[job[x].event.attempt] = job[x].read THEN raced
                  ELSE raced \cup {job[x].event.attempt}
  PROVE  /\ Cooldown!PinSaysLatest' /\ Cooldown!PinTells'
         /\ pin' \in [Attempt -> Cooldown!PinRow \cup {Nil}]
         /\ applied' \subseteq OrderEvent /\ raced' \subseteq Attempt
         /\ \A b \in Attempt : pin[b] # Nil => pin'[b] # Nil /\ pin'[b].duration = pin[b].duration
<1> DEFINE e == job[x].event
           a == e.attempt
           p == pin[a]
           q == job[x].read
           n == Cooldown!NewPin(q, e)
<1>1. Cooldown!TypeOK /\ Cooldown!PinSaysLatest /\ Cooldown!PinTells /\ Cooldown!JobIsRead
  BY DEF Cooldown!CooldownInv
<1>2. e \in OrderEvent /\ q \in Cooldown!PinRow /\ a \in Attempt /\ e.rev \in Nat
  <2>1. job[x] \in Cooldown!JobRow
    BY <1>1 DEF Cooldown!TypeOK
  <2>2. e \in OrderEvent /\ q \in Cooldown!PinRow
    BY <2>1 DEF Cooldown!JobRow
  <2> HIDE DEF e, q
  <2> QED BY <2>2, OrderEvents
<1>3. p # Nil /\ q.duration = p.duration /\ Cooldown!Writable(q, e.rev)
  BY <1>1 DEF Cooldown!JobIsRead
<1>4. p \in Cooldown!PinRow
  BY <1>1, <1>2, <1>3 DEF Cooldown!TypeOK
<1>5. /\ Cooldown!Writable(p, e.rev) /\ pin' = [pin EXCEPT ![a] = n] /\ applied' = applied \cup {e}
      /\ raced' = IF p = q THEN raced ELSE raced \cup {a}
  OBVIOUS
<1>6. n \in Cooldown!PinRow /\ n.duration = p.duration /\ n # Nil
  BY <1>2, <1>3, NewPinIsPin DEF Cooldown!CooldownConstants
<1>7. /\ n.last = e
      /\ q.state = "UNRESOLVED_CONFLICT" /\ ~e.resolved => n.state = "UNRESOLVED_CONFLICT"
      /\ e.status = "CONFLICT" => n.state = "UNRESOLVED_CONFLICT"
      /\ Cooldown!Accepted(e)
           => \/ n.state = "UNRESOLVED_CONFLICT"
              \/ n.state = "ACTIVE" /\ n.until = e.at + p.duration
      /\ Cooldown!Unproven(e) => n.state \in Cooldown!Unresolved
      /\ e.status # "PROVEN" /\ e.state # "CANCELLED_ZERO_FILL"
           => \/ n.state \in Cooldown!Unresolved
              \/ n.state = q.state /\ n.until = q.until
  BY <1>2, <1>3, NewPinTells
<1> HIDE DEF e, a, p, q, n
<1>8. pin'[a] = n /\ \A b \in Attempt : b # a => pin'[b] = pin[b]
  BY <1>1, <1>2, <1>5 DEF Cooldown!TypeOK
<1>9. applied \subseteq OrderEvent /\ raced \subseteq Attempt
  BY <1>1 DEF Cooldown!TypeOK
<1>10. /\ pin' \in [Attempt -> Cooldown!PinRow \cup {Nil}]
       /\ applied' \subseteq OrderEvent /\ raced' \subseteq Attempt
  BY <1>1, <1>2, <1>5, <1>6, <1>9 DEF Cooldown!TypeOK
<1>11. \A b \in Attempt : pin[b] # Nil => pin'[b] # Nil /\ pin'[b].duration = pin[b].duration
  BY <1>6, <1>8 DEF p
<1>12. \A f \in applied : f.attempt = a => f.rev <= e.rev
  <2> SUFFICES ASSUME NEW f \in applied, f.attempt = a PROVE f.rev <= e.rev
    OBVIOUS
  <2>1. f \in Cooldown!AppliedTo(a)
    BY DEF Cooldown!AppliedTo
  <2>2. p.last \in Cooldown!Latest(a)
    BY <1>1, <1>2, <2>1 DEF Cooldown!PinSaysLatest, p
  <2>3. p.last \in OrderEvent /\ f.rev <= p.last.rev
    BY <1>9, <2>1, <2>2 DEF Cooldown!Latest, Cooldown!AppliedTo
  <2>4. p.last # Nil /\ p.last.rev \in Nat /\ f.rev \in Nat
    BY <1>9, <2>3, OrderEvents DEF Cooldown!CooldownConstants
  <2>5. p.last.rev <= e.rev
    BY <1>5, <2>4 DEF Cooldown!Writable
  <2> QED BY <1>2, <2>3, <2>4, <2>5
<1>13. Cooldown!PinSaysLatest'
  <2> SUFFICES ASSUME NEW b \in Attempt
               PROVE  /\ pin'[b] # Nil => booked[b] = pin'[b].duration
                      /\ (\E f \in applied' : f.attempt = b) =>
                           /\ pin'[b] # Nil
                           /\ pin'[b].last \in applied' /\ pin'[b].last.attempt = b
                           /\ \A f \in applied' : f.attempt = b => f.rev <= pin'[b].last.rev
                           /\ Cooldown!Says(pin'[b], pin'[b].last)
    BY DEF Cooldown!PinSaysLatest, Cooldown!Latest, Cooldown!AppliedTo
  <2>1. /\ pin[b] # Nil => booked[b] = pin[b].duration
        /\ (\E f \in applied : f.attempt = b) =>
             /\ pin[b] # Nil
             /\ pin[b].last \in applied /\ pin[b].last.attempt = b
             /\ \A f \in applied : f.attempt = b => f.rev <= pin[b].last.rev
             /\ Cooldown!Says(pin[b], pin[b].last)
    BY <1>1 DEF Cooldown!PinSaysLatest, Cooldown!Latest, Cooldown!AppliedTo
  <2>2. CASE b # a
    <3>1. pin'[b] = pin[b] /\ \A f \in applied' : f.attempt = b => f \in applied
      BY <1>5, <1>8, <2>2 DEF a
    <3>2. applied \subseteq applied'
      BY <1>5
    <3> QED BY <2>1, <3>1, <3>2
  <2>3. CASE b = a
    <3>1. pin'[b] = n /\ booked[b] = n.duration /\ n # Nil /\ n.last = e /\ e.attempt = b /\ e \in applied'
      BY <1>3, <1>5, <1>6, <1>7, <1>8, <2>1, <2>3 DEF a, p
    <3>2. \A f \in applied' : f.attempt = b => f.rev <= e.rev
      BY <1>2, <1>5, <1>12, <2>3
    <3>3. Cooldown!Says(n, e)
      BY <1>6, <1>7 DEF Cooldown!Says
    <3> QED BY <3>1, <3>2, <3>3
  <2> QED BY <2>2, <2>3
<1>14. Cooldown!PinTells'
  <2> SUFFICES ASSUME NEW b \in Attempt, b \notin raced'
               PROVE  /\ (\E f \in applied' : f.attempt = b /\ f.status = "CONFLICT")
                           /\ (\A f \in applied' : f.attempt = b => ~f.resolved)
                         => pin'[b].state = "UNRESOLVED_CONFLICT"
                      /\ \A f \in applied' : f.attempt = b =>
                          (f.status = "PROVEN"
                             /\ (\A g \in applied' : g.attempt = b => g.state # "CANCELLED_ZERO_FILL")
                           => \/ pin'[b].state \in Cooldown!Unresolved
                              \/ pin'[b].state = "ACTIVE" /\ pin'[b].until = f.at + pin'[b].duration)
    BY DEF Cooldown!PinTells, Cooldown!Disputed, Cooldown!Ended, Cooldown!AppliedTo
  <2>1. /\ (\E f \in applied : f.attempt = b /\ f.status = "CONFLICT")
             /\ (\A f \in applied : f.attempt = b => ~f.resolved)
           => pin[b].state = "UNRESOLVED_CONFLICT"
        /\ \A f \in applied : f.attempt = b =>
            (f.status = "PROVEN"
               /\ (\A g \in applied : g.attempt = b => g.state # "CANCELLED_ZERO_FILL")
             => \/ pin[b].state \in Cooldown!Unresolved
                \/ pin[b].state = "ACTIVE" /\ pin[b].until = f.at + pin[b].duration)
    <3>1. b \notin raced
      BY <1>5
    <3> QED BY <1>1, <3>1 DEF Cooldown!PinTells, Cooldown!Disputed, Cooldown!Ended, Cooldown!AppliedTo
  <2>2. CASE b # a
    <3>1. pin'[b] = pin[b] /\ \A f \in applied' : f.attempt = b => f \in applied
      BY <1>5, <1>8, <2>2 DEF a
    <3>2. applied \subseteq applied'
      BY <1>5
    <3> QED BY <2>1, <3>1, <3>2
  <2>3. CASE b = a
    <3>1. pin'[b] = n /\ pin[b] = q /\ p = q /\ e.attempt = b
      BY <1>5, <1>8, <2>3 DEF a, p
    <3>2. (\E f \in applied' : f.attempt = b /\ f.status = "CONFLICT")
            /\ (\A f \in applied' : f.attempt = b => ~f.resolved)
          => n.state = "UNRESOLVED_CONFLICT"
      BY <1>5, <1>7, <2>1, <3>1
    <3>3. ASSUME NEW f \in applied', f.attempt = b, f.status = "PROVEN",
                 \A g \in applied' : g.attempt = b => g.state # "CANCELLED_ZERO_FILL"
          PROVE  \/ n.state \in Cooldown!Unresolved
                 \/ n.state = "ACTIVE" /\ n.until = f.at + p.duration
      <4>1. e.state # "CANCELLED_ZERO_FILL"
        BY <1>5, <3>1, <3>3
      <4>2. CASE e.status = "PROVEN"
        <5>1. f \in OrderEvent
          BY <1>10
        <5>2. f.at = e.at
          BY <1>2, <3>1, <3>3, <4>2, <5>1 DEF Cooldown!CooldownConstants, Cooldown!OneAcceptance
        <5> QED BY <1>7, <4>1, <4>2, <5>2 DEF Cooldown!Accepted, Cooldown!Unresolved
      <4>3. CASE e.status # "PROVEN"
        <5>1. f \in applied
          BY <1>5, <3>3, <4>3
        <5>2. \/ q.state \in Cooldown!Unresolved
              \/ q.state = "ACTIVE" /\ q.until = f.at + q.duration
          BY <1>5, <2>1, <3>1, <3>3, <5>1
        <5> QED BY <1>7, <3>1, <4>1, <4>3, <5>2
      <4> QED BY <4>2, <4>3
    <3> QED BY <1>6, <3>1, <3>2, <3>3
  <2> QED BY <2>2, <2>3
<1> QED BY <1>10, <1>11, <1>13, <1>14

\* The inductive invariant of the pins, for appliers that interleave at will:
\* a pin is of the newest event applied, and tells all that was applied to an
\* attempt that was not raced.
THEOREM CooldownInvariant == Cooldown!Spec => []Cooldown!CooldownInv
<1> USE CooldownAssumption
<1>1. Cooldown!Init => Cooldown!CooldownInv
  BY DEF Cooldown!Init, Cooldown!CooldownInv, Cooldown!TypeOK, Cooldown!PinSaysLatest, Cooldown!PinTells,
       Cooldown!AppliedTo, Cooldown!Disputed, Cooldown!Ended, Cooldown!JobIsRead
<1>2. ASSUME Cooldown!CooldownInv, [Cooldown!Next]_Cooldown!vars
      PROVE  Cooldown!CooldownInv'
  <2>1. Cooldown!TypeOK /\ Cooldown!PinSaysLatest /\ Cooldown!PinTells /\ Cooldown!JobIsRead
    BY <1>2 DEF Cooldown!CooldownInv
  <2>2. ASSUME UNCHANGED <<pin, booked, applied, raced>>
        PROVE  Cooldown!PinSaysLatest' /\ Cooldown!PinTells'
    BY <2>1, <2>2 DEF Cooldown!PinSaysLatest, Cooldown!PinTells, Cooldown!Latest, Cooldown!AppliedTo,
         Cooldown!Disputed, Cooldown!Ended
  <2>3. ASSUME UNCHANGED <<pin, job>> PROVE Cooldown!JobIsRead'
    BY <2>1, <2>3 DEF Cooldown!JobIsRead
  <2>4. CASE Cooldown!Tick
    BY <2>1, <2>2, <2>3, <2>4 DEF Cooldown!Tick, Cooldown!CooldownInv, Cooldown!TypeOK
  <2>5. ASSUME NEW d \in Duration, Cooldown!EditConfiguration(d) PROVE Cooldown!CooldownInv'
    BY <2>1, <2>2, <2>3, <2>5 DEF Cooldown!EditConfiguration, Cooldown!CooldownInv, Cooldown!TypeOK
  <2>6. ASSUME NEW a \in Attempt, Cooldown!CreatePin(a) PROVE Cooldown!CooldownInv'
    <3> DEFINE n == Cooldown!Pinned(config)
    <3>1. config \in Nat /\ n \in Cooldown!PinRow /\ n.duration = config
      BY <2>1 DEF Cooldown!TypeOK, Cooldown!CooldownConstants, Cooldown!Pinned, Cooldown!PinRow
    <3>2. /\ pin[a] = Nil /\ pin' = [pin EXCEPT ![a] = n] /\ booked' = [booked EXCEPT ![a] = config]
          /\ UNCHANGED <<config, applied, raced, job, now>>
      BY <2>6 DEF Cooldown!CreatePin
    <3> HIDE DEF n
    <3>3. /\ pin' \in [Attempt -> Cooldown!PinRow \cup {Nil}]
          /\ booked' \in [Attempt -> Nat \cup {Nil}]
          /\ pin'[a] = n /\ booked'[a] = config
          /\ \A b \in Attempt : b # a => pin'[b] = pin[b] /\ booked'[b] = booked[b]
      BY <2>1, <3>1, <3>2 DEF Cooldown!TypeOK
    <3>4. Cooldown!TypeOK'
      BY <2>1, <3>2, <3>3 DEF Cooldown!TypeOK
    <3>5. \A f \in applied : f.attempt # a
      BY <2>1, <3>2 DEF Cooldown!PinSaysLatest, Cooldown!AppliedTo
    <3>6. Cooldown!PinSaysLatest'
      BY <2>1, <3>1, <3>2, <3>3, <3>5 DEF Cooldown!PinSaysLatest, Cooldown!Latest, Cooldown!AppliedTo
    <3>7. Cooldown!PinTells'
      BY <2>1, <3>2, <3>3, <3>5 DEF Cooldown!PinTells, Cooldown!Disputed, Cooldown!Ended,
           Cooldown!AppliedTo
    <3>8. Cooldown!JobIsRead'
      <4> SUFFICES ASSUME NEW x \in Applier, job[x] # Nil
                   PROVE  pin'[job[x].event.attempt] = pin[job[x].event.attempt]
        BY <2>1, <3>2 DEF Cooldown!JobIsRead
      <4>1. job[x].event \in OrderEvent
        BY <2>1 DEF Cooldown!TypeOK, Cooldown!JobRow
      <4>2. job[x].event.attempt \in Attempt /\ job[x].event.attempt # a
        BY <2>1, <3>2, <4>1, OrderEvents DEF Cooldown!JobIsRead
      <4> QED BY <3>3, <4>2
    <3> QED BY <3>4, <3>6, <3>7, <3>8 DEF Cooldown!CooldownInv
  <2>7. ASSUME NEW x \in Applier, NEW e \in OrderEvent, Cooldown!ReadPin(x, e)
        PROVE  Cooldown!CooldownInv'
    <3> DEFINE p == pin[e.attempt]
               u == [event |-> e, read |-> p]
    <3>1. /\ p # Nil /\ Cooldown!NewPin(p, e) # p /\ job' = [job EXCEPT ![x] = u]
          /\ UNCHANGED <<config, pin, booked, applied, raced, now>>
      BY <2>7 DEF Cooldown!ReadPin
    <3>2. p \in Cooldown!PinRow /\ e.rev \in Nat
      BY <2>1, <3>1, OrderEvents DEF Cooldown!TypeOK
    <3>3. Cooldown!Writable(p, e.rev)
      <4>1. ~(p.last # Nil /\ e.rev < p.last.rev)
        BY <3>1 DEF Cooldown!NewPin
      <4>2. p.last # Nil => p.last.rev \in Nat
        <5>1. p.last # Nil => p.last \in OrderEvent
          BY <3>2 DEF Cooldown!PinRow
        <5> QED BY <5>1, OrderEvents
      <4> QED BY <3>2, <4>1, <4>2 DEF Cooldown!Writable
    <3>4. u \in Cooldown!JobRow /\ u.event = e /\ u.read = p
      BY <3>2 DEF Cooldown!JobRow
    <3> HIDE DEF u
    <3>5. /\ job' \in [Applier -> Cooldown!JobRow \cup {Nil}]
          /\ job'[x] = u /\ \A y \in Applier : y # x => job'[y] = job[y]
      BY <2>1, <3>1, <3>4 DEF Cooldown!TypeOK
    <3>6. Cooldown!TypeOK'
      BY <2>1, <3>1, <3>5 DEF Cooldown!TypeOK
    <3>7. Cooldown!JobIsRead'
      BY <2>1, <3>1, <3>3, <3>4, <3>5 DEF Cooldown!JobIsRead, p
    <3> QED BY <2>2, <3>1, <3>6, <3>7 DEF Cooldown!CooldownInv
  <2>8. ASSUME NEW x \in Applier, job[x] # Nil, job' = [job EXCEPT ![x] = Nil],
               \A b \in Attempt : pin[b] # Nil => pin'[b] # Nil /\ pin'[b].duration = pin[b].duration
        PROVE  job' \in [Applier -> Cooldown!JobRow \cup {Nil}] /\ Cooldown!JobIsRead'
    <3>1. /\ job' \in [Applier -> Cooldown!JobRow \cup {Nil}]
          /\ \A y \in Applier : job'[y] # Nil => job'[y] = job[y]
      BY <2>1, <2>8 DEF Cooldown!TypeOK
    <3>2. ASSUME NEW y \in Applier, job[y] # Nil
          PROVE  /\ pin'[job[y].event.attempt] # Nil
                 /\ job[y].read.duration = pin'[job[y].event.attempt].duration
                 /\ Cooldown!Writable(job[y].read, job[y].event.rev)
      <4>1. job[y].event \in OrderEvent
        BY <2>1, <3>2 DEF Cooldown!TypeOK, Cooldown!JobRow
      <4>2. job[y].event.attempt \in Attempt
        BY <4>1, OrderEvents
      <4> QED BY <2>1, <2>8, <3>2, <4>2 DEF Cooldown!JobIsRead
    <3> QED BY <3>1, <3>2 DEF Cooldown!JobIsRead
  <2>9. ASSUME NEW x \in Applier, Cooldown!UpdatePin(x) PROVE Cooldown!CooldownInv'
    <3>1. job[x] # Nil /\ job' = [job EXCEPT ![x] = Nil] /\ UNCHANGED <<config, booked, now>>
      BY <2>9 DEF Cooldown!UpdatePin
    <3>2. CASE UNCHANGED <<pin, applied, raced>>
      BY <2>1, <2>2, <2>8, <3>1, <3>2 DEF Cooldown!CooldownInv, Cooldown!TypeOK
    <3>3. CASE /\ Cooldown!Writable(pin[job[x].event.attempt], job[x].event.rev)
               /\ pin' = [pin EXCEPT ![job[x].event.attempt]
                                       = Cooldown!NewPin(job[x].read, job[x].event)]
               /\ applied' = applied \cup {job[x].event}
               /\ raced' = IF pin[job[x].event.attempt] = job[x].read THEN raced
                           ELSE raced \cup {job[x].event.attempt}
      <4>1. /\ Cooldown!PinSaysLatest' /\ Cooldown!PinTells'
            /\ pin' \in [Attempt -> Cooldown!PinRow \cup {Nil}]
            /\ applied' \subseteq OrderEvent /\ raced' \subseteq Attempt
            /\ \A b \in Attempt : pin[b] # Nil => pin'[b] # Nil /\ pin'[b].duration = pin[b].duration
        BY <1>2, <3>1, <3>3, PinIsWritten
      <4> QED BY <2>1, <2>8, <3>1, <4>1 DEF Cooldown!CooldownInv, Cooldown!TypeOK
    <3> QED BY <2>9, <3>2, <3>3 DEF Cooldown!UpdatePin
  <2>10. ASSUME NEW x \in Applier, Cooldown!Rollback(x) PROVE Cooldown!CooldownInv'
    <3>1. job[x] # Nil /\ job' = [job EXCEPT ![x] = Nil]
          /\ UNCHANGED <<config, pin, booked, applied, raced, now>>
      BY <2>10 DEF Cooldown!Rollback
    <3> QED BY <2>1, <2>2, <2>8, <3>1 DEF Cooldown!CooldownInv, Cooldown!TypeOK
  <2>11. CASE UNCHANGED Cooldown!vars
    BY <2>1, <2>2, <2>3, <2>11 DEF Cooldown!vars, Cooldown!CooldownInv, Cooldown!TypeOK
  <2> QED BY <1>2, <2>4, <2>5, <2>6, <2>7, <2>9, <2>10, <2>11 DEF Cooldown!Next
<1> QED BY <1>1, <1>2, PTL DEF Cooldown!Spec

\* The gate of a symbol fails closed, for any attempts, events in any order and
\* number, edits of the configuration and interleavings of the appliers: it
\* obeys the newest event applied to an attempt and, when no pin of the attempt
\* was written over one its writer had not read, every event applied to it.
THEOREM GateFailsClosed == Cooldown!Spec => []FailsClosed
<1> USE CooldownAssumption
<1>1. ASSUME Cooldown!CooldownInv PROVE FailsClosed
  <2>1. Cooldown!TypeOK /\ Cooldown!PinSaysLatest /\ Cooldown!PinTells
    BY <1>1 DEF Cooldown!CooldownInv
  <2>2. ASSUME NEW a \in Attempt, Cooldown!AppliedTo(a) # {}
        PROVE  /\ pin[a] \in Cooldown!PinRow /\ pin[a] \in Cooldown!Pins
               /\ booked[a] = pin[a].duration
               /\ pin[a].last \in Cooldown!Latest(a) /\ Cooldown!Says(pin[a], pin[a].last)
    BY <2>1, <2>2 DEF Cooldown!PinSaysLatest, Cooldown!TypeOK, Cooldown!Pins
  <2>3. ASSUME NEW a \in Attempt, pin[a] \in Cooldown!Pins, pin[a].state \in Cooldown!Unresolved
        PROVE  Cooldown!Gate = "UNAVAILABLE"
    BY <2>3 DEF Cooldown!Gate, Cooldown!Unresolved
  <2>4. ASSUME NEW a \in Attempt, NEW e \in Cooldown!AppliedTo(a), e.status = "PROVEN",
               now < e.at + booked[a],
               \/ pin[a].state \in Cooldown!Unresolved
               \/ pin[a].state = "ACTIVE" /\ pin[a].until = e.at + pin[a].duration
        PROVE  Cooldown!Gate # "PASS"
    <3>1. pin[a] \in Cooldown!PinRow /\ pin[a] \in Cooldown!Pins /\ booked[a] = pin[a].duration
      BY <2>2, <2>4
    <3>2. CASE pin[a].state \in Cooldown!Unresolved
      BY <2>3, <3>1, <3>2
    <3>3. CASE pin[a].state = "ACTIVE" /\ pin[a].until = e.at + pin[a].duration
      <4>1. e \in OrderEvent
        BY <2>1, <2>4 DEF Cooldown!AppliedTo, Cooldown!TypeOK
      <4>2. e.at \in Nat /\ pin[a].duration \in Nat /\ now \in Nat
        BY <2>1, <2>4, <3>1, <4>1, OrderEvents DEF Cooldown!TypeOK, Cooldown!PinRow
      <4>3. pin[a].until > now
        BY <2>4, <3>1, <3>3, <4>2
      <4> QED BY <3>1, <3>3, <4>3 DEF Cooldown!Gate
    <3> QED BY <2>4, <3>2, <3>3
  <2>5. Cooldown!ObeysLatest
    <3> SUFFICES ASSUME NEW a \in Attempt, Cooldown!Latest(a) # {}
                 PROVE  /\ (\A e \in Cooldown!Latest(a) : e.status = "CONFLICT" \/ Cooldown!Unproven(e))
                             => Cooldown!Gate = "UNAVAILABLE"
                        /\ (\A e \in Cooldown!Latest(a) : Cooldown!Accepted(e) /\ now < e.at + booked[a])
                             => Cooldown!Gate # "PASS"
      BY DEF Cooldown!ObeysLatest
    <3> DEFINE l == pin[a].last
    <3>1. l \in Cooldown!Latest(a) /\ Cooldown!Says(pin[a], l) /\ pin[a] \in Cooldown!Pins
      BY <2>2 DEF Cooldown!Latest
    <3>2. l \in Cooldown!AppliedTo(a)
      BY <3>1 DEF Cooldown!Latest
    <3> HIDE DEF l
    <3>3. ASSUME l.status = "CONFLICT" \/ Cooldown!Unproven(l) PROVE Cooldown!Gate = "UNAVAILABLE"
      <4>1. pin[a].state \in Cooldown!Unresolved
        BY <3>1, <3>3 DEF Cooldown!Says, Cooldown!Unresolved
      <4> QED BY <2>3, <3>1, <4>1
    <3>4. ASSUME Cooldown!Accepted(l), now < l.at + booked[a] PROVE Cooldown!Gate # "PASS"
      <4>1. \/ pin[a].state \in Cooldown!Unresolved
            \/ pin[a].state = "ACTIVE" /\ pin[a].until = l.at + pin[a].duration
        BY <3>1, <3>4 DEF Cooldown!Says, Cooldown!Unresolved
      <4>2. l.status = "PROVEN"
        BY <3>4 DEF Cooldown!Accepted
      <4> QED BY <2>4, <3>2, <3>4, <4>1, <4>2
    <3> QED BY <3>1, <3>3, <3>4
  <2>6. Cooldown!Remembers
    <3> SUFFICES ASSUME NEW a \in Attempt \ raced
                 PROVE  /\ Cooldown!Disputed(a) => Cooldown!Gate = "UNAVAILABLE"
                        /\ \A e \in Cooldown!AppliedTo(a) :
                             e.status = "PROVEN" /\ now < e.at + booked[a] /\ ~Cooldown!Ended(a)
                               => Cooldown!Gate # "PASS"
      BY DEF Cooldown!Remembers
    <3>1. ASSUME Cooldown!Disputed(a) PROVE Cooldown!Gate = "UNAVAILABLE"
      <4>1. pin[a].state \in Cooldown!Unresolved
        BY <2>1, <3>1 DEF Cooldown!PinTells, Cooldown!Unresolved
      <4>2. pin[a] \in Cooldown!Pins
        BY <2>2, <3>1 DEF Cooldown!Disputed
      <4> QED BY <2>3, <4>1, <4>2
    <3>2. ASSUME NEW e \in Cooldown!AppliedTo(a), e.status = "PROVEN", now < e.at + booked[a],
                 ~Cooldown!Ended(a)
          PROVE  Cooldown!Gate # "PASS"
      <4>1. \/ pin[a].state \in Cooldown!Unresolved
            \/ pin[a].state = "ACTIVE" /\ pin[a].until = e.at + pin[a].duration
        BY <2>1, <3>2 DEF Cooldown!PinTells
      <4> QED BY <2>4, <3>2, <4>1
    <3> QED BY <3>1, <3>2
  <2> QED BY <2>5, <2>6 DEF FailsClosed, Cooldown!FailsClosed
<1> QED BY <1>1, CooldownInvariant, PTL

-----------------------------------------------------------------------------
(***************************************************************************)
(* Accounting days and receipts                                            *)
(***************************************************************************)
\* The fields of a day's row.
LEMMA DayFields ==
  ASSUME NEW r \in Results!Days
  PROVE  /\ r.realized \in Int /\ r.unrealized \in Int \cup {Nil}
         /\ r.total \in Int \cup {Nil} /\ r.latched \in BOOLEAN
BY DEF Results!Days

\* What a transaction carries has the type of its kind.
LEMMA WorkOfResults ==
  ASSUME Results!ResultsConstants, Results!TypeOK, NEW x \in Txn, work[x] # Nil
  PROVE  /\ work[x].kind = "day" => work[x].day \in Day /\ work[x].read \in Results!Days
         /\ work[x].kind = "receipt" =>
              /\ work[x].event \in FinalEvent /\ work[x].held \in SUBSET Results!Keys
              /\ work[x].looked \in BOOLEAN
<1>1. work[x] \in Results!Work
  BY DEF Results!TypeOK
<1> QED BY <1>1 DEF Results!Work

\* What was read stays current when the days being written stay as they are.
LEMMA ReadStays ==
  ASSUME Results!ReadIsCurrent,
         \A y \in Txn : work'[y] # Nil /\ work'[y].kind = "day" =>
             work'[y] = work[y] /\ day'[work[y].day] = day[work[y].day]
  PROVE  Results!ReadIsCurrent'
BY DEF Results!ReadIsCurrent

\* Receipts that go on hold what they held.
LEMMA LocksStay ==
  ASSUME Results!LocksExclude, receipts' = receipts,
         \A y \in Txn : work'[y] # Nil /\ work'[y].kind = "receipt" => work'[y] = work[y]
  PROVE  Results!LocksExclude'
BY DEF Results!LocksExclude, Results!Receiving, Results!Wanted

\* What update_live_metrics and post_final_result_once
\* make of the row they read.
LEMMA RowsComputed ==
  ASSUME Results!ResultsConstants, NEW r \in Results!Days, NEW u \in Int
  PROVE  /\ Results!LiveMetrics(r, u) \in Results!Days
         /\ Results!LiveMetrics(r, u).base = r.base
         /\ Results!LiveMetrics(r, u).realized = r.realized
         /\ Results!LiveMetrics(r, u).unrealized = u
         /\ Results!LiveMetrics(r, u).total = r.realized + u
         /\ Results!LiveMetrics(r, u).latched = r.latched
         /\ Results!ApplyFinalResult(r, u) \in Results!Days
         /\ Results!ApplyFinalResult(r, u).base = r.base
         /\ Results!ApplyFinalResult(r, u).realized = r.realized + u
         /\ Results!ApplyFinalResult(r, u).unrealized = r.unrealized
         /\ Results!ApplyFinalResult(r, u).total
              = (r.realized + u) + (IF r.unrealized = Nil THEN 0 ELSE r.unrealized)
         /\ Results!ApplyFinalResult(r, u).latched = r.latched
<1>1. r.realized + u \in Int
      /\ (r.realized + u) + (IF r.unrealized = Nil THEN 0 ELSE r.unrealized) \in Int
  BY DayFields
<1> QED BY <1>1, DayFields DEF Results!LiveMetrics, Results!ApplyFinalResult, Results!Days

\* What latch_daily_loss_once makes of the row it read.
LEMMA LatchComputed ==
  ASSUME NEW r \in Results!Days, NEW n, n = [r EXCEPT !.latched = TRUE]
  PROVE  /\ n \in Results!Days /\ n.latched /\ n.base = r.base /\ n.realized = r.realized
         /\ n.unrealized = r.unrealized /\ n.total = r.total
BY DEF Results!Days

\* Finiteness in the model is finiteness here.
LEMMA SameFinite ==
  ASSUME NEW S
  PROVE  Results!IsFiniteSet(S) <=> IsFiniteSet(S)
BY DEF Results!IsFiniteSet, IsFiniteSet

\* The sum of the model is the sum of SumTheorems.
LEMMA SameSum ==
  ASSUME NEW h, NEW S
  PROVE  Results!SumFunctionOnSet(h, S) = SumFunctionOnSet(h, S)
BY DEF Results!SumFunctionOnSet, Results!FoldFunctionOnSet, Results!MapThenFoldSet,
     SumFunctionOnSet, FoldFunctionOnSet, MapThenFoldSet

\* A writer of a day ends its transaction with the row it computed.
LEMMA DayIsWritten ==
  ASSUME Results!ResultsConstants, Results!ResultsInv, NEW x \in Txn, NEW n, NEW e,
         work[x] # Nil, work[x].kind = "day", e = work[x].day, n \in Results!Days,
         day' = [day EXCEPT ![e] = n], work' = [work EXCEPT ![x] = Nil],
         receipts' = receipts, results' \subseteq Posting, IsFiniteSet(results'),
         \A p, q \in results' : p.result = q.result \/ p.tranche = q.tranche => p = q,
         \A d \in Day : d # e => Results!Posted(d)' = Results!Posted(d),
         Results!AddsUp(n, Results!Posted(e)')
  PROVE  Results!ResultsInv'
<1>1. /\ Results!TypeOK /\ Results!DayAddsUp /\ Results!OneReceipt
      /\ Results!ReadIsCurrent /\ Results!LocksExclude
  BY DEF Results!ResultsInv
<1>2. e \in Day /\ n # Nil
  BY <1>1, WorkOfResults DEF Results!ResultsConstants
<1>3. /\ day' \in [Day -> Results!Days \cup {Nil}] /\ day'[e] = n
      /\ \A d \in Day : d # e => day'[d] = day[d]
  BY <1>1, <1>2 DEF Results!TypeOK
<1>4. work' \in [Txn -> Results!Work \cup {Nil}] /\ work'[x] = Nil
      /\ \A y \in Txn : y # x => work'[y] = work[y]
  BY <1>1 DEF Results!TypeOK
<1>5. Results!TypeOK'
  BY <1>1, <1>3, <1>4 DEF Results!TypeOK
<1>6. Results!ReadIsCurrent'
  <2> SUFFICES ASSUME NEW y \in Txn, work'[y] # Nil, work'[y].kind = "day"
               PROVE  work'[y] = work[y] /\ day'[work[y].day] = day[work[y].day]
    BY <1>1, ReadStays
  <2>1. y # x /\ work'[y] = work[y]
    BY <1>4
  <2>2. work[y].day \in Day /\ work[y].day # e
    BY <1>1, <2>1, WorkOfResults DEF Results!ReadIsCurrent
  <2> QED BY <1>3, <2>1, <2>2
<1>7. Results!LocksExclude'
  BY <1>1, <1>4, LocksStay
<1>8. \A d \in Day : Results!AddsUp(day'[d], Results!Posted(d)')
  <2>1. \A d \in Day : Results!AddsUp(day[d], Results!Posted(d))
    BY <1>1 DEF Results!DayAddsUp
  <2> SUFFICES ASSUME NEW d \in Day PROVE Results!AddsUp(day'[d], Results!Posted(d)')
    OBVIOUS
  <2>2. CASE d = e
    BY <1>3, <2>2
  <2>3. CASE d # e
    BY <1>3, <2>1, <2>3
  <2> QED BY <2>2, <2>3
<1>9. Results!DayAddsUp'
  BY <1>8 DEF Results!DayAddsUp
<1>10. Results!OneReceipt'
  BY <1>1 DEF Results!OneReceipt
<1>11. Results!IsFiniteSet(results')
  BY SameFinite
<1> QED BY <1>5, <1>6, <1>7, <1>9, <1>10, <1>11 DEF Results!ResultsInv

\* Adding up goes on from what was posted: a result that is new adds its pnl.
LEMMA OneMorePosted ==
  ASSUME Results!ResultsConstants, NEW P \in SUBSET Posting, IsFiniteSet(P), NEW p \in Posting \ P
  PROVE  /\ Results!SumFunctionOnSet(Results!Pnl, P) \in Int
         /\ Results!SumFunctionOnSet(Results!Pnl, P \cup {p})
              = Results!SumFunctionOnSet(Results!Pnl, P) + p.pnl
<1>1. Results!Pnl \in [Posting -> Int] /\ Results!Pnl[p] = p.pnl
  BY DEF Results!Pnl, Results!ResultsConstants
<1> QED BY <1>1, SumOfOneMore, SameSum

\* A step that writes no row of results and begins or ends a transaction.
LEMMA TransactionMoves ==
  ASSUME Results!ResultsInv, UNCHANGED <<day, results, receipts>>,
         work' \in [Txn -> Results!Work \cup {Nil}],
         Results!ReadIsCurrent', Results!LocksExclude'
  PROVE  Results!ResultsInv'
<1>1. Results!TypeOK' /\ Results!OneReceipt' /\ IsFiniteSet(results')
  BY SameFinite DEF Results!ResultsInv, Results!TypeOK, Results!OneReceipt
<1>2. Results!DayAddsUp'
  BY DEF Results!ResultsInv, Results!DayAddsUp, Results!AddsUp, Results!Posted
<1> QED BY <1>1, <1>2, SameFinite DEF Results!ResultsInv

\* record_day opens a day at zero, which is what no result adds up to.
LEMMA RecordDayKeeps ==
  ASSUME Results!ResultsConstants, Results!ResultsInv, NEW o \in Opening, Results!RecordDay(o)
  PROVE  Results!ResultsInv'
<1>1. /\ Results!TypeOK /\ Results!DayAddsUp /\ Results!OneReceipt
      /\ Results!ReadIsCurrent /\ Results!LocksExclude /\ IsFiniteSet(results)
  BY SameFinite DEF Results!ResultsInv
<1> DEFINE e == o.day
           n == Results!NewDay(o)
<1>2. e \in Day /\ n \in Results!Days /\ n.realized = 0 /\ n.total = Nil
  BY DEF Results!ResultsConstants, Results!NewDay, Results!Days
<1>3. day[e] = Nil /\ day' = [day EXCEPT ![e] = n] /\ UNCHANGED <<results, receipts, work>>
  BY DEF Results!RecordDay
<1> HIDE DEF e, n
<1>4. /\ day' \in [Day -> Results!Days \cup {Nil}] /\ day'[e] = n /\ n # Nil
      /\ \A d \in Day : d # e => day'[d] = day[d]
  BY <1>1, <1>2, <1>3 DEF Results!TypeOK, Results!ResultsConstants
<1>5. Results!TypeOK'
  BY <1>1, <1>3, <1>4 DEF Results!TypeOK
<1>6. Results!ReadIsCurrent'
  <2> SUFFICES ASSUME NEW y \in Txn, work[y] # Nil, work[y].kind = "day"
               PROVE  day'[work[y].day] = day[work[y].day]
    BY <1>1, <1>3, ReadStays
  <2>1. work[y].day \in Day /\ work[y].day # e
    BY <1>1, <1>3, WorkOfResults DEF Results!ReadIsCurrent
  <2> QED BY <1>4, <2>1
<1>7. Results!LocksExclude'
  BY <1>1, <1>3, LocksStay
<1>8. \A d \in Day : Results!AddsUp(day'[d], Results!Posted(d)')
  <2> SUFFICES ASSUME NEW d \in Day PROVE Results!AddsUp(day'[d], Results!Posted(d)')
    OBVIOUS
  <2>1. Results!Posted(d)' = Results!Posted(d) /\ Results!AddsUp(day[d], Results!Posted(d))
    BY <1>1, <1>3 DEF Results!Posted, Results!DayAddsUp
  <2>2. CASE d = e
    <3>1. Results!Posted(d) = {}
      BY <1>3, <2>1, <2>2 DEF Results!AddsUp
    <3>2. Results!SumFunctionOnSet(Results!Pnl, {}) = 0
      <4>1. Results!Pnl \in [Posting -> Int]
        BY DEF Results!Pnl, Results!ResultsConstants
      <4> QED BY <4>1, SumOfNone, SameSum
    <3> QED BY <1>2, <1>4, <2>1, <2>2, <3>1, <3>2 DEF Results!AddsUp
  <2>3. CASE d # e
    BY <1>4, <2>1, <2>3
  <2> QED BY <2>2, <2>3
<1>9. Results!DayAddsUp' /\ Results!OneReceipt' /\ Results!IsFiniteSet(results')
  BY <1>1, <1>3, <1>8, SameFinite DEF Results!DayAddsUp, Results!OneReceipt
<1> QED BY <1>5, <1>6, <1>7, <1>9 DEF Results!ResultsInv

\* The writers of a day: each computes the new row from the row as it is.
LEMMA DayWritersKeep ==
  ASSUME Results!ResultsConstants, Results!ResultsInv, NEW x \in Txn,
         \/ \E u \in Unrealized : Results!UpdateLiveMetrics(x, u)
         \/ \E p \in Posting : Results!PostFinalResult(x, p)
         \/ Results!LatchDailyLoss(x)
  PROVE  Results!ResultsInv'
<1>1. /\ Results!TypeOK /\ Results!DayAddsUp /\ Results!ReadIsCurrent /\ IsFiniteSet(results)
  BY SameFinite DEF Results!ResultsInv
<1>2. work[x] # Nil /\ work[x].kind = "day"
  BY DEF Results!UpdateLiveMetrics, Results!PostFinalResult, Results!LatchDailyLoss
<1> DEFINE e == work[x].day
           r == work[x].read
<1>3. e \in Day /\ r \in Results!Days
  BY <1>1, <1>2, WorkOfResults
<1>4. r = day[e] /\ r # Nil
  BY <1>1, <1>2 DEF Results!ReadIsCurrent
<1>5. Results!AddsUp(r, Results!Posted(e))
  BY <1>1, <1>3, <1>4 DEF Results!DayAddsUp
<1>6. /\ r.realized = Results!SumFunctionOnSet(Results!Pnl, Results!Posted(e))
      /\ r.total # Nil => r.total = r.realized + (IF r.unrealized = Nil THEN 0 ELSE r.unrealized)
  BY <1>4, <1>5 DEF Results!AddsUp
<1>7. results \subseteq Posting
      /\ \A p, q \in results : p.result = q.result \/ p.tranche = q.tranche => p = q
  BY <1>1 DEF Results!TypeOK, Results!DayAddsUp
<1>8. ASSUME NEW n, n \in Results!Days, UNCHANGED <<results, receipts>>,
             day' = [day EXCEPT ![e] = n], work' = [work EXCEPT ![x] = Nil],
             n.realized = r.realized,
             n.total # Nil =>
               n.total = n.realized + (IF n.unrealized = Nil THEN 0 ELSE n.unrealized)
      PROVE  Results!ResultsInv'
  <2>1. \A d \in Day : Results!Posted(d)' = Results!Posted(d)
    BY <1>8 DEF Results!Posted
  <2>2. PICK f : f = e
    OBVIOUS
  <2>3. f \in Day /\ f = work[x].day /\ day' = [day EXCEPT ![f] = n]
    BY <1>3, <1>8, <2>2
  <2>4. n # Nil
    BY <1>8 DEF Results!ResultsConstants
  <2>5. Results!AddsUp(n, Results!Posted(f))
    BY <1>6, <1>8, <2>2, <2>4 DEF Results!AddsUp
  <2>6. Results!AddsUp(n, Results!Posted(f)')
    BY <2>1, <2>3, <2>5
  <2> HIDE DEF e, r
  <2>7. results' \subseteq Posting /\ IsFiniteSet(results')
        /\ \A p, q \in results' : p.result = q.result \/ p.tranche = q.tranche => p = q
    BY <1>1, <1>7, <1>8
  <2> QED BY <1>2, <1>8, <2>1, <2>3, <2>6, <2>7, DayIsWritten
<1>9. ASSUME NEW u \in Unrealized, Results!UpdateLiveMetrics(x, u) PROVE Results!ResultsInv'
  <2> DEFINE n == Results!LiveMetrics(r, u)
  <2>1. u \in Int /\ u # Nil
    BY DEF Results!ResultsConstants
  <2>2. /\ n \in Results!Days /\ n.realized = r.realized /\ n.unrealized = u
        /\ n.total = r.realized + u
    BY <1>3, <2>1, RowsComputed
  <2>3. /\ UNCHANGED <<results, receipts>> /\ day' = [day EXCEPT ![e] = n]
        /\ work' = [work EXCEPT ![x] = Nil]
    BY <1>9 DEF Results!UpdateLiveMetrics, Results!Update, Results!End
  <2> HIDE DEF n, e, r
  <2> QED BY <1>8, <2>1, <2>2, <2>3
<1>10. ASSUME Results!LatchDailyLoss(x) PROVE Results!ResultsInv'
  <2> DEFINE n == [r EXCEPT !.latched = TRUE]
  <2>1. /\ n \in Results!Days /\ n.realized = r.realized /\ n.unrealized = r.unrealized
        /\ n.total = r.total
    BY <1>3, LatchComputed
  <2>2. /\ UNCHANGED <<results, receipts>> /\ day' = [day EXCEPT ![e] = n]
        /\ work' = [work EXCEPT ![x] = Nil]
    BY <1>10 DEF Results!LatchDailyLoss, Results!Update, Results!End
  <2> HIDE DEF n, e, r
  <2> QED BY <1>6, <1>8, <2>1, <2>2
<1>11. ASSUME NEW p \in Posting, Results!PostFinalResult(x, p) PROVE Results!ResultsInv'
  <2> DEFINE n == Results!ApplyFinalResult(r, p.pnl)
  <2>1. p.pnl \in Int
    BY DEF Results!ResultsConstants
  <2>2. /\ n \in Results!Days /\ n.realized = r.realized + p.pnl /\ n.unrealized = r.unrealized
        /\ n.total = (r.realized + p.pnl) + (IF r.unrealized = Nil THEN 0 ELSE r.unrealized)
    BY <1>3, <2>1, RowsComputed
  <2>3. /\ receipts' = receipts /\ day' = [day EXCEPT ![e] = n] /\ p.day = e
        /\ work' = [work EXCEPT ![x] = Nil] /\ results' = results \cup {p}
        /\ \A q \in results : q.result # p.result /\ q.tranche # p.tranche
    BY <1>11 DEF Results!PostFinalResult, Results!NewResult, Results!Update, Results!End
  <2>4. PICK f : f = e
    OBVIOUS
  <2>5. f \in Day /\ f = work[x].day /\ day' = [day EXCEPT ![f] = n] /\ p.day = f
    BY <1>3, <2>3, <2>4
  <2>6. p \notin results /\ n # Nil
    BY <2>2, <2>3 DEF Results!ResultsConstants
  <2>7. /\ Results!Posted(f)' = Results!Posted(f) \cup {p}
        /\ \A d \in Day : d # f => Results!Posted(d)' = Results!Posted(d)
    BY <2>3, <2>5 DEF Results!Posted
  <2>8. /\ Results!Posted(f) \in SUBSET Posting /\ IsFiniteSet(Results!Posted(f))
        /\ p \in Posting \ Results!Posted(f)
    BY <1>1, <1>7, <2>6, FS_Subset DEF Results!Posted
  <2>9. /\ Results!SumFunctionOnSet(Results!Pnl, Results!Posted(f)') = r.realized + p.pnl
    <3>1. Results!SumFunctionOnSet(Results!Pnl, Results!Posted(f) \cup {p})
            = Results!SumFunctionOnSet(Results!Pnl, Results!Posted(f)) + p.pnl
      BY <2>8, OneMorePosted
    <3> QED BY <1>6, <2>4, <2>7, <3>1
  <2>10. Results!AddsUp(n, Results!Posted(f)')
    BY <2>2, <2>6, <2>9 DEF Results!AddsUp
  <2>11. results' \subseteq Posting /\ IsFiniteSet(results')
         /\ \A q, s \in results' : q.result = s.result \/ q.tranche = s.tranche => q = s
    <3>1. IsFiniteSet(results')
      BY <1>1, <2>3, FS_AddElement
    <3> QED BY <1>7, <2>3, <3>1
  <2> HIDE DEF n, e, r
  <2> QED BY <1>2, <2>2, <2>3, <2>5, <2>7, <2>10, <2>11, DayIsWritten
<1> QED BY <1>9, <1>10, <1>11

\* A receipt that goes on: its keys are its own and taken in ascending order.
LEMMA ReceiptMoves ==
  ASSUME Results!ResultsConstants, Results!TypeOK, Results!LocksExclude, NEW x \in Txn, NEW u,
         work' = [work EXCEPT ![x] = u], receipts' = receipts,
         u # Nil, u.kind = "receipt", u.held \subseteq Results!ReceiptKeys(u.event),
         \A h \in u.held, w \in Results!ReceiptKeys(u.event) \ u.held : h < w,
         \A y \in Txn : Results!Receiving(y) /\ y # x => u.held \cap work[y].held = {},
         u.looked => /\ Results!ReceiptKeys(u.event) \subseteq u.held
                     /\ \A r \in receipts : ~Results!Related(r, u.event)
  PROVE  Results!LocksExclude'
<1>1. work'[x] = u /\ \A y \in Txn : y # x => work'[y] = work[y]
  BY DEF Results!TypeOK
<1> SUFFICES ASSUME NEW y \in Txn, work'[y] # Nil, work'[y].kind = "receipt"
             PROVE  /\ work'[y].held \subseteq Results!ReceiptKeys(work'[y].event)
                    /\ \A h \in work'[y].held,
                          w \in Results!ReceiptKeys(work'[y].event) \ work'[y].held : h < w
                    /\ \A z \in Txn : work'[z] # Nil /\ work'[z].kind = "receipt" /\ z # y =>
                          work'[y].held \cap work'[z].held = {}
                    /\ work'[y].looked =>
                         /\ Results!ReceiptKeys(work'[y].event) \ work'[y].held = {}
                         /\ \A r \in receipts : ~Results!Related(r, work'[y].event)
  BY DEF Results!LocksExclude, Results!Receiving, Results!Wanted, Results!ReceiptKeys,
       Results!Related
<1>2. CASE y = x
  BY <1>1, <1>2 DEF Results!Receiving
<1>3. CASE y # x
  <2>1. work'[y] = work[y] /\ Results!Receiving(y)
    BY <1>1, <1>3 DEF Results!Receiving
  <2> QED BY <1>1, <1>3, <2>1 DEF Results!LocksExclude, Results!Receiving, Results!Wanted
<1> QED BY <1>2, <1>3

\* accept_order_event step by step.
LEMMA ReceiptStepsKeep ==
  ASSUME Results!ResultsConstants, Results!ResultsInv, NEW x \in Txn,
         \/ \E e \in FinalEvent : Results!BeginReceipt(x, e)
         \/ Results!AcquireLock(x)
         \/ Results!LookForReceipt(x)
  PROVE  Results!ResultsInv'
<1>1. Results!TypeOK /\ Results!ReadIsCurrent /\ Results!LocksExclude
  BY DEF Results!ResultsInv
<1>2. UNCHANGED <<day, results, receipts>>
  BY DEF Results!BeginReceipt, Results!AcquireLock, Results!LookForReceipt
<1>3. ASSUME NEW u, u \in Results!Work, u.kind = "receipt", work' = [work EXCEPT ![x] = u],
             Results!LocksExclude'
      PROVE  Results!ResultsInv'
  <2>1. work' \in [Txn -> Results!Work \cup {Nil}] /\ work'[x] = u
        /\ \A y \in Txn : y # x => work'[y] = work[y]
    BY <1>1, <1>3 DEF Results!TypeOK
  <2>2. Results!ReadIsCurrent'
    BY <1>1, <1>2, <1>3, <2>1, ReadStays
  <2> QED BY <1>2, <1>3, <2>1, <2>2, TransactionMoves
<1>4. ASSUME NEW e \in FinalEvent, Results!BeginReceipt(x, e) PROVE Results!ResultsInv'
  <2> DEFINE u == [kind |-> "receipt", event |-> e, held |-> {}, looked |-> FALSE]
  <2>1. u \in Results!Work /\ u.kind = "receipt" /\ u.held = {} /\ ~u.looked
    BY DEF Results!Work
  <2>2. work' = [work EXCEPT ![x] = u]
    BY <1>4 DEF Results!BeginReceipt
  <2> HIDE DEF u
  <2>3. u # Nil
    BY <2>1 DEF Results!ResultsConstants
  <2>4. Results!LocksExclude'
    BY <1>1, <1>2, <2>1, <2>2, <2>3, ReceiptMoves
  <2> QED BY <1>3, <2>1, <2>2, <2>4
<1>5. ASSUME Results!Receiving(x)
      PROVE  /\ work[x] \in Results!Work /\ work[x] # Nil /\ work[x].kind = "receipt"
             /\ work[x].event \in FinalEvent /\ work[x].held \in SUBSET Results!Keys
             /\ work[x].held \subseteq Results!ReceiptKeys(work[x].event)
             /\ \A h \in work[x].held, w \in Results!Wanted(x) : h < w
             /\ \A y \in Txn : Results!Receiving(y) /\ y # x => work[x].held \cap work[y].held = {}
             /\ Results!ReceiptKeys(work[x].event) \subseteq Results!Keys
  BY <1>1, <1>5, WorkOfResults DEF Results!Receiving, Results!TypeOK, Results!LocksExclude,
       Results!ResultsConstants
<1>6. ASSUME Results!AcquireLock(x) PROVE Results!ResultsInv'
  <2>1. Results!Receiving(x)
    BY <1>6 DEF Results!AcquireLock
  <2>2. PICK k \in Results!NextKey(x) :
             Results!Free(k) /\ work' = [work EXCEPT ![x].held = @ \cup {k}]
    BY <1>6 DEF Results!AcquireLock
  <2> DEFINE u == [work[x] EXCEPT !.held = @ \cup {k}]
  <2>3. k \in Results!Wanted(x) /\ \A j \in Results!Wanted(x) : k <= j
    BY <2>2 DEF Results!NextKey
  <2>4. k \in Results!ReceiptKeys(work[x].event) /\ k \in Results!Keys /\ k \notin work[x].held
    BY <1>5, <2>1, <2>3 DEF Results!Wanted
  <2>5. /\ u \in Results!Work /\ u.kind = "receipt" /\ u.event = work[x].event
        /\ u.held = work[x].held \cup {k} /\ u.looked = work[x].looked
    <3>1. work[x].held \cup {k} \in SUBSET Results!Keys
      BY <1>5, <2>1, <2>4
    <3> QED BY <1>5, <2>1, <3>1 DEF Results!Work
  <2>6. work' = [work EXCEPT ![x] = u]
    BY <1>1, <2>2 DEF Results!TypeOK
  <2>7. ~work[x].looked
    BY <1>1, <2>1, <2>3 DEF Results!LocksExclude
  <2> HIDE DEF u
  <2>8. u # Nil
    BY <2>5 DEF Results!ResultsConstants
  <2>9. u.held \subseteq Results!ReceiptKeys(u.event)
    BY <1>5, <2>1, <2>4, <2>5
  <2>10. \A h \in u.held, w \in Results!ReceiptKeys(u.event) \ u.held : h < w
    <3> SUFFICES ASSUME NEW h \in u.held, NEW w \in Results!ReceiptKeys(u.event) \ u.held
                 PROVE  h < w
      OBVIOUS
    <3>1. w \in Results!Wanted(x) /\ w # k /\ w \in Int /\ k \in Int
      BY <1>5, <2>1, <2>4, <2>5 DEF Results!Wanted, Results!Keys
    <3>2. CASE h = k
      BY <2>3, <3>1, <3>2
    <3>3. CASE h \in work[x].held
      BY <1>5, <2>1, <3>1, <3>3
    <3> QED BY <2>5, <3>2, <3>3
  <2>11. \A y \in Txn : Results!Receiving(y) /\ y # x => u.held \cap work[y].held = {}
    BY <1>5, <2>1, <2>2, <2>5 DEF Results!Free
  <2>12. Results!LocksExclude'
    BY <1>1, <1>2, <2>5, <2>6, <2>7, <2>8, <2>9, <2>10, <2>11, ReceiptMoves
  <2> QED BY <1>3, <2>5, <2>6, <2>12
<1>7. ASSUME Results!LookForReceipt(x) PROVE Results!ResultsInv'
  <2>1. Results!Receiving(x) /\ Results!Wanted(x) = {}
    BY <1>7 DEF Results!LookForReceipt
  <2>2. CASE work' = [work EXCEPT ![x] = Nil]
    <3>1. work' \in [Txn -> Results!Work \cup {Nil}] /\ work'[x] = Nil
          /\ \A y \in Txn : y # x => work'[y] = work[y]
      BY <1>1, <2>2 DEF Results!TypeOK
    <3>2. Results!ReadIsCurrent' /\ Results!LocksExclude'
      BY <1>1, <1>2, <3>1, ReadStays, LocksStay
    <3> QED BY <1>2, <3>1, <3>2, TransactionMoves
  <2>3. CASE /\ \A r \in receipts : ~Results!Related(r, work[x].event)
             /\ work' = [work EXCEPT ![x].looked = TRUE]
    <3> DEFINE u == [work[x] EXCEPT !.looked = TRUE]
    <3>1. /\ u \in Results!Work /\ u.kind = "receipt" /\ u.event = work[x].event
          /\ u.held = work[x].held
      BY <1>5, <2>1 DEF Results!Work
    <3>2. work' = [work EXCEPT ![x] = u]
      BY <1>1, <2>3 DEF Results!TypeOK
    <3> HIDE DEF u
    <3>3. u # Nil
      BY <3>1 DEF Results!ResultsConstants
    <3>4. Results!ReceiptKeys(u.event) \subseteq u.held /\ u.held \subseteq Results!ReceiptKeys(u.event)
      BY <1>5, <2>1, <3>1 DEF Results!Wanted
    <3>5. \A y \in Txn : Results!Receiving(y) /\ y # x => u.held \cap work[y].held = {}
      BY <1>5, <2>1, <3>1
    <3>6. \A h \in u.held, w \in Results!ReceiptKeys(u.event) \ u.held : h < w
      BY <3>4
    <3>7. \A r \in receipts : ~Results!Related(r, u.event)
      BY <2>3, <3>1
    <3>8. Results!LocksExclude'
      BY <1>1, <1>2, <3>1, <3>2, <3>3, <3>4, <3>5, <3>6, <3>7, ReceiptMoves
    <3> QED BY <1>3, <3>1, <3>2, <3>8
  <2> QED BY <1>7, <2>2, <2>3 DEF Results!LookForReceipt, Results!End
<1> QED BY <1>4, <1>6, <1>7

\* get_day for update, a rollback, or nothing at all.
LEMMA OtherStepsKeep ==
  ASSUME Results!ResultsConstants, Results!ResultsInv,
         \/ \E x \in Txn, d \in Day : Results!SelectForUpdate(x, d)
         \/ \E x \in Txn : Results!Rollback(x)
         \/ UNCHANGED Results!vars
  PROVE  Results!ResultsInv'
<1>1. Results!TypeOK /\ Results!ReadIsCurrent /\ Results!LocksExclude
  BY DEF Results!ResultsInv
<1>2. UNCHANGED <<day, results, receipts>>
  BY DEF Results!SelectForUpdate, Results!Rollback, Results!vars
<1>3. ASSUME NEW x \in Txn, NEW d \in Day, Results!SelectForUpdate(x, d)
      PROVE  Results!ResultsInv'
  <2> DEFINE u == [kind |-> "day", day |-> d, read |-> day[d]]
  <2>1. work' = [work EXCEPT ![x] = u] /\ day[d] # Nil /\ Results!Lockable(d)
    BY <1>3 DEF Results!SelectForUpdate
  <2>2. u \in Results!Work /\ u.kind = "day" /\ u.day = d /\ u.read = day[d]
    <3>1. day[d] \in Results!Days
      BY <1>1, <2>1 DEF Results!TypeOK
    <3> QED BY <3>1 DEF Results!Work
  <2> HIDE DEF u
  <2>3. work' \in [Txn -> Results!Work \cup {Nil}] /\ work'[x] = u
        /\ \A y \in Txn : y # x => work'[y] = work[y]
    BY <1>1, <2>1, <2>2 DEF Results!TypeOK
  <2>4. \A y \in Txn : work[y] # Nil /\ work[y].kind = "day" => work[y].day # d
    BY <2>1 DEF Results!Lockable
  <2>5. Results!ReadIsCurrent'
    <3> SUFFICES ASSUME NEW y \in Txn, work'[y] # Nil, work'[y].kind = "day"
                 PROVE  /\ day[work'[y].day] # Nil /\ work'[y].read = day[work'[y].day]
                        /\ \A z \in Txn : work'[z] # Nil /\ work'[z].kind = "day"
                             /\ work'[z].day = work'[y].day => z = y
      BY <1>2 DEF Results!ReadIsCurrent
    <3>1. CASE y = x
      BY <2>1, <2>2, <2>3, <2>4, <3>1
    <3>2. CASE y # x
      BY <1>1, <2>2, <2>3, <2>4, <3>2 DEF Results!ReadIsCurrent
    <3> QED BY <3>1, <3>2
  <2>6. Results!LocksExclude'
    BY <1>1, <1>2, <2>2, <2>3, LocksStay
  <2> QED BY <1>2, <2>3, <2>5, <2>6, TransactionMoves
<1>4. ASSUME NEW x \in Txn, Results!Rollback(x) PROVE Results!ResultsInv'
  <2>1. work' \in [Txn -> Results!Work \cup {Nil}] /\ work'[x] = Nil
        /\ \A y \in Txn : y # x => work'[y] = work[y]
    BY <1>1, <1>4 DEF Results!TypeOK, Results!Rollback, Results!End
  <2>2. Results!ReadIsCurrent' /\ Results!LocksExclude'
    BY <1>1, <1>2, <2>1, ReadStays, LocksStay
  <2> QED BY <1>2, <2>1, <2>2, TransactionMoves
<1>5. ASSUME UNCHANGED Results!vars PROVE Results!ResultsInv'
  <2>1. work' = work
    BY <1>5 DEF Results!vars
  <2>2. Results!ReadIsCurrent' /\ Results!LocksExclude'
    BY <1>1, <1>2, <2>1, ReadStays, LocksStay
  <2> QED BY <1>1, <1>2, <2>1, <2>2, TransactionMoves DEF Results!TypeOK
<1> QED BY <1>3, <1>4, <1>5

\* put_if_absent: what is inserted is related to no receipt, and to nothing
\* that another transaction has looked for, because both would hold its key.
LEMMA InsertReceiptKeeps ==
  ASSUME Results!ResultsConstants, Results!ResultsInv, NEW x \in Txn, Results!InsertReceipt(x)
  PROVE  Results!ResultsInv'
<1>1. /\ Results!TypeOK /\ Results!ReadIsCurrent /\ Results!LocksExclude
      /\ Results!OneReceipt /\ Results!DayAddsUp /\ Results!IsFiniteSet(results)
  BY DEF Results!ResultsInv
<1>2. /\ Results!Receiving(x) /\ work[x].looked
      /\ receipts' = receipts \/ receipts' = receipts \cup {work[x].event}
      /\ work' = [work EXCEPT ![x] = Nil] /\ UNCHANGED <<day, results>>
  BY DEF Results!InsertReceipt, Results!End
<1>3. PICK e : e = work[x].event
  OBVIOUS
<1>4. /\ e \in FinalEvent /\ receipts' \subseteq receipts \cup {e}
      /\ \A r \in receipts : ~Results!Related(r, e)
      /\ Results!ReceiptKeys(e) \subseteq work[x].held
  BY <1>1, <1>2, <1>3, WorkOfResults DEF Results!Receiving, Results!LocksExclude, Results!Wanted
<1>5. work' \in [Txn -> Results!Work \cup {Nil}] /\ work'[x] = Nil
      /\ \A y \in Txn : y # x => work'[y] = work[y]
  BY <1>1, <1>2 DEF Results!TypeOK
<1>6. Results!TypeOK'
  BY <1>1, <1>2, <1>4, <1>5 DEF Results!TypeOK
<1>7. Results!ReadIsCurrent'
  BY <1>1, <1>2, <1>5, ReadStays
<1>8. ASSUME NEW y \in Txn, y # x, Results!Receiving(y), work[y].looked
      PROVE  ~Results!Related(e, work[y].event)
  <2>1. Results!ReceiptKeys(work[y].event) \subseteq work[y].held
    BY <1>1, <1>8 DEF Results!LocksExclude, Results!Wanted
  <2>2. Results!ReceiptKeys(work[y].event) \cap Results!ReceiptKeys(e) = {}
    BY <1>1, <1>2, <1>4, <1>8, <2>1 DEF Results!LocksExclude
  <2> QED BY <2>2 DEF Results!ReceiptKeys, Results!Related
<1>9. Results!LocksExclude'
  <2> SUFFICES ASSUME NEW y \in Txn, work'[y] # Nil, work'[y].kind = "receipt"
               PROVE  /\ work'[y].held \subseteq Results!ReceiptKeys(work'[y].event)
                      /\ \A h \in work'[y].held,
                            w \in Results!ReceiptKeys(work'[y].event) \ work'[y].held : h < w
                      /\ \A z \in Txn : work'[z] # Nil /\ work'[z].kind = "receipt" /\ z # y =>
                            work'[y].held \cap work'[z].held = {}
                      /\ work'[y].looked =>
                           /\ Results!ReceiptKeys(work'[y].event) \ work'[y].held = {}
                           /\ \A r \in receipts' : ~Results!Related(r, work'[y].event)
    BY DEF Results!LocksExclude, Results!Receiving, Results!Wanted, Results!ReceiptKeys,
         Results!Related
  <2>1. y # x /\ work'[y] = work[y] /\ Results!Receiving(y)
    BY <1>5 DEF Results!Receiving
  <2>2. work[y].looked => \A r \in receipts' : ~Results!Related(r, work[y].event)
    BY <1>1, <1>4, <1>8, <2>1 DEF Results!LocksExclude
  <2> QED BY <1>1, <1>5, <2>1, <2>2 DEF Results!LocksExclude, Results!Receiving, Results!Wanted
<1>10. Results!OneReceipt'
  <2>1. \A r, s : Results!Related(r, s) <=> Results!Related(s, r)
    BY DEF Results!Related
  <2>2. \A r, s \in receipts' : Results!Related(r, s) => r = s
    BY <1>1, <1>4, <2>1 DEF Results!OneReceipt
  <2> QED BY <2>2 DEF Results!OneReceipt, Results!Related
<1>11. Results!DayAddsUp' /\ Results!IsFiniteSet(results')
  BY <1>1, <1>2, SameFinite DEF Results!DayAddsUp, Results!AddsUp, Results!Posted
<1> QED BY <1>6, <1>7, <1>9, <1>10, <1>11 DEF Results!ResultsInv

\* The rows of accounting days add up and receipts exclude each other, with
\* what the transactions under way have read and locked.
THEOREM ResultsInvariant == Results!Spec => []Results!ResultsInv
<1> USE ResultsAssumption
<1>1. Results!Init => Results!ResultsInv
  <2> SUFFICES ASSUME Results!Init PROVE Results!ResultsInv
    OBVIOUS
  <2>1. /\ day = [d \in Day |-> Nil] /\ results = {} /\ receipts = {}
        /\ work = [x \in Txn |-> Nil]
    BY DEF Results!Init
  <2>2. Results!TypeOK /\ Results!OneReceipt /\ Results!ReadIsCurrent /\ Results!LocksExclude
    BY <2>1 DEF Results!TypeOK, Results!OneReceipt, Results!ReadIsCurrent, Results!LocksExclude,
         Results!Receiving
  <2>3. Results!IsFiniteSet(results)
    BY <2>1, SameFinite, FS_EmptySet
  <2>4. Results!DayAddsUp
    BY <2>1 DEF Results!DayAddsUp, Results!AddsUp, Results!Posted
  <2> QED BY <2>2, <2>3, <2>4 DEF Results!ResultsInv
<1>2. Results!ResultsInv /\ [Results!Next]_(Results!vars) => Results!ResultsInv'
  BY RecordDayKeeps, DayWritersKeep, ReceiptStepsKeep, InsertReceiptKeeps, OtherStepsKeep
     DEF Results!Next
<1> QED BY <1>1, <1>2, PTL DEF Results!Spec

\* In a circle of receipts someone wants the largest key that any of them
\* wants; who holds that key took it in ascending order and wants a larger one.
LEMMA NoCircle ==
  ASSUME Results!ResultsConstants, Results!TypeOK, Results!LocksExclude
  PROVE  Results!NoLockCycle
<1> SUFFICES ASSUME NEW S \in SUBSET {x \in Txn : Results!Receiving(x)}, S # {},
                    \A x \in S : Results!Wanted(x) # {},
                    \A x \in S : \A k \in Results!Wanted(x) : \E y \in S : k \in work[y].held
             PROVE  FALSE
  BY DEF Results!NoLockCycle
<1>1. ASSUME NEW x \in S
      PROVE  /\ x \in Txn /\ Results!Receiving(x) /\ Results!Wanted(x) \subseteq Results!Keys
             /\ \A h \in work[x].held, w \in Results!Wanted(x) : h < w
  <2>1. x \in Txn /\ Results!Receiving(x)
    OBVIOUS
  <2>2. work[x].event \in FinalEvent
    BY <2>1, WorkOfResults DEF Results!Receiving
  <2> QED BY <2>1, <2>2 DEF Results!LocksExclude, Results!Wanted, Results!ResultsConstants
<1> DEFINE Q == {MaxKey - k : k \in UNION {Results!Wanted(x) : x \in S}}
<1>2. MaxKey \in Nat /\ \A k \in Results!Keys : k \in Int /\ MaxKey - k \in Nat
  BY DEF Results!Keys, Results!ResultsConstants
<1>3. Q \in SUBSET Nat /\ Q # {}
  BY <1>1, <1>2
<1>4. PICK m \in Q : \A n \in Q : m <= n
  BY <1>3, LeastExists
<1>5. PICK x \in S : \E k \in Results!Wanted(x) : m = MaxKey - k
  BY <1>4
<1>6. PICK k \in Results!Wanted(x) : m = MaxKey - k
  BY <1>5
<1>7. PICK y \in S : k \in work[y].held
  BY <1>6
<1>8. PICK j \in Results!Wanted(y) : k < j
  BY <1>1, <1>7
<1>9. MaxKey - k <= MaxKey - j
  BY <1>4, <1>6, <1>8
<1> QED BY <1>1, <1>2, <1>6, <1>8, <1>9

\* No result is lost or counted twice, a result and a tranche have one receipt
\* and receipts never wait for each other in a circle: for any results, days
\* and keys, and any number of transactions.
THEOREM ResultsAreKept == Results!Spec => []ResultsHold
<1> USE ResultsAssumption
<1>1. Results!ResultsInv => ResultsHold
  BY NoCircle DEF Results!ResultsInv, ResultsHold, Results!ResultsHold
<1> QED BY <1>1, ResultsInvariant, PTL

\* A day that was latched stays latched and keeps its base, whoever read the
\* day before it was latched.
THEOREM LatchesHold == Results!Spec => LatchHolds
<1> USE ResultsAssumption
<1> DEFINE Kept == \A d \in Day : day[d] # Nil =>
                     /\ day'[d].base = day[d].base
                     /\ day[d].latched => day'[d].latched
<1>1. ASSUME Results!ResultsInv, [Results!Next]_(Results!vars) PROVE Kept \/ UNCHANGED Results!vars
  <2>1. Results!TypeOK /\ Results!ReadIsCurrent
    BY <1>1 DEF Results!ResultsInv
  <2>2. CASE day' = day
    BY <2>2
  <2>3. ASSUME NEW o \in Opening, Results!RecordDay(o) PROVE Kept
    BY <2>1, <2>3 DEF Results!RecordDay, Results!TypeOK
  <2>4. ASSUME NEW x \in Txn, work[x] # Nil, work[x].kind = "day", NEW n, n \in Results!Days,
               day' = [day EXCEPT ![work[x].day] = n],
               n.base = work[x].read.base, work[x].read.latched => n.latched
        PROVE  Kept
    <3>1. work[x].day \in Day /\ work[x].read = day[work[x].day]
      BY <2>1, <2>4, WorkOfResults DEF Results!ReadIsCurrent
    <3> QED BY <2>1, <2>4, <3>1 DEF Results!TypeOK
  <2>5. ASSUME NEW x \in Txn, work[x] # Nil, work[x].kind = "day"
        PROVE  work[x].read \in Results!Days
    BY <2>1, <2>5, WorkOfResults
  <2>6. ASSUME NEW x \in Txn, NEW u \in Unrealized, Results!UpdateLiveMetrics(x, u) PROVE Kept
    <3>1. u \in Int
      BY DEF Results!ResultsConstants
    <3> DEFINE n == Results!LiveMetrics(work[x].read, u)
    <3>2. work[x] # Nil /\ work[x].kind = "day" /\ day' = [day EXCEPT ![work[x].day] = n]
      BY <2>6 DEF Results!UpdateLiveMetrics, Results!Update
    <3>3. n \in Results!Days /\ n.base = work[x].read.base /\ n.latched = work[x].read.latched
      BY <2>5, <3>1, <3>2, RowsComputed
    <3> HIDE DEF n, Kept
    <3> QED BY <2>4, <3>2, <3>3
  <2>7. ASSUME NEW x \in Txn, NEW p \in Posting, Results!PostFinalResult(x, p) PROVE Kept
    <3>1. p.pnl \in Int
      BY DEF Results!ResultsConstants
    <3> DEFINE n == Results!ApplyFinalResult(work[x].read, p.pnl)
    <3>2. work[x] # Nil /\ work[x].kind = "day" /\ day' = [day EXCEPT ![work[x].day] = n]
      BY <2>7 DEF Results!PostFinalResult, Results!Update
    <3>3. n \in Results!Days /\ n.base = work[x].read.base /\ n.latched = work[x].read.latched
      BY <2>5, <3>1, <3>2, RowsComputed
    <3> HIDE DEF n, Kept
    <3> QED BY <2>4, <3>2, <3>3
  <2>8. ASSUME NEW x \in Txn, Results!LatchDailyLoss(x) PROVE Kept
    <3> DEFINE n == [work[x].read EXCEPT !.latched = TRUE]
    <3>1. work[x] # Nil /\ work[x].kind = "day" /\ day' = [day EXCEPT ![work[x].day] = n]
      BY <2>8 DEF Results!LatchDailyLoss, Results!Update
    <3>2. n \in Results!Days /\ n.base = work[x].read.base /\ n.latched
      BY <2>5, <3>1, LatchComputed
    <3> HIDE DEF n, Kept
    <3> QED BY <2>4, <3>1, <3>2
  <2> HIDE DEF Kept
  <2> QED BY <1>1, <2>2, <2>3, <2>6, <2>7, <2>8 DEF Results!Next, Results!SelectForUpdate,
             Results!BeginReceipt, Results!AcquireLock, Results!LookForReceipt,
             Results!InsertReceipt, Results!Rollback
<1>2. Results!ResultsInv /\ [Results!Next]_(Results!vars) => [Kept]_(Results!vars)
  BY <1>1
<1>3. Results!Spec => [][Kept]_(Results!vars)
  BY <1>2, ResultsInvariant, PTL DEF Results!Spec
<1> QED BY <1>3 DEF LatchHolds, Results!LatchHolds
=============================================================================

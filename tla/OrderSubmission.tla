--------------------------- MODULE OrderSubmission ---------------------------
(***************************************************************************)
(* From an approved construction to one exchange order: the order spec,    *)
(* submit authorization, start gate and submission intent tables, and the  *)
(* dispatch cutpoint that Lifecycle persists before it calls the exchange  *)
(* (order_spec_store, submit_authorization_store,                          *)
(* lifecycle_start_gate_store and lifecycle_submission_store, with the     *)
(* validation modules they call).                                          *)
(*                                                                         *)
(* Each INSERT ... ON CONFLICT DO NOTHING is one step: PostgreSQL makes a   *)
(* second insert of a unique key wait for the first to commit.  A call     *)
(* that finds an equal row, or raises a conflict, changes nothing and is   *)
(* no action here.  The callers that dispatch the create, and the          *)
(* exchange, which refuses a second order under a used client order id,    *)
(* are not in the repository; they are modelled as freely as the stores    *)
(* allow: any caller may try any call at any time, and may crash.          *)
(***************************************************************************)
EXTENDS Naturals, FiniteSets

CONSTANTS
    Construction,   \* construction result payloads the callers hand in
    ResultOf,       \* ResultOf[c]: construction_result_id
    SpecOf,         \* SpecOf[c]: order_spec_id
    DigestOf,       \* DigestOf[c]: order_spec_digest
    TrancheOf,      \* TrancheOf[c]: tranche_id
    GrantOf,        \* GrantOf[c]: capital_grant_id
    CapitalOf,      \* CapitalOf[c]: approved_actual_committed_capital
    CapacityOf,     \* CapacityOf[c]: least of the grant's three capital limits
    SlotsOf,        \* SlotsOf[c]: least of the grant's two slot counts
    AuthId,         \* authorization ids
    IntentId,       \* submission intent ids
    ClientId,       \* native client order ids
    HashedId,       \* HashedId[s]: lifecycle_client_order_id of spec s
    Cutpoint,       \* dispatch cutpoint ids
    Caller,         \* Lifecycle processes that dispatch creates
    Nil             \* NULL

ASSUME SubmissionAssumption ==
    /\ CapitalOf \in [Construction -> Nat]
    /\ CapacityOf \in [Construction -> Nat]
    /\ SlotsOf \in [Construction -> Nat]
    /\ HashedId \in [{SpecOf[c] : c \in Construction} -> ClientId]

Gate      == [con : Construction, auth : AuthId]
States    == {"READY_TO_SUBMIT", "SUBMITTING", "SUBMISSION_UNCERTAIN", "SUBMITTED"}
IntentRow == [gate : Gate, client : ClientId, state : States, cutpoint : Cutpoint \cup {Nil}]
NoteKind  == {"dispatch", "uncertain", "submitted", "arrival"}
Pc        == {"idle", "create", "await", "uncertain"}

ASSUME NilAssumption == Nil \notin IntentRow /\ Nil \notin Cutpoint

VARIABLES
    specs,          \* constructions whose order spec row is committed
    holds,          \* committed submit authorizations: [auth, con]
    gates,          \* committed start gates: [con, auth]
    intents,        \* submission intent rows: Nil or a row of IntentRow
    notes,          \* lifecycle_submission_observation records: <<intent, kind>>
    pc,             \* control point of each caller
    job,            \* intent the caller is dispatching
    mine,           \* cutpoint under which the caller dispatches
    wire,           \* client order ids of create requests in flight
    orders          \* client order ids under which the exchange has an order

caller == <<pc, job, mine>>
vars   == <<specs, holds, gates, intents, notes, caller, wire, orders>>

Rows == {i \in IntentId : intents[i] # Nil}

Init ==
    /\ specs = {} /\ holds = {} /\ gates = {} /\ notes = {}
    /\ intents = [i \in IntentId |-> Nil]
    /\ pc = [p \in Caller |-> "idle"]
    /\ job = [p \in Caller |-> Nil]
    /\ mine = [p \in Caller |-> Nil]
    /\ wire = {} /\ orders = {}

-----------------------------------------------------------------------------
(* Position records the order spec, Portfolio the submission hold *)

\* UNIQUE order_spec_id and construction_result_id.
RecordSpec(c) ==
    /\ \A d \in specs : SpecOf[d] # SpecOf[c] /\ ResultOf[d] # ResultOf[c]
    /\ specs' = specs \cup {c}
    /\ UNCHANGED <<holds, gates, intents, caller, wire, orders, notes>>

\* _validate_capacity: the hold fits the grant's remaining capital and slots.
Capacity(c) == CapitalOf[c] <= CapacityOf[c] /\ SlotsOf[c] >= 1

\* UNIQUE authorization_id, capital_grant_id, construction_result_id, order_spec_id.
Authorize(a, c) ==
    /\ Capacity(c)
    /\ \A h \in holds : /\ h.auth # a
                        /\ ResultOf[h.con] # ResultOf[c]
                        /\ GrantOf[h.con] # GrantOf[c]
                        /\ SpecOf[h.con] # SpecOf[c]
    /\ holds' = holds \cup {[auth |-> a, con |-> c]}
    /\ UNCHANGED <<specs, gates, intents, caller, wire, orders, notes>>

-----------------------------------------------------------------------------
(* Lifecycle matches the two and opens the start gate *)

\* Mutant: the gate compares ids and not the content digest.
MatchByIdentity(c, d) == /\ ResultOf[c] = ResultOf[d] /\ GrantOf[c] = GrantOf[d]
                         /\ SpecOf[c] = SpecOf[d] /\ TrancheOf[c] = TrancheOf[d]

\* match_lifecycle_start_gate: identity, digest and committed capital agree.
Match(c, d) ==
    /\ ResultOf[c] = ResultOf[d]
    /\ GrantOf[c] = GrantOf[d]
    /\ SpecOf[c] = SpecOf[d]
    /\ TrancheOf[c] = TrancheOf[d]
    /\ DigestOf[c] = DigestOf[d]
    /\ CapitalOf[c] = CapitalOf[d]

\* UNIQUE start_gate_id (a hash of spec and authorization), order_spec_id,
\* authorization_id and tranche_id.
GateFree(c, a) ==
    \A g \in gates : /\ SpecOf[g.con] # SpecOf[c]
                     /\ g.auth # a
                     /\ TrancheOf[g.con] # TrancheOf[c]

\* Either message's handler looks the other contract up by order_spec_id.
AcceptGate(c, h) ==
    /\ c \in specs /\ h \in holds
    /\ SpecOf[h.con] = SpecOf[c]
    /\ Match(c, h.con)
    /\ GateFree(c, h.auth)
    /\ gates' = gates \cup {[con |-> c, auth |-> h.auth]}
    /\ UNCHANGED <<specs, holds, intents, caller, wire, orders, notes>>

-----------------------------------------------------------------------------
(* The submission intent and its dispatch cutpoint *)

\* Mutant: prepare checks the intent id only.
IntentFreeByIdOnly(i, g, cl) == i \notin Rows

\* UNIQUE submission_intent_id, start_gate_id, order_spec_id,
\* authorization_id, tranche_id and target_client_order_id.
IntentFree(i, g, cl) ==
    /\ i \notin Rows
    /\ \A k \in Rows : LET r == intents[k] IN
          /\ r.gate # g
          /\ SpecOf[r.gate.con] # SpecOf[g.con]
          /\ r.gate.auth # g.auth
          /\ TrancheOf[r.gate.con] # TrancheOf[g.con]
          /\ r.client # cl

\* The caller's target_client_order_id, or else the spec's hash.
ClientOrderId(g, target) == IF target = Nil THEN HashedId[SpecOf[g.con]] ELSE target

Prepare(i, g, cl) ==
    /\ g \in gates
    /\ IntentFree(i, g, cl)
    /\ intents' = [intents EXCEPT ![i] =
                     [gate |-> g, client |-> cl, state |-> "READY_TO_SUBMIT", cutpoint |-> Nil]]
    /\ UNCHANGED <<specs, holds, gates, caller, wire, orders, notes>>

SetState(i, s) == intents' = [intents EXCEPT ![i].state = s]
GoTo(p, l)     == pc' = [pc EXCEPT ![p] = l]

\* _record_observation: put_if_absent under the intent and observation id.
Observe(i, kind) == notes' = notes \cup {<<i, kind>>}

\* Mutant: the create is sent before the cutpoint is written.
MarkSubmittingUnpersisted(p, i, k) ==
    /\ pc[p] = "idle" /\ i \in Rows
    /\ GoTo(p, "create")
    /\ job' = [job EXCEPT ![p] = i]
    /\ mine' = [mine EXCEPT ![p] = k]
    /\ UNCHANGED <<specs, holds, gates, intents, wire, orders, notes>>

\* mark_submitting, committed.  A replay of the active cutpoint returns the
\* row, and its caller may send the create a second time.
MarkSubmitting(p, i, k) ==
    /\ pc[p] = "idle" /\ i \in Rows
    /\ \/ /\ intents[i].state = "READY_TO_SUBMIT"
          /\ intents' = [intents EXCEPT ![i].state = "SUBMITTING", ![i].cutpoint = k]
       \/ /\ intents[i].state = "SUBMITTING" /\ intents[i].cutpoint = k
          /\ UNCHANGED intents
    /\ Observe(i, "dispatch")
    /\ GoTo(p, "create")
    /\ job' = [job EXCEPT ![p] = i]
    /\ mine' = [mine EXCEPT ![p] = k]
    /\ UNCHANGED <<specs, holds, gates, wire, orders>>

\* The create leaves the process; its answer may never come.
SendCreate(p) ==
    /\ pc[p] = "create"
    /\ wire' = wire \cup {intents[job[p]].client}
    /\ GoTo(p, "await")
    /\ UNCHANGED <<specs, holds, gates, intents, job, mine, orders, notes>>

\* mark_uncertain reads the row ...
ReadForUncertain(p) ==
    /\ pc[p] = "await"
    /\ intents[job[p]].cutpoint = mine[p]
    /\ intents[job[p]].state \in {"SUBMITTING", "SUBMISSION_UNCERTAIN"}
    /\ GoTo(p, "uncertain")
    /\ UNCHANGED <<specs, holds, gates, intents, job, mine, wire, orders, notes>>

\* Mutant: the state is not checked again at the write.
UncertainableUnchecked(i) == TRUE

Uncertainable(i) == intents[i].state \in {"SUBMITTING", "SUBMISSION_UNCERTAIN"}

\* ... records the observation and updates the row under WHERE
\* lifecycle_state IN (...).  A row that became SUBMITTED in between makes the
\* call raise and roll the observation back with it.
WriteUncertain(p) ==
    /\ pc[p] = "uncertain"
    /\ IF Uncertainable(job[p])
       THEN SetState(job[p], "SUBMISSION_UNCERTAIN") /\ Observe(job[p], "uncertain")
       ELSE UNCHANGED <<intents, notes>>
    /\ GoTo(p, "idle")
    /\ UNCHANGED <<specs, holds, gates, job, mine, wire, orders>>

\* mark_submitted, by a caller that saw the exchange order under the intent's
\* client order id: the answer to its create, or a later query.
MarkSubmitted(i) ==
    /\ i \in Rows
    /\ intents[i].client \in orders
    /\ intents[i].state \in {"SUBMITTING", "SUBMISSION_UNCERTAIN"}
    /\ SetState(i, "SUBMITTED")
    /\ Observe(i, "submitted")
    /\ UNCHANGED <<specs, holds, gates, caller, wire, orders>>

\* record_arrival_observation: evidence on the attempt that changes no row.
RecordArrival(i) ==
    /\ i \in Rows
    /\ Observe(i, "arrival")
    /\ UNCHANGED <<specs, holds, gates, intents, caller, wire, orders>>

\* The caller leaves its attempt: the answer came, the row refused its call,
\* or the process died.
Crash(p) ==
    /\ pc[p] # "idle"
    /\ GoTo(p, "idle")
    /\ UNCHANGED <<specs, holds, gates, intents, job, mine, wire, orders, notes>>

-----------------------------------------------------------------------------
(* The exchange and the network *)

ExchangeCreate(cl) ==
    /\ cl \in wire
    /\ orders' = orders \cup {cl}
    /\ UNCHANGED <<specs, holds, gates, intents, caller, wire, notes>>

LoseRequest(cl) ==
    /\ cl \in wire
    /\ wire' = wire \ {cl}
    /\ UNCHANGED <<specs, holds, gates, intents, caller, orders, notes>>

Next ==
    \/ \E c \in Construction : RecordSpec(c)
    \/ \E a \in AuthId, c \in Construction : Authorize(a, c)
    \/ \E c \in Construction, h \in holds : AcceptGate(c, h)
    \/ \E i \in IntentId, g \in gates, t \in ClientId \cup {Nil} : Prepare(i, g, ClientOrderId(g, t))
    \/ \E p \in Caller, i \in IntentId, k \in Cutpoint : MarkSubmitting(p, i, k)
    \/ \E p \in Caller : SendCreate(p)
    \/ \E p \in Caller : ReadForUncertain(p)
    \/ \E p \in Caller : WriteUncertain(p)
    \/ \E i \in IntentId : MarkSubmitted(i)
    \/ \E i \in IntentId : RecordArrival(i)
    \/ \E p \in Caller : Crash(p)
    \/ \E cl \in ClientId : ExchangeCreate(cl)
    \/ \E cl \in ClientId : LoseRequest(cl)

Spec == Init /\ [][Next]_vars

-----------------------------------------------------------------------------
(* Properties *)

\* Every variable keeps the shape of its table or register.
TypeOK ==
    /\ specs \subseteq Construction
    /\ holds \subseteq [auth : AuthId, con : Construction]
    /\ gates \subseteq Gate
    /\ intents \in [IntentId -> IntentRow \cup {Nil}]
    /\ notes \subseteq IntentId \X NoteKind
    /\ pc \in [Caller -> Pc]
    /\ job \in [Caller -> IntentId \cup {Nil}]
    /\ mine \in [Caller -> Cutpoint \cup {Nil}]
    /\ wire \subseteq ClientId /\ orders \subseteq ClientId

\* The row that authorised a create under client order id cl.
Dispatched(cl) == {i \in Rows : intents[i].client = cl /\ intents[i].state # "READY_TO_SUBMIT"}

\* Write-ahead: whatever crashes or is lost, a create that is in flight or
\* was accepted has a row past its dispatch cutpoint, so unresolved() or the
\* submitted row finds it again ("Persist create-intent/client-order
\* authority before exchange side effects", LifecycleSubmissionStore).
WriteAhead == \A cl \in wire \cup orders : Dispatched(cl) # {}

\* Retries, crashes and racing callers leave at most one exchange order for a
\* tranche (the UNIQUE keys of the gate and intent tables and the persisted
\* client order id together).
OneOrderPerTranche ==
    \A cl, dl \in orders : \A i \in Dispatched(cl), k \in Dispatched(dl) :
        TrancheOf[intents[i].gate.con] = TrancheOf[intents[k].gate.con] => cl = dl

\* An exchange order's capital is held: its authorization is of the same
\* order spec content, holds the spec's committed capital, and stays within
\* what the grant had left (authorize and match_lifecycle_start_gate).
OrderIsHeld ==
    \A cl \in orders : \A i \in Dispatched(cl) :
        LET g == intents[i].gate IN
        \E h \in holds : /\ h.auth = g.auth
                         /\ DigestOf[h.con] = DigestOf[g.con]
                         /\ CapitalOf[g.con] <= CapacityOf[h.con]

\* The identity of an attempt is final: no step changes a row's gate or client
\* order id, takes back its cutpoint or an observation, moves it out of
\* SUBMITTED or notes it as uncertain after that (mark_uncertain's stale read).
AttemptIsFinal ==
    [][\A i \in Rows : LET r == intents[i] IN
          /\ \A kind \in NoteKind : <<i, kind>> \in notes => <<i, kind>> \in notes'
          /\ r.state = "SUBMITTED" /\ <<i, "uncertain">> \in notes' => <<i, "uncertain">> \in notes
          /\ i \in Rows' /\ intents'[i].gate = r.gate /\ intents'[i].client = r.client
          /\ r.cutpoint # Nil => intents'[i].cutpoint = r.cutpoint
          /\ r.state = "SUBMITTED" => intents'[i].state = "SUBMITTED"]_vars

-----------------------------------------------------------------------------
(* The inductive invariant: the properties need it, for instance, that the
   caller's job names a row past its cutpoint, and that rows differ. *)

GateIsMatched == \A g \in gates : \E h \in holds : h.auth = g.auth /\ Match(g.con, h.con)
HoldsFit      == \A h \in holds : Capacity(h.con)
RowsHaveGate  == \A i \in Rows : intents[i].gate \in gates
RowsDistinct  == \A i, k \in Rows : i # k =>
                    /\ intents[i].client # intents[k].client
                    /\ TrancheOf[intents[i].gate.con] # TrancheOf[intents[k].gate.con]
CutpointFirst == \A i \in Rows : intents[i].state # "READY_TO_SUBMIT" <=> intents[i].cutpoint # Nil
JobIsPersisted == \A p \in Caller : pc[p] # "idle" =>
                    job[p] \in Rows /\ intents[job[p]].state # "READY_TO_SUBMIT"

SubmissionInv ==
    /\ TypeOK
    /\ GateIsMatched
    /\ HoldsFit
    /\ RowsHaveGate
    /\ RowsDistinct
    /\ CutpointFirst
    /\ JobIsPersisted
    /\ WriteAhead

=============================================================================

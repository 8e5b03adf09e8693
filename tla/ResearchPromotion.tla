-------------------------- MODULE ResearchPromotion --------------------------
(***************************************************************************)
(* The promotion of researches from the SQLite research store: run records *)
(* and selections, archiving, the operator's promotion command with its    *)
(* audit, the governance request in PostgreSQL, and the legacy promotion   *)
(* that activates the tested pair of set and rules directly.               *)
(*                                                                         *)
(* SQLite begins a transaction at the first write, so the store's check    *)
(* that a research is not archived is a read of its own.  A promotion      *)
(* takes the write lock first (BEGIN IMMEDIATE) and commits its request in *)
(* PostgreSQL while it holds it.                                           *)
(***************************************************************************)
EXTENDS Naturals, FiniteSets

CONSTANTS
    Research,     \* researches over sets of one symbol and timeframe
    Principal,    \* operators
    Key,          \* idempotency keys of promotion commands
    Client,       \* concurrent requests
    SetOf,        \* the set version each research pins
    RulesOf,      \* the rules version each research pins
    Promotable,   \* rules that enable the set's symbol, without a dynamic take profit
    InitialSet, InitialRules,  \* the active pair at the start
    None,
    MaxRequest    \* bound: requests

PinnedSet == {InitialSet} \cup {SetOf[r] : r \in Research}
RulesVersion == {InitialRules} \cup {RulesOf[r] : r \in Research}
StoreOps == {"addBacktest", "selectBacktest", "addDemo", "stopDemo", "selectDemo"}

\* The audited command, the governance request, and a request in progress.
AuditRow == [r : Research, who : Principal]
Payload == [r : Research, at : Nat, previous : (SUBSET PinnedSet) \X RulesVersion]
StoreRequest == [op : StoreOps, r : Research]
Command == [op : {"request", "makeActive", "governed"}, r : Research, k : Key, at : Nat]

PromotionConstants ==
    /\ SetOf \in [Research -> PinnedSet] /\ RulesOf \in [Research -> RulesVersion]
    /\ InitialSet \notin {SetOf[r] : r \in Research}
    /\ None \notin AuditRow \cup Payload

VARIABLES
    entity,       \* research_entities: status, decision and selections
    backtest,     \* the status of each research's backtest run
    demo,         \* the status of each research's demo run
    sets,         \* trigger_set_versions: status per set version
    rules,        \* trading_rules_current for the live scope
    audit,        \* the audited promotion commands, by key
    governance,   \* the governance requests in PostgreSQL, by key
    req,          \* the request each client executes
    writer,       \* the client that holds SQLite's write lock
    count         \* requests so far (the bound, and the request's time)

researchTables == <<entity, backtest, demo>>
vars == <<researchTables, sets, rules, audit, governance, req, writer, count>>

Free == [op |-> "idle"]

Init ==
    /\ backtest \in [Research -> {"NONE", "COMPLETED"}]
    /\ entity = [r \in Research |->
                    [status |-> IF backtest[r] = "NONE" THEN "DRAFT" ELSE "BACKTEST_READY",
                     decision |-> "NONE", key |-> None, selB |-> FALSE, selD |-> FALSE]]
    /\ demo = [r \in Research |-> "NONE"]
    /\ sets = [s \in PinnedSet |-> IF s = InitialSet THEN "ACTIVE" ELSE "TESTING"]
    /\ rules = InitialRules
    /\ audit = [k \in Key |-> None] /\ governance = [k \in Key |-> None]
    /\ req = [c \in Client |-> Free]
    /\ writer = None /\ count = 0

-----------------------------------------------------------------------------
(* The research store *)

OpAllowed(op, r) ==
    CASE op = "addBacktest" -> backtest[r] = "NONE"
      [] op = "selectBacktest" -> backtest[r] = "COMPLETED"
      [] op = "addDemo" -> demo[r] = "NONE"
      [] op = "stopDemo" -> demo[r] = "RUNNING"
      [] op = "selectDemo" -> demo[r] = "STOPPED"

\* _ensure_mutable_research and the run's status, read before the write.
CheckMutable(c, op, r) ==
    /\ req[c] = Free /\ count < MaxRequest
    /\ op \in StoreOps
    /\ entity[r].status # "ARCHIVED" /\ OpAllowed(op, r)
    /\ req' = [req EXCEPT ![c] = [op |-> op, r |-> r]]
    /\ count' = count + 1
    /\ UNCHANGED <<researchTables, sets, rules, audit, governance, writer>>

\* _update_research_status leaves an archived research alone; the selections
\* write the status themselves.
Status(r, st) == IF entity[r].status = "ARCHIVED" THEN "ARCHIVED" ELSE st

WriteRun(c) ==
    LET r == req[c].r IN
    /\ writer = None
    /\ \/ /\ req[c].op = "addBacktest"
          /\ \E st \in {"COMPLETED", "FAILED"} :
                /\ backtest' = [backtest EXCEPT ![r] = st]
                /\ entity' = [entity EXCEPT ![r].status =
                      Status(r, IF st = "COMPLETED" THEN "BACKTEST_READY" ELSE "FAILED")]
          /\ UNCHANGED demo
       \/ /\ req[c].op \in {"addDemo", "stopDemo"}
          /\ demo' = [demo EXCEPT ![r] = IF req[c].op = "addDemo" THEN "RUNNING" ELSE "STOPPED"]
          /\ entity' = [entity EXCEPT ![r].status =
                Status(r, IF req[c].op = "addDemo" THEN "DEMO_RUNNING" ELSE "DEMO_STOPPED")]
          /\ UNCHANGED backtest
       \/ /\ req[c].op = "selectBacktest"
          /\ entity' = [entity EXCEPT ![r].selB = TRUE, ![r].status = "BACKTEST_READY"]
          /\ UNCHANGED <<backtest, demo>>
       \/ /\ req[c].op = "selectDemo"
          /\ entity' = [entity EXCEPT ![r].selD = TRUE, ![r].status = "DECISION_NEEDED"]
          /\ UNCHANGED <<backtest, demo>>
    /\ req' = [req EXCEPT ![c] = Free]
    /\ UNCHANGED <<sets, rules, audit, governance, writer, count>>

ArchiveResearch(r) ==
    /\ writer = None /\ count < MaxRequest
    /\ entity' = [entity EXCEPT ![r].status = "ARCHIVED", ![r].decision = "ARCHIVE"]
    /\ count' = count + 1
    /\ UNCHANGED <<backtest, demo, sets, rules, audit, governance, req, writer>>

-----------------------------------------------------------------------------
(* The promotion command *)

\* Mutant: the audit of a key accepts any research.
AuditAcceptsMutant(k, r, p) == TRUE
AuditAccepts(k, r, p) == audit[k] \in {None, [r |-> r, who |-> p]}

\* _audit_promotion_command, before anything else is written.
PromotionCommand(c, r, k, p, op) ==
    /\ req[c] = Free /\ count < MaxRequest
    /\ op \in {"request", "makeActive"}
    /\ writer = None /\ AuditAccepts(k, r, p)
    /\ audit' = [audit EXCEPT ![k] = IF @ = None THEN [r |-> r, who |-> p] ELSE @]
    /\ req' = [req EXCEPT ![c] = [op |-> op, r |-> r, k |-> k, at |-> count]]
    /\ count' = count + 1
    /\ UNCHANGED <<researchTables, sets, rules, governance, writer>>

\* _locked_promotion_block_reason and _promotion_evidence_block_reason.
Blocked(r) ==
    \/ sets[SetOf[r]] \notin {"TESTING", "ACTIVE"}
    \/ RulesOf[r] \notin Promotable
    \/ demo[r] = "RUNNING"
    \/ ~entity[r].selB /\ ~entity[r].selD
    \/ entity[r].selB /\ backtest[r] # "COMPLETED"
    \/ entity[r].selD /\ demo[r] # "STOPPED"

ActiveSets == {s \in PinnedSet : sets[s] = "ACTIVE"}

\* The command that requested the promotion is answered with its result.
Replayed(k, r) == entity[r].decision = "PROMOTION_REQUESTED" /\ entity[r].key = k

\* An archived research is refused; a block is recorded as the decision.  A
\* service without a governance store blocks every request.
RecordBlock(c) ==
    LET r == req[c].r IN
    /\ req[c].op \in {"request", "makeActive"} /\ writer = None
    /\ ~(req[c].op = "makeActive" /\ Replayed(req[c].k, r) /\ entity[r].status # "ARCHIVED")
    /\ \/ entity[r].status = "ARCHIVED" /\ UNCHANGED entity
       \/ /\ entity[r].status # "ARCHIVED"
          /\ Blocked(r) \/ req[c].op = "request"
          /\ entity' = [entity EXCEPT ![r].decision = "MAKE_ACTIVE_BLOCKED"]
    /\ req' = [req EXCEPT ![c] = Free]
    /\ UNCHANGED <<backtest, demo, sets, rules, audit, governance, writer, count>>

\* The request is committed in PostgreSQL under the key; the same key with
\* another time or rollback pair is a conflict, which rolls SQLite back.
RequestGovernance(c) ==
    LET q == req[c]
        payload == [r |-> q.r, at |-> q.at, previous |-> <<ActiveSets, rules>>] IN
    /\ q.op = "request" /\ writer = None
    /\ entity[q.r].status # "ARCHIVED" /\ ~Blocked(q.r)
    /\ IF governance[q.k] \in {None, payload}
       THEN /\ governance' = [governance EXCEPT ![q.k] = payload]
            /\ req' = [req EXCEPT ![c] = [q EXCEPT !.op = "governed"]]
            /\ writer' = c
       ELSE /\ req' = [req EXCEPT ![c] = Free]
            /\ UNCHANGED <<governance, writer>>
    /\ UNCHANGED <<researchTables, sets, rules, audit, count>>

RecordRequested(c) ==
    /\ req[c].op = "governed"
    /\ entity' = [entity EXCEPT ![req[c].r].status = "DECISION_NEEDED",
                                ![req[c].r].decision = "PROMOTION_REQUESTED",
                                ![req[c].r].key = req[c].k]
    /\ req' = [req EXCEPT ![c] = Free]
    /\ writer' = None
    /\ UNCHANGED <<backtest, demo, sets, rules, audit, governance, count>>

\* Mutant: the rules become current in a transaction of their own.
ActivateMutant(r) ==
    /\ sets' = [s \in PinnedSet |-> IF s = SetOf[r] THEN "ACTIVE"
                                     ELSE IF sets[s] = "ACTIVE" THEN "ARCHIVE" ELSE sets[s]]
    /\ UNCHANGED rules
\* The active set of the symbol is archived, the tested set activated and the
\* tested rules made current in one transaction.
Activate(r) ==
    /\ sets' = [s \in PinnedSet |-> IF s = SetOf[r] THEN "ACTIVE"
                                     ELSE IF sets[s] = "ACTIVE" THEN "ARCHIVE" ELSE sets[s]]
    /\ rules' = RulesOf[r]

MakeActive(c) ==
    LET r == req[c].r IN
    /\ req[c].op = "makeActive" /\ writer = None
    /\ entity[r].status # "ARCHIVED"
    /\ \/ /\ Replayed(req[c].k, r)
          /\ UNCHANGED <<entity, sets, rules>>
       \/ /\ ~Replayed(req[c].k, r)
          /\ ~Blocked(r)
          /\ IF ActiveSets = {SetOf[r]} /\ rules = RulesOf[r] /\ entity[r].decision = "MADE_ACTIVE"
             THEN UNCHANGED <<entity, sets, rules>>
             ELSE /\ Activate(r)
                  /\ entity' = [entity EXCEPT ![r].status = "DECISION_NEEDED",
                                              ![r].decision = "MADE_ACTIVE",
                                              ![r].key = req[c].k]
    /\ req' = [req EXCEPT ![c] = Free]
    /\ UNCHANGED <<backtest, demo, audit, governance, writer, count>>

\* The process dies: SQLite rolls back, PostgreSQL keeps what it committed.
Crash(c) ==
    /\ req[c] # Free
    /\ req' = [req EXCEPT ![c] = Free]
    /\ writer' = IF writer = c THEN None ELSE writer
    /\ UNCHANGED <<researchTables, sets, rules, audit, governance, count>>

Next ==
    \/ \E c \in Client :
          \/ \E r \in Research :
                \/ \E op \in StoreOps : CheckMutable(c, op, r)
                \/ \E k \in Key, p \in Principal, op \in {"request", "makeActive"} :
                      PromotionCommand(c, r, k, p, op)
          \/ WriteRun(c) \/ RecordBlock(c) \/ RequestGovernance(c) \/ RecordRequested(c)
          \/ MakeActive(c) \/ Crash(c)
    \/ \E r \in Research : ArchiveResearch(r)

Spec == Init /\ [][Next]_vars

-----------------------------------------------------------------------------
(* Properties *)

Entity ==
    [status : {"DRAFT", "BACKTEST_READY", "DEMO_RUNNING", "DEMO_STOPPED", "DECISION_NEEDED",
               "FAILED", "ARCHIVED"},
     decision : {"NONE", "ARCHIVE", "MAKE_ACTIVE_BLOCKED", "PROMOTION_REQUESTED", "MADE_ACTIVE"},
     key : Key \cup {None}, selB : BOOLEAN, selD : BOOLEAN]

TypeOK ==
    /\ entity \in [Research -> Entity]
    /\ sets \in [PinnedSet -> {"TESTING", "ACTIVE", "ARCHIVE"}]
    /\ rules \in RulesVersion
    /\ audit \in [Key -> AuditRow \cup {None}]
    /\ governance \in [Key -> Payload \cup {None}]
    /\ req \in [Client -> {Free} \cup StoreRequest \cup Command]
    /\ count \in Nat

\* A research never claims a promotion the governance does not know, and a key
\* never requests another research than the one its audited command names,
\* whatever crashes between the two databases.
RequestedIsDurable ==
    /\ \A r \in Research : entity[r].decision = "PROMOTION_REQUESTED" =>
          \E k \in Key : governance[k] # None /\ governance[k].r = r
    /\ \A k \in Key : governance[k] # None => audit[k] # None /\ audit[k].r = governance[k].r

\* test_concurrent_different_research_promotions_leave_one_exact_pair: one set
\* is active, with the rules it was tested with.
OneExactPair ==
    \/ ActiveSets = {InitialSet} /\ rules = InitialRules
    \/ \E r \in Research : ActiveSets = {SetOf[r]} /\ rules = RulesOf[r]

\* A command in progress names the research of its audited key, and once the
\* governance has its request, so does the governance.
CommandIsAudited ==
    \A c \in Client :
        /\ req[c].op \in {"request", "makeActive", "governed"} =>
             audit[req[c].k] # None /\ audit[req[c].k].r = req[c].r
        /\ req[c].op = "governed" => governance[req[c].k] # None /\ governance[req[c].k].r = req[c].r

\* The inductive invariant.
PromotionInv == TypeOK /\ CommandIsAudited /\ RequestedIsDurable /\ OneExactPair
=============================================================================

---------------------------- MODULE ResearchRuns ----------------------------
(***************************************************************************)
(* The mutable state of one research in PostgreSQL: the summary row, its   *)
(* backtest and demo run records and the demo execution records, under     *)
(* concurrent sessions.  Sessions are operator requests and the worker's   *)
(* backtest executor; every store call is one READ COMMITTED transaction.  *)
(*                                                                         *)
(* _update_mutable_state reads the row it will write before it reads the   *)
(* revision it compares with, so a transaction is two steps: Begin reads,  *)
(* and Commit writes either what the first read implies or, when the       *)
(* comparison fails and the row is loaded again, what the latest row       *)
(* implies.  _replace_run_payload likewise writes the run rows of a list   *)
(* that was read at the beginning.                                         *)
(***************************************************************************)
EXTENDS Naturals, FiniteSets, TLC

CONSTANTS
    Operator,     \* sessions of operator requests
    Worker,       \* trading workers, which execute backtests
    Backtest,     \* backtest run ids (one per period and creation time)
    Demo,         \* demo run ids (one per start time)
    None,         \* no run selected
    MaxLapse,     \* bound: backtest leases that lapse while the worker lives
    MaxRequest    \* bound: operator requests

ResearchConstants == Operator \cap Worker = {} /\ None \notin Backtest \cup Demo

VARIABLES
    row,          \* the mutable summary of the research
    bt,           \* backtest run records
    dm,           \* demo run records
    ex,           \* demo execution records, by status
    live,         \* backtests whose handoff message is not consumed
    holder,       \* the worker that claimed each backtest message last
    job,          \* what each worker executes
    sess,         \* the open transaction of each session, or its next step
    lapses,       \* leases lapsed so far (the bound)
    requests      \* operator requests so far (the bound)

vars == <<row, bt, dm, ex, live, holder, job, sess, lapses, requests>>

Session == Operator \cup Worker
\* COMPLETED_NO_TRADES is COMPLETED to every condition of this component.
BacktestStatus == {"NONE", "RUNNING", "COMPLETED", "FAILED"}
BacktestDone == {"COMPLETED"}
DemoStatus == {"NONE", "PENDING", "RUNNING", "STOPPED", "FAILED", "BLOCKED"}
ExecutionStatus == {"NONE", "PENDING", "RUNNING", "COMPLETED"}
Idle == [op |-> "idle", id |-> None]
NoJob == [b |-> None, pc |-> "idle"]

StatusAfterBacktest(st) ==
    CASE st \in BacktestDone -> "BACKTEST_READY"
      [] st = "FAILED" -> "FAILED"
      [] OTHER -> "DRAFT"

StatusAfterDemo(st) ==
    CASE st = "RUNNING" -> "DEMO_RUNNING"
      [] st = "STOPPED" -> "DEMO_STOPPED"
      [] st = "FAILED" -> "FAILED"
      [] OTHER -> "BLOCKED"

\* The status a demo run is shown with: its execution's, where there is one.
DemoStatusFromExecution(e) ==
    IF e = "COMPLETED" THEN "STOPPED" ELSE e

ListedDemo(d) ==
    IF ex[d] = "NONE" THEN dm[d].st ELSE DemoStatusFromExecution(ex[d])

\* The rows: of the pinned contents only what later calls may change.
ResearchRecord == [status |-> "DRAFT", decision |-> "NONE", selB |-> None, selD |-> None]
BacktestRunRecord(st) == [st |-> st, sel |-> FALSE]
DemoRunRecord(st) == [st |-> st, sel |-> FALSE]

Init ==
    /\ row = ResearchRecord
    /\ bt = [b \in Backtest |-> BacktestRunRecord("NONE")]
    /\ dm = [d \in Demo |-> DemoRunRecord("NONE")]
    /\ ex = [d \in Demo |-> "NONE"]
    /\ live = {}
    /\ holder = [b \in Backtest |-> None]
    /\ job = [w \in Worker |-> NoJob]
    /\ sess = [s \in Session |-> Idle]
    /\ lapses = 0 /\ requests = 0

-----------------------------------------------------------------------------
(* Transactions *)

UpdateMutableState(s, changes) ==
    \E base \in {sess[s].row, row} : row' = changes @@ base

BeginOp(s, op, id, arg) ==
    /\ sess[s].op = "idle"
    /\ requests < MaxRequest \/ s \in Worker
    /\ requests' = IF s \in Operator THEN requests + 1 ELSE requests
    /\ sess' = [sess EXCEPT ![s] =
          [op |-> op, id |-> id, arg |-> arg, row |-> row,
           runs |-> CASE op = "selectBacktest" -> bt
                      [] op = "selectDemo" ->
                            [d \in Demo |-> [dm[d] EXCEPT !.st = ListedDemo(d)]]
                      [] OTHER -> <<>>]]
    /\ UNCHANGED <<row, bt, dm, ex, live, holder, job, lapses>>

NewBacktest(s, b, st) ==
    /\ s \in Operator /\ bt[b].st = "NONE"
    /\ \A o \in Operator : sess[o].id # b
    /\ BeginOp(s, "backtest", b, st)

\* run_backtest: the handoff transaction records the run and its message.
BeginBacktest(s, b) == NewBacktest(s, b, "RUNNING")

\* A request that is blocked records a FAILED run.
BlockedBacktest(s, b) == NewBacktest(s, b, "FAILED")

BeginSelectBacktest(s, b) ==
    /\ s \in Operator /\ bt[b].st \in BacktestDone
    /\ BeginOp(s, "selectBacktest", b, "")

\* start_demo_run, first read: a listed RUNNING run is returned instead.
NewDemo(s, d, op) ==
    /\ s \in Operator /\ dm[d].st = "NONE" /\ ex[d] = "NONE"
    /\ \A o \in Operator : sess[o].id # d
    /\ \A e \in Demo : ListedDemo(e) # "RUNNING"
    /\ BeginOp(s, op, d, "BLOCKED")

BeginDemo(s, d) == NewDemo(s, d, "handoff")

\* Isolated execution is not available: a BLOCKED run is recorded.
BlockedDemo(s, d) == NewDemo(s, d, "blockedDemo")

BeginStopDemo(s, d) ==
    /\ s \in Operator /\ dm[d].st = "RUNNING"
    /\ BeginOp(s, "stopDemo", d, "STOPPED")

BeginSelectDemo(s, d) ==
    /\ s \in Operator /\ dm[d].st = "STOPPED"
    /\ BeginOp(s, "selectDemo", d, "")

BeginDecision(s) ==
    /\ s \in Operator
    /\ \E op \in {"archive", "block"} : BeginOp(s, op, None, "")

Close(s) == sess' = [sess EXCEPT ![s] = Idle]

CommitBacktest(s) ==
    LET t == sess[s] IN
    /\ t.op = "backtest"
    /\ bt' = [bt EXCEPT ![t.id] = BacktestRunRecord(t.arg)]
    /\ live' = IF t.arg = "RUNNING" THEN live \cup {t.id} ELSE live
    /\ UpdateMutableState(s, [status |-> StatusAfterBacktest(t.arg)])
    /\ Close(s)
    /\ UNCHANGED <<dm, ex, holder, job, lapses, requests>>

\* The worker's result: the run row is read again under its compare-and-set,
\* whatever its status has become.
CommitUpdateBacktest(s) ==
    LET t == sess[s] IN
    /\ t.op = "update"
    /\ bt' = [bt EXCEPT ![t.id].st = t.arg]
    /\ UpdateMutableState(s, [status |-> StatusAfterBacktest(t.arg)])
    /\ Close(s)
    /\ job' = [job EXCEPT ![s] = [b |-> t.id, pc |-> "done"]]
    /\ UNCHANGED <<dm, ex, live, holder, lapses, requests>>

\* Every listed run is written back with its flag; a run added since the list
\* was read is not.
SetBacktestSelected(t) ==
    bt' = [b \in Backtest |->
              IF t.runs[b].st = "NONE" THEN bt[b] ELSE [t.runs[b] EXCEPT !.sel = (b = t.id)]]

CommitSelectBacktest(s) ==
    LET t == sess[s] IN
    /\ t.op = "selectBacktest"
    /\ SetBacktestSelected(t)
    /\ UpdateMutableState(s, [status |-> "BACKTEST_READY", selB |-> t.id])
    /\ Close(s)
    /\ UNCHANGED <<dm, ex, live, holder, job, lapses, requests>>

\* Mutant: the run record is written before the execution is handed over.
CommitHandoffMutant(s) ==
    LET t == sess[s] IN
    /\ t.op = "handoff"
    /\ dm' = [dm EXCEPT ![t.id].st = "RUNNING"]
    /\ sess' = [sess EXCEPT ![s] = [t EXCEPT !.op = "recordDemo", !.row = row]]
    /\ UNCHANGED <<row, bt, ex, live, holder, job, lapses, requests>>
\* The handoff transaction: configuration, execution record and message.  The
\* run record follows in a transaction of its own.
CommitHandoff(s) ==
    LET t == sess[s] IN
    /\ t.op = "handoff"
    /\ ex' = [ex EXCEPT ![t.id] = "PENDING"]
    /\ sess' = [sess EXCEPT ![s] =
          [op |-> "recordDemo", id |-> t.id, arg |-> t.arg, row |-> row, runs |-> t.runs]]
    /\ UNCHANGED <<row, bt, dm, live, holder, job, lapses, requests>>

CommitRecordDemo(s) ==
    LET t == sess[s]
        st == IF t.op = "recordDemo" THEN "RUNNING" ELSE t.arg IN
    /\ t.op \in {"recordDemo", "blockedDemo"}
    /\ dm' = [dm EXCEPT ![t.id] = DemoRunRecord(st)]
    /\ UpdateMutableState(s, [status |-> StatusAfterDemo(st)])
    /\ Close(s)
    /\ UNCHANGED <<bt, ex, live, holder, job, lapses, requests>>

\* The run record read at the beginning is written back stopped; the execution
\* is not told.
CommitStopDemo(s) ==
    LET t == sess[s] IN
    /\ t.op = "stopDemo"
    /\ dm' = [dm EXCEPT ![t.id].st = "STOPPED"]
    /\ UpdateMutableState(s, [status |-> "DEMO_STOPPED"])
    /\ Close(s)
    /\ UNCHANGED <<bt, ex, live, holder, job, lapses, requests>>

\* Every listed run is written back as listed, that is, with the status of its
\* execution; a listed execution without a run record fails the transaction.
CommitSelectDemo(s) ==
    LET t == sess[s]
        listed == {d \in Demo : t.runs[d].st # "NONE"} IN
    /\ t.op = "selectDemo"
    /\ \/ /\ \A d \in listed : dm[d].st # "NONE"
          /\ dm' = [d \in Demo |->
                       IF d \in listed THEN [t.runs[d] EXCEPT !.sel = (d = t.id)] ELSE dm[d]]
          /\ UpdateMutableState(s, [status |-> "DECISION_NEEDED", selD |-> t.id])
       \/ /\ \E d \in listed : dm[d].st = "NONE"
          /\ UNCHANGED <<row, dm>>
    /\ Close(s)
    /\ UNCHANGED <<bt, ex, live, holder, job, lapses, requests>>

CommitDecision(s) ==
    /\ sess[s].op \in {"archive", "block"}
    /\ UpdateMutableState(s,
          IF sess[s].op = "archive" THEN [status |-> "ARCHIVED", decision |-> "ARCHIVE"]
                                    ELSE [decision |-> "MAKE_ACTIVE_BLOCKED"])
    /\ Close(s)
    /\ UNCHANGED <<bt, dm, ex, live, holder, job, lapses, requests>>

\* The request or the process ends with its transaction open.
Abort(s) ==
    /\ sess[s].op # "idle"
    /\ Close(s)
    /\ UNCHANGED <<row, bt, dm, ex, live, holder, job, lapses, requests>>

-----------------------------------------------------------------------------
(* The worker *)

\* ResearchBacktestExecutionDispatcher.dispatch: a terminal run is replayed and
\* its message consumed, any other is executed.  A message is claimed again
\* once its holder is gone or its lease has lapsed.
ClaimBacktest(w, b) ==
    /\ b \in live /\ job[w] = NoJob /\ sess[w].op = "idle"
    /\ \/ /\ \A v \in Worker : job[v].b # b
          /\ UNCHANGED lapses
       \/ /\ lapses < MaxLapse
          /\ \E v \in Worker \ {w} : job[v].b = b
          /\ lapses' = lapses + 1
    /\ holder' = [holder EXCEPT ![b] = w]
    /\ IF bt[b].st \in BacktestDone \cup {"FAILED"}
       THEN live' = live \ {b} /\ UNCHANGED job
       ELSE job' = [job EXCEPT ![w] = [b |-> b, pc |-> "run"]] /\ UNCHANGED live
    /\ UNCHANGED <<row, bt, dm, ex, sess, requests>>

\* start_research_backtest ends with a result or, after any exception, FAILED.
FinishBacktest(w) ==
    /\ job[w].pc = "run"
    /\ \E st \in BacktestDone \cup {"FAILED"} : BeginOp(w, "update", job[w].b, st)

\* The dispatch transaction ends once the result is committed: the message is
\* consumed unless another worker has claimed it.
AckBacktest(w) ==
    /\ job[w].pc = "done"
    /\ live' = IF holder[job[w].b] = w THEN live \ {job[w].b} ELSE live
    /\ job' = [job EXCEPT ![w] = NoJob]
    /\ UNCHANGED <<row, bt, dm, ex, holder, sess, lapses, requests>>

WorkerCrash(w) ==
    /\ job[w] # NoJob
    /\ job' = [job EXCEPT ![w] = NoJob]
    /\ sess' = [sess EXCEPT ![w] = Idle]
    /\ UNCHANGED <<row, bt, dm, ex, live, holder, lapses, requests>>

\* The execution record of a demo under its own dispatcher.
RunDemo(d) ==
    /\ \/ ex[d] = "PENDING" /\ ex' = [ex EXCEPT ![d] = "RUNNING"]
       \/ ex[d] = "RUNNING" /\ ex' = [ex EXCEPT ![d] = "COMPLETED"]
    /\ UNCHANGED <<row, bt, dm, live, holder, job, sess, lapses, requests>>

OperatorStep(s) ==
    \/ \E b \in Backtest : BeginBacktest(s, b) \/ BlockedBacktest(s, b) \/ BeginSelectBacktest(s, b)
    \/ \E d \in Demo : BeginDemo(s, d) \/ BlockedDemo(s, d) \/ BeginStopDemo(s, d) \/ BeginSelectDemo(s, d)
    \/ BeginDecision(s)
    \/ CommitBacktest(s) \/ CommitSelectBacktest(s)
    \/ CommitHandoff(s) \/ CommitRecordDemo(s) \/ CommitStopDemo(s) \/ CommitSelectDemo(s)
    \/ CommitDecision(s)
    \/ Abort(s)

WorkerStep(w) ==
    \/ \E b \in Backtest : ClaimBacktest(w, b)
    \/ FinishBacktest(w) \/ CommitUpdateBacktest(w) \/ AckBacktest(w) \/ WorkerCrash(w)

Next ==
    \/ \E s \in Operator : OperatorStep(s)
    \/ \E w \in Worker : WorkerStep(w)
    \/ \E d \in Demo : RunDemo(d)

Spec == Init /\ [][Next]_vars

-----------------------------------------------------------------------------
(* Properties *)

RunFlags == [st : BacktestStatus \cup DemoStatus, sel : BOOLEAN]

TypeOK ==
    /\ row \in [status : {"DRAFT", "BACKTEST_READY", "DEMO_RUNNING", "DEMO_STOPPED",
                          "DECISION_NEEDED", "FAILED", "BLOCKED", "ARCHIVED"},
                decision : {"NONE", "ARCHIVE", "MAKE_ACTIVE_BLOCKED"},
                selB : Backtest \cup {None}, selD : Demo \cup {None}]
    /\ bt \in [Backtest -> RunFlags] /\ dm \in [Demo -> RunFlags]
    /\ ex \in [Demo -> ExecutionStatus]
    /\ live \subseteq Backtest

\* A run record that says RUNNING has an execution behind it, across a crash
\* between the handoff and the record and across stops and selections.
ExecutionBacked ==
    \A d \in Demo : dm[d].st \in {"PENDING", "RUNNING", "STOPPED"} => ex[d] # "NONE"

\* A session that will record or stop a demo has its execution, one that will
\* record a blocked one says so, and what a selection listed as started has an
\* execution.
SessionIsBacked ==
    \A s \in Session :
        /\ sess[s].op \in {"handoff", "recordDemo", "blockedDemo", "stopDemo"} => sess[s].id \in Demo
        /\ sess[s].op \in {"recordDemo", "stopDemo"} => ex[sess[s].id] # "NONE"
        /\ sess[s].op = "blockedDemo" => sess[s].arg = "BLOCKED"
        /\ sess[s].op = "selectDemo" =>
             /\ sess[s].runs \in [Demo -> RunFlags]
             /\ \A d \in Demo :
                  sess[s].runs[d].st \in {"PENDING", "RUNNING", "STOPPED"} => ex[d] # "NONE"

\* The inductive invariant of the demos' run records.
RunsInv ==
    /\ dm \in [Demo -> RunFlags] /\ ex \in [Demo -> ExecutionStatus] /\ DOMAIN sess = Session
    /\ SessionIsBacked /\ ExecutionBacked
=============================================================================

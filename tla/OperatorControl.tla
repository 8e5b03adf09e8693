--------------------------- MODULE OperatorControl ---------------------------
(***************************************************************************)
(* Operator commands: the authorizer and its audit event                   *)
(* (services/operator_auth.py), the dashboard's command boundary           *)
(* (dashboard/commands.py), the trading state it pauses and resumes        *)
(* (persistence/operator_state_store.py), and the durable bridge that      *)
(* carries a close command to the trading worker                           *)
(* (services/operator_execution_bridge.py).                                *)
(*                                                                         *)
(* A command is identified by its type, its target and the idempotency key *)
(* of the request.  The worker dispatches it in the transaction of the     *)
(* claimed message: an exception rolls back every change of the record and *)
(* leaves the message to be claimed again, but not what the executor did.  *)
(***************************************************************************)
EXTENDS Naturals, Sequences, FiniteSets

CONSTANTS
    Web,        \* requests the dashboard serves at a time
    Worker,     \* worker processes
    Key,        \* idempotency keys
    Position,   \* positions, each opened once at most
    All,        \* the target of CLOSE_ALL
    Principal, Allowed,     \* who asks, and the configured allowlist
    MaxRequest, \* bound on requests
    MaxPause,   \* bound on changes of the trading state
    None

VARIABLES
    position,   \* position -> "none", "open" or "closed"
    trading,    \* TRADING_ENABLED or TRADING_PAUSED
    stateLog,   \* rows of operator_trading_state_audit
    audit,      \* key -> the authorized [type, by], or None
    command,    \* <<target, key>> -> [status, held], or None; held: then open
    queue,      \* <<target, key>> -> "none", "queued" or "consumed"
    actions,    \* rows of operator_action_audit: [target, key, result]
    web, worker, requests

Target == Position \cup {All}
Id == Target \X Key
State == {"ENABLED", "PAUSED"}

\* A request in progress, a command's record and a worker's dispatch.
Form == [step : {"audit", "submit", "accepted", "failed"}, target : Target, key : Key, by : Principal]
Change == [step : {"state"}, previous : State, new : State]
CommandRow == [status : {"PENDING", "SUCCEEDED"}, held : SUBSET Position]
Job == [id : Id, step : {"dispatch", "execute", "commit"}, result : {None, "replay", "SUCCEEDED"}]

OperatorConstants ==
    /\ None \notin Form \cup Change \cup CommandRow \cup Job
    /\ None \notin {"replay", "SUCCEEDED"}

bookVars == <<position, trading, stateLog, audit, command, queue, actions>>
controlVars == <<bookVars, web, worker, requests>>

Init ==
    /\ position \in [Position -> {"none", "open"}]
    /\ trading = "ENABLED" /\ stateLog = <<>>
    /\ audit = [k \in Key |-> None]
    /\ command = [i \in Id |-> None] /\ queue = [i \in Id |-> "none"]
    /\ actions = {}
    /\ web = [w \in Web |-> None] /\ worker = [k \in Worker |-> None] /\ requests = 0

OpenNow == {p \in Position : position[p] = "open"}
Terminal == {"SUCCEEDED", "FAILED", "PARTIAL"}
TypeOf(target) == IF target = All THEN "CLOSE_ALL" ELSE "CLOSE_ONE"

Goto(w, step) == web' = [web EXCEPT ![w].step = step]
EndRequest(w) == web' = [web EXCEPT ![w] = None]

-----------------------------------------------------------------------------
(* Authorization                                                           *)

\* A managed principal has to be on the list.
Authorized(by) == by \in Allowed

\* A form without a key, a principal that is not on the list and a key of
\* another command are refused.  The audit event names the command's type; its
\* target is ACTIVE for every form.
Request(w, target, key, by) ==
    /\ web[w] = None /\ requests < MaxRequest
    /\ requests' = requests + 1
    /\ Authorized(by)
    /\ audit[key] \in {None, [type |-> TypeOf(target), by |-> by]}
    /\ web' = [web EXCEPT ![w] =
          [step |-> IF audit[key] = None THEN "audit" ELSE "submit",
           target |-> target, key |-> key, by |-> by]]
    /\ UNCHANGED <<bookVars, worker>>

\* record_audit_event: another request has recorded the key since, at a time of
\* its own, and the event is immutable.
RecordAudit(w) ==
    /\ web[w] # None /\ web[w].step = "audit"
    /\ IF audit[web[w].key] = None
       THEN /\ audit' = [audit EXCEPT ![web[w].key] = [type |-> TypeOf(web[w].target), by |-> web[w].by]]
            /\ Goto(w, "submit")
       ELSE EndRequest(w) /\ UNCHANGED audit
    /\ UNCHANGED <<position, trading, stateLog, command, queue, actions, worker, requests>>

-----------------------------------------------------------------------------
(* The bridge                                                              *)

\* submit: record and message in one transaction.  A repeated request appends
\* the message again while the command is open, under the same dedupe key.
Submit(w) ==
    /\ web[w] # None /\ web[w].step = "submit"
    /\ LET i == <<web[w].target, web[w].key>> IN
       /\ command' = IF command[i] # None THEN command
                     ELSE [command EXCEPT ![i] = [status |-> "PENDING", held |-> OpenNow]]
       /\ queue' = IF queue[i] = "none" THEN [queue EXCEPT ![i] = "queued"] ELSE queue
    /\ Goto(w, "accepted")
    /\ UNCHANGED <<position, trading, stateLog, audit, actions, worker, requests>>

\* PostgreSQL fails, and the action is logged as FAILED.
SubmitFails(w) ==
    /\ web[w] # None /\ web[w].step = "submit"
    /\ Goto(w, "failed")
    /\ UNCHANGED <<bookVars, worker, requests>>

\* What the command boundary reports of a close: ACCEPTED or FAILED.
Reported(w) == [id |-> <<web[w].target, web[w].key>>, result |-> web[w].step]

\* record_operator_action, in SQLite, after the command is durable.
LogAction(w) ==
    /\ web[w] # None /\ web[w].step \in {"accepted", "failed"}
    /\ actions' = actions \cup {Reported(w)}
    /\ EndRequest(w)
    /\ UNCHANGED <<position, trading, stateLog, audit, command, queue, worker, requests>>

WebDies(w) == web[w] # None /\ EndRequest(w) /\ UNCHANGED <<bookVars, worker, requests>>

-----------------------------------------------------------------------------
(* The trading state                                                       *)

\* set_trading_state reads the previous state on a connection of its own,
ReadState(w, new) ==
    /\ web[w] = None /\ requests < MaxRequest /\ requests' = requests + 1
    /\ Len(stateLog) < MaxPause
    /\ web' = [web EXCEPT ![w] = [step |-> "state", previous |-> trading, new |-> new]]
    /\ UNCHANGED <<bookVars, worker>>

\* and writes the state and its audit row in one transaction.
WriteState(w) ==
    /\ web[w] # None /\ web[w].step = "state"
    /\ trading' = web[w].new
    /\ stateLog' = Append(stateLog, [previous |-> web[w].previous, new |-> web[w].new])
    /\ EndRequest(w)
    /\ UNCHANGED <<position, audit, command, queue, actions, worker, requests>>

\* An entry of the futures runtime, refused while entries are paused.
OpenPosition(p) ==
    /\ position[p] = "none" /\ trading = "ENABLED"
    /\ position' = [position EXCEPT ![p] = "open"]
    /\ UNCHANGED <<trading, stateLog, audit, command, queue, actions, web, worker, requests>>

-----------------------------------------------------------------------------
(* The worker                                                              *)

\* The worker claims the message, perhaps after another's lease has lapsed.
Claim(k, i) ==
    /\ worker[k] = None /\ queue[i] = "queued"
    /\ worker' = [worker EXCEPT ![k] = [id |-> i, step |-> "dispatch", result |-> None]]
    /\ UNCHANGED <<bookVars, web, requests>>

Holds(k, i) == worker[k] # None /\ worker[k].id = i /\ worker[k].step # "dispatch"

\* A terminal command is replayed; any other becomes EXECUTING, whose row lock
\* keeps a second worker out until the transaction ends.
Dispatch(k) ==
    /\ worker[k] # None /\ worker[k].step = "dispatch"
    /\ ~\E j \in Worker : Holds(j, worker[k].id)
    /\ worker' = [worker EXCEPT ![k] =
          IF command[worker[k].id].status \in Terminal
          THEN [@ EXCEPT !.step = "commit", !.result = "replay"]
          ELSE [@ EXCEPT !.step = "execute"]]
    /\ UNCHANGED <<bookVars, web, requests>>

\* Mutant: a result that is not terminal is committed like one that is.
ExecuteMutant(k) ==
    /\ worker[k] # None /\ worker[k].step = "execute"
    /\ LET target == worker[k].id[1]
           targets == IF target = All THEN OpenNow ELSE {target} \cap OpenNow
       IN \E done \in SUBSET targets :
            /\ position' = [p \in Position |-> IF p \in done THEN "closed" ELSE position[p]]
            /\ worker' = [worker EXCEPT ![k] = [@ EXCEPT !.step = "commit", !.result = "SUCCEEDED"]]
    /\ UNCHANGED <<trading, stateLog, audit, command, queue, actions, web, requests>>

\* The executor closes some of its targets as they are open now; the result is
\* terminal once each of them is CLOSED, and otherwise, or on an exception, the
\* dispatch raises.
Execute(k) ==
    /\ worker[k] # None /\ worker[k].step = "execute"
    /\ LET target == worker[k].id[1]
           targets == IF target = All THEN OpenNow ELSE {target} \cap OpenNow
       IN \E done \in SUBSET targets :
            /\ position' = [p \in Position |-> IF p \in done THEN "closed" ELSE position[p]]
            /\ worker' = [worker EXCEPT ![k] =
                 IF done = targets /\ (target # All => position[target] # "none")
                 THEN [@ EXCEPT !.step = "commit", !.result = "SUCCEEDED"] ELSE None]
    /\ UNCHANGED <<trading, stateLog, audit, command, queue, actions, web, requests>>

\* Record and acknowledgement commit together.  The acknowledgement of an
\* operator command is not fenced: a worker whose lease has lapsed gives it too.
Commit(k) ==
    /\ worker[k] # None /\ worker[k].step = "commit"
    /\ LET i == worker[k].id IN
       /\ queue' = [queue EXCEPT ![i] = "consumed"]
       /\ command' = IF worker[k].result = "replay" THEN command
                     ELSE [command EXCEPT ![i].status = worker[k].result]
    /\ worker' = [worker EXCEPT ![k] = None]
    /\ UNCHANGED <<position, trading, stateLog, audit, actions, web, requests>>

WorkerDies(k) ==
    /\ worker[k] # None
    /\ worker' = [worker EXCEPT ![k] = None]
    /\ UNCHANGED <<bookVars, web, requests>>

Next ==
    \/ \E w \in Web :
         \/ \E t \in Target, key \in Key, by \in Principal : Request(w, t, key, by)
         \/ \E s \in State : ReadState(w, s)
         \/ RecordAudit(w) \/ Submit(w) \/ SubmitFails(w) \/ LogAction(w) \/ WriteState(w) \/ WebDies(w)
    \/ \E p \in Position : OpenPosition(p)
    \/ \E k \in Worker : (\E i \in Id : Claim(k, i)) \/ Dispatch(k) \/ Execute(k) \/ Commit(k) \/ WorkerDies(k)

Spec == Init /\ [][Next]_controlVars

-----------------------------------------------------------------------------
(* Properties                                                              *)

\* A request has its shape, and so have the records, the messages and the jobs.
TypeOK ==
    /\ position \in [Position -> {"none", "open", "closed"}]
    /\ trading \in State
    /\ command \in [Id -> CommandRow \cup {None}]
    /\ queue \in [Id -> {"none", "queued", "consumed"}]
    /\ actions \subseteq [id : Id, result : {"accepted", "failed"}]
    /\ web \in [Web -> Form \cup Change \cup {None}]
    /\ worker \in [Worker -> Job \cup {None}]

\* Whatever crashes and repeats: a command that was accepted is durable, one
\* that is not terminal still has its message to be dispatched, and one that
\* SUCCEEDED has closed every position that was open when it was submitted.
AcceptedIsDriven ==
    /\ \A a \in actions : a.result = "accepted" => command[a.id] # None
    /\ \A i \in Id : command[i] # None =>
         /\ command[i].status \notin Terminal => queue[i] = "queued"
         /\ command[i].status = "SUCCEEDED" =>
              \A p \in command[i].held : i[1] \in {All, p} => position[p] = "closed"

\* What the command with this id was to close is closed.
HeldIsClosed(i) == \A p \in command[i].held : i[1] \in {All, p} => position[p] = "closed"

\* A request that was accepted has its command, and the bridge wrote a message
\* with every command; what a command held has been opened.
RequestIsDurable ==
    /\ \A w \in Web : web[w] # None /\ web[w].step = "accepted"
                      => command[<<web[w].target, web[w].key>>] # None
    /\ \A i \in Id : /\ queue[i] # "none" <=> command[i] # None
                     /\ command[i] # None => \A p \in command[i].held : position[p] # "none"

\* A job has a command; it ends with a replay of a terminal one only, and with
\* SUCCEEDED only once the command's positions are closed.
JobIsSound ==
    \A k \in Worker : worker[k] # None =>
        /\ command[worker[k].id] # None
        /\ worker[k].step = "commit" => worker[k].result # None
        /\ worker[k].result = "replay" => command[worker[k].id].status \in Terminal
        /\ worker[k].result = "SUCCEEDED" => HeldIsClosed(worker[k].id)

\* The inductive invariant.
OperatorInv == TypeOK /\ RequestIsDurable /\ JobIsSound /\ AcceptedIsDriven
=============================================================================

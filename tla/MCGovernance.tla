----------------------------- MODULE MCGovernance -----------------------------
(***************************************************************************)
(* The research ledgers and the control plane side by side, one part per   *)
(* initial value of part: the run records of a research under racing       *)
(* requests, once with backtests and once with demos; the durable          *)
(* execution of a demo; promotions; the registry of rules and Trigger      *)
(* Sets; the versions of the trading rules; and the operator's commands.   *)
(* The proofs speak of the same instances, for any values of their         *)
(* constants; the values of the run are these.                             *)
(*                                                                         *)
(* Backtests: two runs, two requests at a time, two workers, one lapsed    *)
(* lease.  Demos: two runs, two requests at a time.  Execution: two        *)
(* workers, a demo of two candles, one worker start with its recovery.     *)
(* Promotion: three researches on one symbol that pin different pairs, one *)
(* of them with rules that block it, two keys, two racing commands.        *)
(* Registry: two processes, two set versions over two rules.  Rules: two   *)
(* editors, two changes, three edits.  Operator: two requests at a time,   *)
(* two workers, one key and two positions.                                 *)
(***************************************************************************)
EXTENDS Integers, Sequences, FiniteSets, TLC

CONSTANTS
    Part,                                                   \* the parts to explore
    Client, Worker, Actor, None,
    Backtest, Demo, MaxLapse, BacktestRequests, DemoRequests,           \* run records
    Duration, MaxTime, MaxRevision, MaxStart,                           \* demo execution
    ResearchId, Promoter, PromotionKey, SetOf, RulesOf, Promotable, InitialSet, InitialRules,
    PromotionRequests,                                                  \* promotion
    Rule, SetVersion, Members, Body, MaxOp,                             \* registry
    Edit, Invalid, MaxTry,                                              \* rules
    Key, Position, All, Principal, Allowed, MaxAsked, MaxPause          \* operator

VARIABLES
    part,
    row, bt, dm, ex, live, holder, job, sess, lapses, requests,             \* run records
    rec, messages, consumed, claims, disp, clock, recovery, starts,         \* demo execution
    entity, backtest, demo, activeSet, liveRules, promoted, governance,     \* promotion
    req, writer, count,
    rules, sets, exact, pgRules, research, lock, proc, ops,                 \* registry
    versions, current, copies, rulesLock, editor, tries,                    \* rules
    position, trading, stateLog, audit, command, queue, actions,     \* operator
    web, worker, asked

Runs == INSTANCE ResearchRuns WITH Operator <- Client, MaxRequest <- DemoRequests

Execution == INSTANCE ResearchDemo WITH live <- messages, holder <- claims

Promotion == INSTANCE ResearchPromotion
    WITH Research <- ResearchId, Principal <- Promoter, Key <- PromotionKey,
         MaxRequest <- PromotionRequests, sets <- activeSet, rules <- liveRules, audit <- promoted

Registry == INSTANCE TriggerRegistry WITH Proc <- Actor, Set <- SetVersion, Editor <- Actor

Operator == INSTANCE OperatorControl
    WITH Web <- Client, MaxRequest <- MaxAsked, requests <- asked

ASSUME ResearchAssumption == Runs!ResearchConstants
ASSUME DemoAssumption == Execution!DemoConstants
ASSUME PromotionAssumption == Promotion!PromotionConstants
ASSUME RegistryAssumption == Registry!RegistryConstants
ASSUME OperatorAssumption == Operator!OperatorConstants

-----------------------------------------------------------------------------
MCSetOf == [r1 |-> "set1", r2 |-> "set2", r3 |-> "set2"]
MCRulesOf == [r1 |-> "rules1", r2 |-> "rules2", r3 |-> "rules3"]
MCMembers == [s1 |-> {"r1"}, s2 |-> {"r1", "r2"}]

\* The backtests and the demos of a research are explored apart.
Backtests ==
    /\ Runs!Next /\ requests' <= BacktestRequests
    /\ \A c \in Client : sess'[c].op \in {"idle", "backtest", "selectBacktest", "archive", "block"}
Demos ==
    /\ Runs!Next
    /\ \A c \in Client : sess'[c].op \notin {"backtest", "selectBacktest"}

\* The requests, the workers, the processes and editors, and the positions are
\* interchangeable.
ActorSymmetry ==
    Permutations(Client) \cup Permutations(Worker) \cup Permutations(Actor) \cup Permutations(Position)

runVars == <<row, bt, dm, ex, live, holder, job, sess, lapses, requests>>
demoVars == <<rec, messages, consumed, claims, disp, clock, recovery, starts>>
promotionVars ==
    <<entity, backtest, demo, activeSet, liveRules, promoted, governance, req, writer, count>>
researchVars == <<runVars, demoVars, promotionVars>>
registryVars == <<rules, sets, exact, pgRules, research, lock, proc, ops>>
rulesVars == <<versions, current, copies, rulesLock, editor, tries>>
operatorVars == <<position, trading, stateLog, audit, command, queue, actions, web, worker, asked>>
controlVars == <<registryVars, rulesVars, operatorVars>>
vars == <<part, researchVars, controlVars>>

Init ==
    /\ part \in Part
    /\ IF part \in {"backtests", "demos"} THEN Runs!Init
       ELSE /\ row = None /\ bt = None /\ dm = None /\ ex = None /\ live = None /\ holder = None
            /\ job = None /\ sess = None /\ lapses = None /\ requests = None
    /\ Execution!Init
    /\ IF part = "promotion" THEN Promotion!Init
       ELSE /\ entity = None /\ backtest = None /\ demo = None /\ activeSet = None /\ liveRules = None
            /\ promoted = None /\ governance = None /\ req = None /\ writer = None /\ count = None
    /\ IF part = "registry" THEN Registry!RegistryInit
       ELSE /\ rules = None /\ sets = None /\ exact = None /\ pgRules = None /\ research = None
            /\ lock = None /\ proc = None /\ ops = None
    /\ IF part = "rules" THEN Registry!RulesInit
       ELSE /\ versions = None /\ current = None /\ copies = None /\ rulesLock = None
            /\ editor = None /\ tries = None
    /\ IF part = "operator" THEN Operator!Init
       ELSE /\ position = None /\ trading = None /\ stateLog = None /\ audit = None
            /\ command = None /\ queue = None /\ actions = None
            /\ web = None /\ worker = None /\ asked = None

Next ==
    /\ UNCHANGED part
    /\ \/ part = "backtests" /\ Backtests /\ UNCHANGED <<demoVars, promotionVars, controlVars>>
       \/ part = "demos" /\ Demos /\ UNCHANGED <<demoVars, promotionVars, controlVars>>
       \/ part = "execution" /\ Execution!Next /\ UNCHANGED <<runVars, promotionVars, controlVars>>
       \/ part = "promotion" /\ Promotion!Next /\ UNCHANGED <<runVars, demoVars, controlVars>>
       \/ part = "registry" /\ Registry!RegistryNext /\ UNCHANGED <<researchVars, rulesVars, operatorVars>>
       \/ part = "rules" /\ Registry!RulesNext /\ UNCHANGED <<researchVars, registryVars, operatorVars>>
       \/ part = "operator" /\ Operator!Next /\ UNCHANGED <<researchVars, registryVars, rulesVars>>

Spec == Init /\ [][Next]_vars

-----------------------------------------------------------------------------
\* A run record of a demo has an execution behind it (ResearchRuns), and an
\* execution that is not over a message that drives it (ResearchDemo).
DemoIsExecuted ==
    /\ part = "demos" => Runs!ExecutionBacked
    /\ Execution!DemoIsDriven

\* A completed demo observed its duration and stays completed
\* (ResearchDemo.CompletedIsFinal).
CompletedIsFinal == Execution!CompletedIsFinal

\* A recorded promotion request exists in the governance store under the key of
\* its audited command, and the active set and the live rules are the exact pair
\* of one research (ResearchPromotion).
PromotionIsExact ==
    part = "promotion" => Promotion!RequestedIsDurable /\ Promotion!OneExactPair

\* Whatever races and dies: one ACTIVE set per scope, and every set with its
\* exact copy and its defined members (TriggerRegistry); the versions of the
\* rules without a gap, the pointer at the newest, and each version with its
\* exact copy (TriggerRegistry).
VersionsHold ==
    /\ part = "registry" => Registry!RegistryHolds
    /\ part = "rules" => Registry!PointerIsNewest

\* An accepted close command is durable and driven until it has closed what
\* was open (OperatorControl).
AcceptedIsDriven == part = "operator" => Operator!AcceptedIsDriven
=============================================================================

--------------------------- MODULE TriggerRegistry ---------------------------
(***************************************************************************)
(* The registry of rule definitions and versioned Trigger Sets             *)
(* (persistence/trigger_set_store.py on SQLite), the exact versions the    *)
(* PostgreSQL registry keeps of them, and the Research Set registry.       *)
(*                                                                         *)
(* A SQLite operation reads first, each SELECT on its own, and opens its   *)
(* transaction with its first write; from then on it holds the write lock  *)
(* of the database.  The PostgreSQL copy of a set is committed inside that *)
(* transaction, just before it commits.                                    *)
(*                                                                         *)
(* Likewise the immutable versions of the trading rules and the pointer to *)
(* the current one (rules/trading.py over                                  *)
(* persistence/trading_rules_store.py).  An editor edits the version it    *)
(* was shown; the service compares that with the current pointer, and so   *)
(* does the store before its first write.                                  *)
(***************************************************************************)
EXTENDS Naturals, FiniteSetsExt

CONSTANTS
    Proc,       \* processes that bootstrap, register and promote
    Rule,       \* exact rule versions
    Set,        \* exact set versions of one runtime scope
    Members,    \* set version -> the rule versions of its composition
    Body,       \* contents a definition may be offered with
    MaxOp,      \* bound on operations begun
    Editor,     \* processes and requests that edit the rules
    Edit,       \* single changes; a draft is the set of changes applied so far
    Invalid,    \* drafts that validate_rules_draft refuses
    MaxTry,     \* bound on edits begun
    None

VARIABLES
    rules,      \* rule version -> content, or None
    sets,       \* set version -> [body, status], or None
    exact,      \* set version -> content in PostgreSQL, or None
    pgRules,    \* rule version -> content in PostgreSQL, or None
    research,   \* set version -> content of the Research Set, or None
    lock,       \* the process whose SQLite transaction is open
    proc,       \* process -> the operation in progress, or None
    ops,        \* operations begun
    versions,   \* version number -> [draft, from, at]
    current,    \* the version the pointer names
    copies,     \* records in PostgreSQL: [number, draft, from, at]
    rulesLock,  \* editor whose SQLite transaction is open
    editor,     \* editor -> the edit in progress, or None
    tries       \* edits begun; stands for their times of creation

sqlite == <<rules, sets, lock>>
postgres == <<exact, pgRules, research>>
registryVars == <<sqlite, postgres, proc, ops>>

Status == {"ACTIVE", "TESTING", "ARCHIVE"}

\* Rows, operations in progress, versions and edits in progress.
SetRows == [body : Body, status : Status]
RuleOp == [step : {"rule"}, of : Rule, body : Body]
SetOp == [step : {"set", "commit"}, of : Set, body : Body, status : Status]
MoveOp == [step : {"move"}, of : Set, status : Status, archives : SUBSET Set]
VersionRow == [draft : SUBSET Edit, from : Nat, at : Nat]
EditRow == [step : {"shown", "check", "number", "insert", "commit"},
            from : Nat, draft : SUBSET Edit, at : Nat, number : Nat]

RegistryConstants ==
    /\ Members \in [Set -> SUBSET Rule]
    /\ None \notin Body \cup Proc \cup Editor
    /\ None \notin SetRows \cup RuleOp \cup SetOp \cup MoveOp \cup EditRow

RegistryInit ==
    /\ rules = [r \in Rule |-> None] /\ pgRules = [r \in Rule |-> None]
    /\ sets = [s \in Set |-> None] /\ exact = [s \in Set |-> None]
    /\ research = [s \in Set |-> None]
    /\ lock = None /\ proc = [p \in Proc |-> None] /\ ops = 0

\* Rows read by their exact version.
RuleDefined(r) == rules[r] # None
PgRuleDefined(r) == pgRules[r] # None
ResearchDefined(s) == research[s] # None
SetDefined(s) == sets[s] # None

MembersDefined(s) == \A r \in Members[s] : RuleDefined(r)

\* Contents are compared by the hash of their canonical form.
SameContent(stored, b) == stored \in {None, b}

SetRow(b, status) == [body |-> b, status |-> status]

\* The rows the partial unique index covers: one per scope.
ActiveSets == {s \in Set : SetDefined(s) /\ sets[s].status = "ACTIVE"}

Begin(p, op) == proc[p] = None /\ ops < MaxOp /\ ops' = ops + 1 /\ proc' = [proc EXCEPT ![p] = op]
Doing(p, step) == proc[p] # None /\ proc[p].step = step
Done(p) == proc' = [proc EXCEPT ![p] = None] /\ UNCHANGED ops

-----------------------------------------------------------------------------
(* Rule definitions                                                        *)

\* A version that is there is unchanged or a conflict, and the operation ends.
ReadRule(p, r, b) ==
    /\ ~RuleDefined(r)
    /\ Begin(p, [step |-> "rule", of |-> r, body |-> b])
    /\ UNCHANGED <<sqlite, postgres>>

\* ON CONFLICT DO NOTHING: whoever inserts second leaves the row alone.
InsertRule(p) ==
    /\ Doing(p, "rule") /\ lock = None
    /\ rules' = [rules EXCEPT ![proc[p].of] = IF @ = None THEN proc[p].body ELSE @]
    /\ Done(p)
    /\ UNCHANGED <<sets, postgres, lock>>

\* PostgreSQL keeps rule definitions of its own; the key refuses a second row.
SavePgRule(p, r, b) ==
    /\ ~PgRuleDefined(r) /\ proc[p] = None /\ ops < MaxOp /\ ops' = ops + 1
    /\ pgRules' = [pgRules EXCEPT ![r] = b]
    /\ UNCHANGED <<sqlite, exact, research, proc>>

\* A Research Set needs every trigger of it registered in PostgreSQL.
SaveResearchSet(p, s, b) ==
    /\ \A r \in Members[s] : PgRuleDefined(r)
    /\ ~ResearchDefined(s) /\ proc[p] = None /\ ops < MaxOp /\ ops' = ops + 1
    /\ research' = [research EXCEPT ![s] = b]
    /\ UNCHANGED <<sqlite, exact, pgRules, proc>>

-----------------------------------------------------------------------------
(* Trigger Sets                                                            *)

\* put_if_absent: an equal record is accepted, a different one raises.
Accepts(s, b) == SameContent(exact[s], b)

\* The reads of a registration.  A version that is there is a conflict, or is
\* copied to PostgreSQL once more, where the same copy lies already.
ReadSet(p, s, b, status) ==
    /\ MembersDefined(s) /\ ~SetDefined(s)
    /\ status = "ACTIVE" => ActiveSets = {}
    /\ Begin(p, [step |-> "set", of |-> s, body |-> b, status |-> status])
    /\ UNCHANGED <<sqlite, postgres>>

\* Mutant: without the partial unique index.
UniqueActiveMutant(s, archived) == TRUE

\* The partial unique index lets s become ACTIVE beside no other row.
UniqueActive(s, archived) == ActiveSets \ archived \subseteq {s}

\* The rows are inserted, then PostgreSQL commits its copy; the keys, the index
\* and a different copy raise, and SQLite rolls back.
InsertSet(p) ==
    /\ Doing(p, "set") /\ lock = None
    /\ LET s == proc[p].of IN
       IF /\ ~SetDefined(s) /\ Accepts(s, proc[p].body)
          /\ proc[p].status = "ACTIVE" => UniqueActive(s, {})
       THEN /\ lock' = p
            /\ exact' = [exact EXCEPT ![s] = proc[p].body]
            /\ proc' = [proc EXCEPT ![p].step = "commit"] /\ UNCHANGED ops
       ELSE Done(p) /\ UNCHANGED <<exact, lock>>
    /\ UNCHANGED <<rules, sets, pgRules, research>>

CommitSet(p) ==
    /\ Doing(p, "commit")
    /\ sets' = [sets EXCEPT ![proc[p].of] = SetRow(proc[p].body, proc[p].status)]
    /\ lock' = None /\ Done(p)
    /\ UNCHANGED <<rules, postgres>>

\* A process dies: an open transaction is rolled back, PostgreSQL keeps its copy.
Crash(p) ==
    /\ proc[p] # None
    /\ lock' = IF lock = p THEN None ELSE lock
    /\ Done(p)
    /\ UNCHANGED <<rules, sets, postgres>>

\* The reads of a transition: the set, and the set a promotion will archive.
ReadTransition(p, s, status) ==
    /\ SetDefined(s) /\ sets[s].status # status
    /\ Begin(p, [step |-> "move", of |-> s, status |-> status,
                 archives |-> IF status = "ACTIVE" THEN ActiveSets \ {s} ELSE {}])
    /\ UNCHANGED <<sqlite, postgres>>

Moved(p) ==
    [s \in Set |-> IF s = proc[p].of THEN SetRow(sets[s].body, proc[p].status)
                   ELSE IF s \in proc[p].archives THEN SetRow(sets[s].body, "ARCHIVE")
                   ELSE sets[s]]

\* Its writes, on what was read; the index refuses a second ACTIVE set.
WriteTransition(p) ==
    /\ Doing(p, "move") /\ lock = None
    /\ sets' = IF proc[p].status = "ACTIVE" => UniqueActive(proc[p].of, proc[p].archives)
               THEN Moved(p) ELSE sets
    /\ Done(p)
    /\ UNCHANGED <<rules, postgres, lock>>

\* The definitions and the sets a deployment brings, in either version.
OfferRule(p) == \E r \in Rule, b \in Body : ReadRule(p, r, b) \/ SavePgRule(p, r, b)

OfferSet(p) ==
    \E s \in Set, b \in Body :
        SaveResearchSet(p, s, b) \/ \E status \in Status : ReadSet(p, s, b, status)

RegistryNext ==
    \E p \in Proc :
        \/ OfferRule(p) \/ InsertRule(p) \/ OfferSet(p)
        \/ \E s \in Set, status \in Status : ReadTransition(p, s, status)
        \/ InsertSet(p) \/ CommitSet(p) \/ WriteTransition(p) \/ Crash(p)

RegistrySpec == RegistryInit /\ [][RegistryNext]_registryVars

-----------------------------------------------------------------------------
(* Versions of the trading rules                                           *)

rulesVars == <<versions, current, copies, rulesLock, editor, tries>>

Record(n, v) == [number |-> n, draft |-> v.draft, from |-> v.from, at |-> v.at]

InitialVersion == [draft |-> {}, from |-> 0, at |-> 0]

\* The bootstrap has registered the configured draft as v1.
RulesInit ==
    /\ versions = [n \in {1} |-> InitialVersion]
    /\ current = 1 /\ copies = {Record(1, InitialVersion)}
    /\ rulesLock = None /\ editor = [e \in Editor |-> None] /\ tries = 0

EditAt(e, step) == editor[e] # None /\ editor[e].step = step
EndEdit(e) == editor' = [editor EXCEPT ![e] = None]
EditGoto(e, step) == editor' = [editor EXCEPT ![e].step = step]

\* The editor is shown the current version.
Show(e) ==
    /\ editor[e] = None /\ tries < MaxTry
    /\ tries' = tries + 1
    /\ editor' = [editor EXCEPT ![e] =
           [step |-> "shown", from |-> current, draft |-> {}, at |-> tries + 1, number |-> 0]]
    /\ UNCHANGED <<versions, current, copies, rulesLock>>

CurrentDraft == versions[current].draft

Apply(draft, change) == draft \cup {change}

Valid(draft) == draft \notin Invalid

Differs(draft) == draft # CurrentDraft

\* The service checks that the version shown is still current, applies the
\* change and validates the draft; a draft without a change ends the edit.
Submit(e, change) ==
    /\ EditAt(e, "shown")
    /\ LET draft == Apply(CurrentDraft, change) IN
       IF current = editor[e].from /\ Valid(draft) /\ Differs(draft)
       THEN editor' = [editor EXCEPT ![e].step = "check", ![e].draft = draft]
       ELSE EndEdit(e)
    /\ UNCHANGED <<versions, current, copies, rulesLock, tries>>

\* The store reads the pointer again,
CheckCurrent(e) ==
    /\ EditAt(e, "check")
    /\ IF current = editor[e].from THEN EditGoto(e, "number") ELSE EndEdit(e)
    /\ UNCHANGED <<versions, current, copies, rulesLock, tries>>

\* and then the highest version number.
TakeNumber(e) ==
    /\ EditAt(e, "number")
    /\ editor' = [editor EXCEPT ![e].step = "insert", ![e].number = Max(DOMAIN versions) + 1]
    /\ UNCHANGED <<versions, current, copies, rulesLock, tries>>

Version(e) == [draft |-> editor[e].draft, from |-> editor[e].from, at |-> editor[e].at]

\* The number of a version is UNIQUE.
FreeNumber(n) == n \notin DOMAIN versions

\* Mutant: the copy is written whatever record its id has.
CopyAcceptedMutant(r) == TRUE

\* put_if_absent under the id of number and content: another time or another
\* origin is a different record.
CopyAccepted(r) ==
    \A c \in copies : c.number = r.number /\ c.draft = r.draft => c = r

\* The transaction inserts, moves the pointer and commits the copy elsewhere.
InsertVersion(e) ==
    /\ EditAt(e, "insert") /\ rulesLock = None
    /\ LET r == Record(editor[e].number, Version(e)) IN
       IF FreeNumber(editor[e].number) /\ CopyAccepted(r)
       THEN rulesLock' = e /\ copies' = copies \cup {r} /\ EditGoto(e, "commit")
       ELSE EndEdit(e) /\ UNCHANGED <<rulesLock, copies>>
    /\ UNCHANGED <<versions, current, tries>>

CommitVersion(e) ==
    /\ EditAt(e, "commit")
    /\ versions' = [n \in DOMAIN versions \cup {editor[e].number} |->
                       IF n = editor[e].number THEN Version(e) ELSE versions[n]]
    /\ current' = editor[e].number
    /\ rulesLock' = None /\ EndEdit(e)
    /\ UNCHANGED <<copies, tries>>

\* The process dies; SQLite rolls back and PostgreSQL keeps its copy.
Die(e) ==
    /\ editor[e] # None
    /\ rulesLock' = IF rulesLock = e THEN None ELSE rulesLock
    /\ EndEdit(e)
    /\ UNCHANGED <<versions, current, copies, tries>>

RulesNext ==
    \E e \in Editor :
        \/ Show(e) \/ (\E c \in Edit : Submit(e, c)) \/ CheckCurrent(e) \/ TakeNumber(e)
        \/ InsertVersion(e) \/ CommitVersion(e) \/ Die(e)

RulesSpec == RulesInit /\ [][RulesNext]_rulesVars

-----------------------------------------------------------------------------
(* Properties                                                              *)

\* Whatever registrations and promotions race and whoever dies: the scope has
\* one ACTIVE set at most, and a set that SQLite holds is held by PostgreSQL
\* with the same content, on members that are defined.
RegistryHolds ==
    /\ \A s, t \in ActiveSets : s = t
    /\ \A s \in Set :
         SetDefined(s) => exact[s] = sets[s].body /\ MembersDefined(s)

RegistryTypeOK ==
    /\ rules \in [Rule -> Body \cup {None}]
    /\ sets \in [Set -> SetRows \cup {None}] /\ exact \in [Set -> Body \cup {None}]
    /\ proc \in [Proc -> RuleOp \cup SetOp \cup MoveOp \cup {None}]

\* What an operation has read holds until it writes: the members of a set to be
\* inserted are defined, and the sets of a transition exist.  A registration
\* that is about to commit has the write lock, so that the version is still
\* free, its copy exact, and no set ACTIVE if it will be.
OperationIsSound ==
    \A p \in Proc : proc[p] # None =>
        /\ proc[p].step \in {"set", "commit"} => MembersDefined(proc[p].of)
        /\ proc[p].step = "commit" =>
             /\ lock = p /\ ~SetDefined(proc[p].of) /\ exact[proc[p].of] = proc[p].body
             /\ proc[p].status = "ACTIVE" => ActiveSets = {}
        /\ proc[p].step = "move" => \A s \in proc[p].archives \cup {proc[p].of} : SetDefined(s)

\* The inductive invariant of the registry.
RegistryInv == RegistryTypeOK /\ OperationIsSound /\ RegistryHolds

\* However edits race and die, the versions are numbered without a gap, the
\* pointer names the newest, and each has its exact copy in PostgreSQL; copies
\* of edits that died share no identity with a version.
PointerIsNewest ==
    /\ DOMAIN versions = 1 .. current
    /\ \A n \in DOMAIN versions :
         /\ Record(n, versions[n]) \in copies
         /\ {c \in copies : c.number = n /\ c.draft = versions[n].draft} = {Record(n, versions[n])}

RulesTypeOK ==
    /\ current \in Nat \ {0} /\ tries \in Nat
    /\ versions \in [1 .. current -> VersionRow]
    /\ editor \in [Editor -> EditRow \cup {None}]

\* The number of an edit is at most the next one; an edit that is about to
\* commit has the write lock, the next number and the only copy of its identity.
EditIsSound ==
    \A e \in Editor : editor[e] # None =>
        /\ editor[e].step \in {"insert", "commit"} => editor[e].number \in 1 .. current + 1
        /\ editor[e].step = "commit" =>
             /\ rulesLock = e /\ editor[e].number = current + 1
             /\ Record(editor[e].number, Version(e)) \in copies
             /\ CopyAccepted(Record(editor[e].number, Version(e)))

\* The inductive invariant of the rules' versions.
RulesInv == RulesTypeOK /\ EditIsSound /\ PointerIsNewest
=============================================================================

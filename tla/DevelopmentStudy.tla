-------------------------- MODULE DevelopmentStudy --------------------------
(***************************************************************************)
(* The resumable study of the direction estimator                          *)
(* (tools/lde_v1/run_development_study.py) and its experiment ledger.      *)
(*                                                                         *)
(* A coordinator walks a fixed graph of stages.  An artifact is linked     *)
(* under a name that must be free, its seal follows with the hashes of the *)
(* stages it was computed from, an entry of the permanent ledger follows   *)
(* the seal.  A coordinator that dies is resumed by starting it again on   *)
(* the same run directory; nothing keeps two of them from running.         *)
(* A status reads the files and the ledger back, and may refuse them.      *)
(***************************************************************************)
EXTENDS Naturals, Sequences, FiniteSets

CONSTANTS
    Coordinator,    \* processes started on the run
    Graph,          \* the stages in order: [name, kind, parents]
    Reuse,          \* stages imported from an authenticated producer
    MaxStart,       \* bound on starts
    None

VARIABLES
    disk,       \* stage -> [content, sealed, parents], or None
    temporary,  \* coordinators with an incomplete file in the run directory
    entries,    \* the ledger: a sequence of [stage, content]
    lock,       \* holder of .append.lock, a dead one included; None
    publish,    \* holder of the comparator publish lock; the system frees it
    proc,       \* coordinator -> [pc, at, known, mine]
    starts,
    overlap     \* history: a coordinator was started while another was at work

studyVars == <<disk, temporary, entries, lock, publish, proc, starts, overlap>>

Stage == {Graph[k].name : k \in DOMAIN Graph}
Node(n) == CHOOSE s \in {Graph[k] : k \in DOMAIN Graph} : s.name = n
Down == [pc |-> "down", at |-> 0, known |-> [s \in {} |-> 0], mine |-> 0]

StudyConstants ==
    /\ \A k \in DOMAIN Graph :
         /\ Graph[k].kind \in {"generated", "registered", "published", "final"}
         /\ Graph[k].parents \subseteq {Graph[j].name : j \in 1 .. k - 1}
    /\ Reuse \subseteq Stage /\ MaxStart \in Nat

Init ==
    /\ disk = [s \in Stage |-> None]
    /\ temporary = {} /\ entries = <<>> /\ lock = None /\ publish = None
    /\ proc = [c \in Coordinator |-> Down]
    /\ starts = 0 /\ overlap = FALSE

Current(c) == Graph[proc[c].at]
At(c, pc) == proc[c].pc = pc
Goto(c, pc) == proc' = [proc EXCEPT ![c].pc = pc]
Blocked(c) == proc' = [proc EXCEPT ![c] = Down]

\* The stage of a producer run is taken over after its code, seals and ledger
\* entries were authenticated against this run's.
Imported(c) == Current(c).name \in Reuse

\* The features are sealed without an entry of their own.
Unledgered(c) == Current(c).name = "features"

Sealed(s) == disk[s] # None /\ disk[s].sealed

\* Times in an artifact differ with every attempt; an import copies the producer's.
ContentOf(c) == IF Imported(c) THEN 0 ELSE proc[c].mine

Parents(c) == [p \in Current(c).parents |-> proc[c].known[p]]

Artifact(c, sealed) ==
    [content |-> ContentOf(c), sealed |-> sealed, parents |-> Parents(c)]

ExpectedParents(c, d) == d.parents = Parents(c)

\* The stage is settled for this coordinator; the next one follows.
NextStage(c, content) ==
    proc' = [proc EXCEPT
        ![c].known = [s \in DOMAIN @ \cup {Current(c).name} |->
                         IF s = Current(c).name THEN content ELSE @[s]],
        ![c].at = @ + 1,
        ![c].pc = IF proc[c].at = Len(Graph) THEN "done"
                  ELSE IF Graph[proc[c].at + 1].kind = "registered" THEN "ledger" ELSE "check"]

-----------------------------------------------------------------------------
(* Starting and stopping                                                   *)

\* A start or a resume: left-over temporary files need a manual audit.
Start(c) ==
    /\ At(c, "down") /\ starts < MaxStart /\ temporary = {}
    /\ starts' = starts + 1
    /\ overlap' = (overlap \/ \E o \in Coordinator : proc[o].pc \notin {"down", "done"})
    /\ proc' = [proc EXCEPT ![c] = [Down EXCEPT !.pc = "check", !.at = 1, !.mine = starts + 1]]
    /\ UNCHANGED <<disk, temporary, entries, lock, publish>>

\* A coordinator dies; the file it was writing and the append lock stay behind.
Die(c) ==
    /\ proc[c].pc \notin {"down", "done"}
    /\ Blocked(c)
    /\ publish' = IF publish = c THEN None ELSE publish
    /\ UNCHANGED <<disk, temporary, entries, lock, starts, overlap>>

-----------------------------------------------------------------------------
(* Sealed artifacts                                                        *)

\* A sealed stage with the expected parents is reused; a half written one, or
\* one with other parents, blocks the run.
CheckStage(c) ==
    /\ At(c, "check")
    /\ LET d == disk[Current(c).name] IN
       \/ d = None /\ Goto(c, IF Current(c).kind = "published" /\ ~Imported(c)
                              THEN "compute" ELSE "write")
       \/ d # None /\ (~d.sealed \/ ~ExpectedParents(c, d)) /\ Blocked(c)
       \/ /\ Sealed(Current(c).name) /\ ExpectedParents(c, d)
          /\ IF Unledgered(c) THEN NextStage(c, d.content) ELSE Goto(c, "ledger")
    /\ UNCHANGED <<disk, temporary, entries, lock, publish, starts, overlap>>

\* The bytes go to a temporary name first; an import's is not looked for later.
WriteTemporary(c) ==
    /\ At(c, "write")
    /\ temporary' = IF Imported(c) THEN temporary ELSE temporary \cup {c}
    /\ Goto(c, "link")
    /\ UNCHANGED <<disk, entries, lock, publish, starts, overlap>>

\* Mutant: the link replaces an artifact that is there.
LinkMutant(c) ==
    /\ At(c, "link")
    /\ temporary' = temporary \ {c}
    /\ disk' = [disk EXCEPT ![Current(c).name] = Artifact(c, FALSE)]
    /\ Goto(c, "seal")
    /\ UNCHANGED <<entries, lock, publish, starts, overlap>>

\* The link refuses a name that is taken; the rename of an import replaces it
\* with the same bytes.
Link(c) ==
    /\ At(c, "link")
    /\ temporary' = temporary \ {c}
    /\ LET s == Current(c).name IN
       IF disk[s] = None THEN disk' = [disk EXCEPT ![s] = Artifact(c, FALSE)] /\ Goto(c, "seal")
       ELSE /\ UNCHANGED disk
            /\ IF Imported(c) THEN Goto(c, "seal") ELSE Blocked(c)
    /\ UNCHANGED <<entries, lock, publish, starts, overlap>>

\* The seal is linked in turn.
Seal(c) ==
    /\ At(c, "seal")
    /\ LET s == Current(c).name IN
       IF disk[s].sealed THEN Blocked(c) /\ UNCHANGED disk
       ELSE /\ disk' = [disk EXCEPT ![s].sealed = TRUE, ![s].parents = Parents(c)]
            /\ IF Unledgered(c) \/ Current(c).kind = "registered"
               THEN NextStage(c, ContentOf(c)) ELSE Goto(c, "ledger")
    /\ UNCHANGED <<temporary, entries, lock, publish, starts, overlap>>

-----------------------------------------------------------------------------
(* Comparators: workers write aside, the coordinator publishes              *)

\* A worker computes from the sealed parents it verified, or fails.
Compute(c) ==
    /\ At(c, "compute")
    /\ \/ Blocked(c)
       \/ /\ \A p \in Current(c).parents : disk[p].content = proc[c].known[p]
          /\ Goto(c, "publish")
    /\ UNCHANGED <<disk, temporary, entries, lock, publish, starts, overlap>>

\* The publish lock is tried once.
LockPublish(c) ==
    /\ At(c, "publish")
    /\ IF publish = None THEN publish' = c /\ Goto(c, "rename")
       ELSE Blocked(c) /\ UNCHANGED publish
    /\ UNCHANGED <<disk, temporary, entries, lock, starts, overlap>>

\* Under the lock the stage appears whole, or was there before.
Rename(c) ==
    /\ At(c, "rename") /\ publish = c
    /\ publish' = None
    /\ LET s == Current(c).name IN
       IF disk[s] # None THEN Blocked(c) /\ UNCHANGED disk
       ELSE /\ disk' = [disk EXCEPT ![s] = Artifact(c, TRUE)]
            /\ Goto(c, "ledger")
    /\ UNCHANGED <<temporary, entries, lock, starts, overlap>>

-----------------------------------------------------------------------------
(* The ledger                                                              *)

Entries(s) == {k \in DOMAIN entries : entries[k].stage = s}

\* A registration is the entry itself; its reference is checked and sealed next.
AfterLedger(c, content) ==
    IF Current(c).kind = "registered" THEN Goto(c, "check2") ELSE NextStage(c, content)

LedgerContent(c) ==
    IF Current(c).kind = "registered" THEN 0 ELSE disk[Current(c).name].content

\* The ledger is read: one matching entry settles the stage.
ReadLedger(c) ==
    /\ At(c, "ledger")
    /\ LET s == Current(c).name IN
       IF Entries(s) = {} THEN Goto(c, "append")
       ELSE IF Cardinality(Entries(s)) = 1 /\ \A k \in Entries(s) : entries[k].content = LedgerContent(c)
       THEN AfterLedger(c, LedgerContent(c))
       ELSE Blocked(c)
    /\ UNCHANGED <<disk, temporary, entries, lock, publish, starts, overlap>>

LockLedger(c) ==
    /\ At(c, "append")
    /\ IF lock = None THEN lock' = c /\ Goto(c, "chain") ELSE Blocked(c) /\ UNCHANGED lock
    /\ UNCHANGED <<disk, temporary, entries, publish, starts, overlap>>

\* The entry is linked under the next number and the lock removed.
AppendLedger(c) ==
    /\ At(c, "chain")
    /\ entries' = Append(entries, [stage |-> Current(c).name, content |-> LedgerContent(c)])
    /\ lock' = None
    /\ AfterLedger(c, LedgerContent(c))
    /\ UNCHANGED <<disk, temporary, publish, starts, overlap>>

\* The reference to the registration: written once, verified by every resume.
CheckReference(c) ==
    /\ At(c, "check2")
    /\ LET d == disk[Current(c).name] IN
       IF d = None THEN Goto(c, "write")
       ELSE IF d.sealed THEN NextStage(c, d.content) ELSE Blocked(c)
    /\ UNCHANGED <<disk, temporary, entries, lock, publish, starts, overlap>>

Next ==
    \E c \in Coordinator :
        \/ Start(c) \/ Die(c) \/ CheckStage(c) \/ WriteTemporary(c) \/ Link(c) \/ Seal(c)
        \/ Compute(c) \/ LockPublish(c) \/ Rename(c)
        \/ ReadLedger(c) \/ LockLedger(c) \/ AppendLedger(c) \/ CheckReference(c)

Spec == Init /\ [][Next]_studyVars

-----------------------------------------------------------------------------
(* Properties                                                              *)

\* Every sealed stage names the artifacts that lie beside it.
NamesItsParents(s) ==
    \A p \in DOMAIN disk[s].parents :
        Sealed(p) /\ disk[p].content = disk[s].parents[p]

\* The ledger holds one entry of the stage, and it is the artifact's.
HasItsEntry(s) ==
    /\ Cardinality(Entries(s)) = 1
    /\ \A k \in Entries(s) : entries[k].content = disk[s].content

\* A status verifies the seals with their parents, and the ledger entry of
\* every imported or final stage.
StatusAccepts ==
    \A s \in Stage : Sealed(s) =>
        /\ NamesItsParents(s)
        /\ s \in Reuse \/ Node(s).kind = "final" => HasItsEntry(s)

\* Whatever dies and whatever races, a sealed stage names the artifacts beside
\* it and an entry of the ledger names an artifact that is sealed: no evidence
\* rests on bytes that were replaced.  A status may still refuse the run, for
\* want of an entry while a coordinator is between seal and ledger or died
\* there, and for good once two of them appended the same stage.  A coordinator
\* that reached the end leaves a run a status accepts, whatever died before it,
\* as long as no two were at work at once.
EvidenceRests ==
    /\ \A s \in Stage : Sealed(s) => NamesItsParents(s)
    /\ \A k \in DOMAIN entries :
         Node(entries[k].stage).kind # "registered" =>
             /\ Sealed(entries[k].stage)
             /\ disk[entries[k].stage].content = entries[k].content
    /\ ~overlap /\ (\E c \in Coordinator : At(c, "done")) => StatusAccepts
=============================================================================

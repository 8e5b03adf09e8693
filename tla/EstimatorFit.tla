---------------------------- MODULE EstimatorFit ----------------------------
(***************************************************************************)
(* Development fits of the live direction estimator: bounded assemblies of *)
(* historical rows, row manifests over the registered calendar, the        *)
(* primary fit, its two report-only companions and their scores            *)
(* (live_direction_estimator_v1: development_readiness, historical_source, *)
(* calendar, manifests, orchestration, rolling_shadow, comparator,         *)
(* report_only_matching).                                                  *)
(*                                                                         *)
(* A row is its origin, counted in five-minute steps; a digest is the      *)
(* thing digested.  Every function takes manifests and rows from its       *)
(* caller, who may hold assemblies of several ranges and horizons and mix  *)
(* them up; files may be replaced between two reads.                       *)
(***************************************************************************)
EXTENDS Naturals, FiniteSets

CONSTANTS None,
          Calendar,    \* fit id -> [c, v, e]: calibration, score, end (e may be None)
          D0, H1,      \* first development origin, end of development
          Purge,       \* longest label horizon
          Horizons,    \* label horizons
          Requests,    \* assemblies [h, lo, hi] a caller may ask for
          NoFeature,   \* origins without features
          NoTarget,    \* origins without a valid target
          ShadowSpan,  \* length of the rolling window
          MaxReplaced, \* bound on file replacements
          MaxArtifacts \* bound on fits, companions and scores together

VARIABLES disk,        \* is each input file the registered one
          replaced,    \* number of replacements
          features,    \* feature rows read, targets not yet: the request or None
          assemblies,  \* certified assemblies, as requests [h, lo, hi]
          readiness,   \* verdict of the development preflight
          bundles,     \* primary fits
          companions,  \* shadow and comparator artifacts
          scores       \* scored rows

vars == <<disk, replaced, features, assemblies, readiness, bundles, companions, scores>>

Files == {"source", "labels"}

Init == /\ disk = [f \in Files |-> TRUE] /\ replaced = 0
        /\ features = None /\ assemblies = {}
        /\ readiness = "BLOCKED"
        /\ bundles = {} /\ companions = {} /\ scores = {}

\* Is the file that is read the one the manifests register, row by row?
Authentic(f) == disk[f]

ReplaceFile(f) ==
    /\ replaced < MaxReplaced
    /\ disk' = [disk EXCEPT ![f] = ~@]
    /\ replaced' = replaced + 1
    /\ UNCHANGED <<features, assemblies, readiness, bundles, companions, scores>>

(***************************************************************************)
(* Assembly.                                                               *)
(***************************************************************************)

\* The bounds of a request.
Bounded(q) == D0 <= q.lo /\ q.lo < q.hi /\ q.hi <= H1

\* Features use source minutes alone; a target comes from the label file.
HasFeatures(t) == t \notin NoFeature
HasTarget(t) == t \notin NoTarget

\* The source member is hashed and read through one handle, and the features
\* are complete before the target file is opened.
ReadSource(q) ==
    /\ features = None /\ Authentic("source") /\ Bounded(q)
    /\ features' = q
    /\ UNCHANGED <<disk, replaced, assemblies, readiness, bundles, companions, scores>>

Joined(q) == IF Authentic("labels") THEN {q} ELSE {}

\* The targets are joined and the assembly certified, or nothing is.
ReadLabels ==
    /\ features # None
    /\ assemblies' = assemblies \cup Joined(features)
    /\ features' = None
    /\ UNCHANGED <<disk, replaced, readiness, bundles, companions, scores>>

Rows(q) == q.lo .. q.hi - 1

(***************************************************************************)
(* Calendar and manifests.                                                 *)
(***************************************************************************)

Fold(fit) == Calendar[fit]

Segment(fit, kind) ==
    LET f == Fold(fit)
    IN CASE kind = "BASE" -> [lo |-> D0, hi |-> f.c]
         [] kind = "CALIBRATION" -> [lo |-> f.c + Purge, hi |-> f.v]
         [] kind = "SCORE" -> [lo |-> f.v + Purge, hi |-> f.e]


Contains(segment, t) == segment.lo <= t /\ t + Purge < segment.hi

Scorable(fit) == Fold(fit).e # None

\* Everything that distinguishes two manifests: what was asked for, and which
\* candidate rows were selected and which were not.
Manifest(q, fit, kind) ==
    LET selected == {t \in Rows(q) : /\ Contains(Segment(fit, kind), t)
                                     /\ HasFeatures(t) /\ HasTarget(t)}
    IN [h |-> q.h, fit |-> fit, kind |-> kind,
        selected |-> selected, excluded |-> Rows(q) \ selected]

Manifests(kinds) ==
    {Manifest(q, k[1], k[2]) : q \in assemblies,
                               k \in {k \in (DOMAIN Calendar) \X kinds : k[2] = "SCORE" => Scorable(k[1])}}

\* The rows a caller supplies are accepted only if they rebuild the manifest.
Asserted(manifest, q) == manifest = Manifest(q, manifest.fit, manifest.kind)

\* Both horizons assembled, and the F1 base manifests rebuild from them.
Validate ==
    /\ readiness' = IF /\ \A f \in Files : Authentic(f)
                       /\ \A h \in Horizons : \E q \in assemblies : q.h = h
                    THEN "READY" ELSE "BLOCKED"
    /\ readiness' # readiness
    /\ UNCHANGED <<disk, replaced, features, assemblies, bundles, companions, scores>>

(***************************************************************************)
(* Fits and scores.                                                        *)
(***************************************************************************)

RoomForOne == Cardinality(bundles) + Cardinality(companions) + Cardinality(scores) < MaxArtifacts

\* What a fit and a score carry with them.
Bundle(base, cal) == [base |-> base, cal |-> cal]

Companion(role, primary, rows) == [role |-> role, primary |-> primary, rows |-> rows]

Score(by, primary, manifest, keys) ==
    [by |-> by, primary |-> primary, manifest |-> manifest, keys |-> keys]

\* BASE and CALIBRATION of one fit and one horizon, with their exact rows.
FitPipeline ==
    /\ RoomForOne
    /\ \E base \in Manifests({"BASE"}), cal \in Manifests({"CALIBRATION"}), q, r \in assemblies :
         /\ base.fit = cal.fit /\ base.h = cal.h
         /\ Asserted(base, q) /\ Asserted(cal, r)
         /\ base.selected # {} /\ cal.selected # {}
         /\ bundles' = bundles \cup {Bundle(base, cal)}
         /\ bundles' # bundles
         /\ UNCHANGED <<disk, replaced, features, assemblies, readiness, companions, scores>>

ShadowRows(base) ==
    LET c == Fold(base.fit).c
        lower == IF c > D0 + ShadowSpan THEN c - ShadowSpan ELSE D0
    IN {t \in base.selected : lower <= t /\ t + Purge < c}

CompanionRows(role, primary) ==
    IF role = "SHADOW" THEN ShadowRows(primary.base) ELSE primary.base.selected

\* A companion is fitted on its primary's own manifests and rows.
FitCompanion(role) ==
    /\ RoomForOne
    /\ \E primary \in bundles, q, r \in assemblies :
         LET rows == CompanionRows(role, primary)
         IN /\ Asserted(primary.base, q) /\ Asserted(primary.cal, r)
            /\ rows # {}
            /\ companions' = companions \cup {Companion(role, primary, rows)}
            /\ companions' # companions
            /\ UNCHANGED <<disk, replaced, features, assemblies, readiness, bundles, scores>>

\* Frozen-bundle prediction over the same fit's SCORE manifest.
ScoreBundle ==
    /\ RoomForOne
    /\ \E primary \in bundles, score \in Manifests({"SCORE"}), q \in assemblies :
         /\ score.fit = primary.base.fit /\ score.h = primary.base.h
         /\ Asserted(score, q)
         /\ scores' = scores \cup {Score("PRIMARY", primary, score, score.selected)}
         /\ scores' # scores
         /\ UNCHANGED <<disk, replaced, features, assemblies, readiness, bundles, companions>>

\* A companion is scored on keys its primary has scored, whichever of them the
\* caller hands in, under any SCORE manifest of the fit that selects them.
ScoreCompanion ==
    /\ RoomForOne
    /\ \E c \in companions, s \in scores, score \in Manifests({"SCORE"}), q \in assemblies :
         /\ s.by = "PRIMARY" /\ s.primary = c.primary
         /\ score.fit = c.primary.base.fit /\ score.h = c.primary.base.h
         /\ Asserted(score, q)
         /\ \E keys \in SUBSET (s.keys \cap score.selected) :
              scores' = scores \cup {Score(c.role, c.primary, score, keys)}
         /\ scores' # scores
         /\ UNCHANGED <<disk, replaced, features, assemblies, readiness, bundles, companions>>

Next == \/ \E f \in Files : ReplaceFile(f)
        \/ \E q \in Requests : ReadSource(q)
        \/ ReadLabels
        \/ Validate
        \/ FitPipeline
        \/ \E role \in {"SHADOW", "COMPARATOR"} : FitCompanion(role)
        \/ ScoreBundle
        \/ ScoreCompanion

Spec == Init /\ [][Next]_vars

\* Whatever manifests, rows and artifacts a caller combines, no label a fit
\* was trained on reaches into the rows it was calibrated on, none of either
\* into the rows it is scored on, none beyond development, and every score of
\* a companion is of a key its primary has scored (calendar.py, manifests.py,
\* orchestration.py, rolling_shadow.py, comparator.py).
NoLeak ==
    LET Before(A, B) == \A a \in A, b \in B : a + Purge < b
    IN /\ \A b \in bundles : /\ Before(b.base.selected, b.cal.selected)
                             /\ \A t \in b.cal.selected : t + Purge < H1
       /\ \A c \in companions : Before(c.rows, c.primary.cal.selected)
       /\ \A s \in scores : /\ Before(s.primary.cal.selected, s.keys)
                            /\ s.by # "PRIMARY" =>
                                 \E t \in scores : /\ t.by = "PRIMARY" /\ t.primary = s.primary
                                                   /\ s.keys \subseteq t.keys
                                                   /\ \E c \in companions : Before(c.rows, s.keys)
=============================================================================

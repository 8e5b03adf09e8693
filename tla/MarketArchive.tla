---------------------------- MODULE MarketArchive ----------------------------
(***************************************************************************)
(* Historical market data before any replay reads it.                      *)
(*                                                                         *)
(* Preparation (tools/research_v2/prepare_7d_data.py) collects one family  *)
(* of data after the other, each fetched with three attempts, each failure *)
(* recorded and passed over, and ends with the dataset manifest.  An       *)
(* answer or a file is "whole", "poor" when rows the window needs are      *)
(* missing from it, or "broken" when nothing can be made of it.            *)
(*                                                                         *)
(* Trades (market_data/raw_trades.py): operator-supplied daily archives    *)
(* are validated into manifests, and the certified replay asks them for    *)
(* the trades before a cutoff and for the last price at a cutoff.  The     *)
(* manifest is cached and the file read again at every question.  A trade  *)
(* is [id, t, price].                                                      *)
(***************************************************************************)
EXTENDS Integers, Sequences, FiniteSets

CONSTANTS None,
          Days,        \* 1..n: the UTC days with a daily archive
          DayLen,      \* instants of a day; day d starts at (d - 1) * DayLen
          Truth,       \* the trades that happened
          Supplies,    \* rows an operator may supply as some day's archive
          Lookback,    \* the length of the window before a cutoff
          MaxSpent     \* bound: failed attempts, poor answers and deaths

VARIABLES disk,        \* dataset files: family -> None or its state
          dataset,     \* dataset_manifest.json, None before the first run
          prep,        \* the preparation process
          archive,     \* the supplied daily files, None where there is none
          memo,        \* manifests cached by the replay: the rows attested
          response,    \* the last market data response
          spent

prepVars  == <<disk, dataset, prep, spent>>
tradeVars == <<archive, memo, response>>
vars      == <<prepVars, tradeVars>>

Families == <<"candles", "raw_trades", "funding", "mark_price", "instruments", "features">>

Family == {Families[i] : i \in DOMAIN Families}

(* summary: status of the families prepared in this run, "absent" for one  *)
(* that failed; files: what this run wrote, for the manifest.              *)
Idle == [at |-> 0, attempt |-> 0, errors |-> {},
         summary |-> [f \in Family |-> "absent"], files |-> {}]

Init == /\ disk = [f \in Family |-> None] /\ dataset = None /\ prep = Idle
        /\ archive = [d \in Days |-> None] /\ memo = [d \in Days |-> None]
        /\ response = None /\ spent = 0

---------------------------------------------------------------------------
(* The preparation of a dataset.                                           *)

Current == Families[prep.at]

Fetching == prep.at \in DOMAIN Families /\ Current # "features"

Begin == /\ prep.at = 0
         /\ prep' = [Idle EXCEPT !.at = 1]
         /\ UNCHANGED <<disk, dataset, spent, tradeVars>>

(* bybit_get and download_file: the third failure is the family's error.   *)
AttemptFails ==
    /\ Fetching /\ spent < MaxSpent /\ spent' = spent + 1
    /\ prep' = IF prep.attempt < 2 THEN [prep EXCEPT !.attempt = @ + 1]
               ELSE [prep EXCEPT !.at = @ + 1, !.attempt = 0, !.errors = @ \cup {Current}]
    /\ UNCHANGED <<disk, dataset, tradeVars>>

(* Candles must pass validation and metadata must exist before anything is *)
(* written.  A daily trade file is on disk when its rows are refused, and  *)
(* there it stays.                                                         *)
Refused(f, answer) == \/ f = "candles" /\ answer # "whole"
                      \/ f \in {"instruments", "raw_trades"} /\ answer = "broken"

(* Funding, mark prices and metadata are judged after the file is written; *)
(* a trade file is ready when it has a row at all.                         *)
Judged(f, answer) ==
    IF answer = "whole" \/ f = "raw_trades" THEN "READY" ELSE "DATA_INVALID"

FileRecord(f, answer) == <<f, answer>>

Written(f, answer) ==
    [prep EXCEPT !.at = @ + 1, !.attempt = 0, !.files = @ \cup {FileRecord(f, answer)},
                 !.summary[f] = Judged(f, answer)]

(* A daily trade file is downloaded only when it is not there yet.         *)
Answers == IF Current = "raw_trades" /\ disk[Current] # None
           THEN {disk[Current]} ELSE {"whole", "poor", "broken"}

Prepare ==
    /\ Fetching
    /\ \E answer \in Answers :
        /\ IF answer # "whole" /\ disk[Current] # answer
           THEN spent < MaxSpent /\ spent' = spent + 1 ELSE UNCHANGED spent
        /\ IF Refused(Current, answer)
           THEN /\ prep' = [prep EXCEPT !.at = @ + 1, !.attempt = 0, !.errors = @ \cup {Current}]
                /\ disk' = IF Current = "raw_trades" THEN [disk EXCEPT ![Current] = answer] ELSE disk
           ELSE /\ prep' = Written(Current, answer)
                /\ disk' = [disk EXCEPT ![Current] = answer]
    /\ UNCHANGED <<dataset, tradeVars>>

(* feature_readiness reads the candle file on disk, of whichever run; the  *)
(* history in it may not do for every feature.                             *)
Features ==
    /\ prep.at \in DOMAIN Families /\ Current = "features"
    /\ IF disk["candles"] = None
       THEN prep' = [prep EXCEPT !.at = @ + 1, !.errors = @ \cup {Current},
                                 !.summary[Current] = "NOT_READY"]
       ELSE \E readiness \in {"READY", "NOT_READY"} :
                prep' = [prep EXCEPT !.at = @ + 1, !.summary[Current] = readiness]
    /\ UNCHANGED <<disk, dataset, spent, tradeVars>>

\* Mutant: the families that were summarised are ready, whatever failed.
DataReadyMutant == \A f \in Family : prep.summary[f] \in {"READY", "absent"}

(* Every job's readiness quantifies over the summaries there are.          *)
DataReady == /\ prep.errors = {}
             /\ \A f \in Family : prep.summary[f] \in {"READY", "absent"}

WriteManifest ==
    /\ prep.at = Len(Families) + 1
    /\ dataset' = [status |-> IF DataReady THEN "DATA_READY" ELSE "BLOCKED_DATA_INCOMPLETE",
                   files |-> prep.files]
    /\ prep' = Idle
    /\ UNCHANGED <<disk, spent, tradeVars>>

(* The files stay; an old manifest does too.                               *)
Die == /\ prep.at # 0 /\ spent < MaxSpent /\ spent' = spent + 1
       /\ prep' = Idle
       /\ UNCHANGED <<disk, dataset, tradeVars>>

---------------------------------------------------------------------------
(* Daily trade archives and the questions of the certified replay.         *)

DayOf(t) == t \div DayLen + 1

(* The operator puts a file in place, or replaces it, at any time.         *)
Supply(d) == /\ \E rows \in Supplies : rows # archive[d] /\ archive' = [archive EXCEPT ![d] = rows]
             /\ UNCHANGED <<memo, response, prepVars>>

(* Two rows of one trade identity that differ.                             *)
Conflicting(rows) == \E r, s \in rows : r.id = s.id /\ r # s

(* bybit_raw_trade_archive_manifest: rows, all of that UTC day, no two of  *)
(* one identity that differ.                                               *)
Valid(d, rows) == /\ rows # {} /\ ~Conflicting(rows)
                  /\ \A r \in rows : DayOf(r.t) = d

(* The manifest of the cutoff's day, built once per process: the digest in *)
(* it, here the rows, is never compared with the file again.               *)
Manifest(d) == \/ memo[d] # None /\ UNCHANGED memo
               \/ /\ memo[d] = None /\ archive[d] # None /\ Valid(d, archive[d])
                  /\ memo' = [memo EXCEPT ![d] = archive[d]]

\* Mutant: only the day the range ends in.
RequiredDatesMutant(from, to) == {DayOf(to - 1)}

(* _required_utc_dates of the half-open range.                             *)
RequiredDates(from, to) == {d \in Days : DayOf(from) <= d /\ d <= DayOf(to - 1)}

(* read_bybit_public_trade_archive: the rows of the file as it is now, of  *)
(* whatever day, refused only when two of them conflict.                   *)
ReadArchive(d) == archive[d]

(* _dedupe_records over the days read.                                     *)
Records(dates) == UNION {ReadArchive(d) : d \in dates}

InRange(rows, from, to) == {r \in rows : from <= r.t /\ r.t < to}

(* (time, id) orders the trades.                                           *)
Latest(rows, t) ==
    LET eligible == {r \in rows : r.t <= t} IN
    IF eligible = {} THEN None
    ELSE CHOOSE r \in eligible : \A s \in eligible : s.t < r.t \/ (s.t = r.t /\ s.id <= r.id)

Asked(kind, cutoff, status, data) ==
    response' = [kind |-> kind, cutoff |-> cutoff, status |-> status, data |-> data,
                 file |-> archive[DayOf(cutoff)], attested |-> memo'[DayOf(cutoff)]]

(* build_unavailable_raw_trades_response: an answer all the same.          *)
WithoutTrades(cutoff) == Asked("raw", cutoff, "UNAVAILABLE", {})

(* build_bybit_archive_raw_trades_response with the one manifest of the    *)
(* cutoff's day: a window that reaches into the day before is unavailable. *)
RawTrades(cutoff) ==
    LET from == cutoff - Lookback
        dates == RequiredDates(from, cutoff) IN
    /\ Manifest(DayOf(cutoff))
    /\ IF dates \subseteq {DayOf(cutoff)}
       THEN ~Conflicting(Records(dates)) /\ Asked("raw", cutoff, "AVAILABLE", InRange(Records(dates), from, cutoff))
       ELSE WithoutTrades(cutoff)
    /\ UNCHANGED <<archive, prepVars>>

(* The price is taken from all records of the day, cut at the instant; at  *)
(* midnight the range is empty and the request raises.                     *)
LastPrice(cutoff) ==
    LET d == DayOf(cutoff)
        from == (d - 1) * DayLen
        chosen == Latest(Records(RequiredDates(from, cutoff)), cutoff) IN
    /\ Manifest(d) /\ from < cutoff /\ ~Conflicting(archive[d])
    /\ IF chosen = None THEN Asked("price", cutoff, "UNAVAILABLE", {})
                        ELSE Asked("price", cutoff, "AVAILABLE", {chosen})
    /\ UNCHANGED <<archive, prepVars>>

(* A missing or invalid archive, an empty range, or a file that conflicts  *)
(* with itself by now, is an error.                                        *)
Unreadable(cutoff) ==
    LET d == DayOf(cutoff) IN
    /\ \/ cutoff % DayLen = 0
       \/ memo[d] = None /\ (archive[d] # None => ~Valid(d, archive[d]))
       \/ memo[d] # None /\ Conflicting(archive[d])
    /\ UNCHANGED <<archive, memo, prepVars>>
    /\ Asked("error", cutoff, "UNAVAILABLE", {})

(* A new replay process starts with empty caches.                          *)
RestartReplay == /\ \E d \in Days : memo[d] # None
                 /\ memo' = [d \in Days |-> None] /\ response' = None
                 /\ UNCHANGED <<archive, prepVars>>

Cutoffs == Lookback .. (Cardinality(Days) * DayLen - 1)

Preparation == Begin \/ AttemptFails \/ Prepare \/ Features \/ WriteManifest \/ Die

Trades == \/ \E d \in Days : Supply(d)
          \/ \E t \in Cutoffs : RawTrades(t) \/ LastPrice(t) \/ Unreadable(t)
          \/ RestartReplay

---------------------------------------------------------------------------
(* A dataset declared ready has every family, and each file it lists is    *)
(* whole, whatever failed, was retried or was left by an earlier run: all  *)
(* but the trade files, whose rows are counted and not compared with what  *)
(* was traded, but which are never broken.                                 *)
ReadyIsWhole ==
    dataset # None /\ dataset.status = "DATA_READY" =>
        /\ {r[1] : r \in dataset.files} = Family \ {"features"}
        /\ \A r \in dataset.files :
             IF r[1] = "raw_trades" THEN r[2] # "broken" ELSE r[2] = "whole"

(* Truth of one day.                                                       *)
Traded(d) == {r \in Truth : DayOf(r.t) = d}

(* When the file the answer was read from is the whole day, an AVAILABLE   *)
(* window holds every trade that happened in it, also at the turn of a     *)
(* day, and an AVAILABLE price is that of the day's last trade at or       *)
(* before the cutoff.  When it is the file the manifest was made of, the   *)
(* answer holds trades of the cutoff's day only, one per identity.  A file *)
(* replaced under its manifest is held to neither.                         *)
WindowIsCovered ==
    response # None /\ response.status = "AVAILABLE" =>
        LET t == response.cutoff
            today == Traded(DayOf(t)) IN
        /\ response.file = today =>
             IF response.kind = "raw" THEN response.data = InRange(Truth, t - Lookback, t)
                                      ELSE response.data = {Latest(today, t)}
        /\ response.file = response.attested =>
             /\ \A r \in response.data : DayOf(r.t) = DayOf(t)
             /\ ~Conflicting(response.data)
=============================================================================

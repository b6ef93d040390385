---------------------------- MODULE BenchResults ----------------------------
(***************************************************************************)
(* The history of benchmark results: the tables that save_results          *)
(* (src/bench/bench.py) writes, and what src/bench/plot_history.py makes   *)
(* of them.  A database is a record of                                     *)
(*   runs    : the rows of bench_runs;                                     *)
(*   samples : run id -> kind -> the values of bench_samples;              *)
(*   next    : the next id of bench_runs (AUTOINCREMENT).                  *)
(* A version is what git describe prints: a tag and the number of commits  *)
(* since then, which is in the text only if there are any.                 *)
(***************************************************************************)
EXTENDS Integers, SequencesExt

EmptyDb == [runs |-> {}, samples |-> << >>, next |-> 1]

\* Mutation of DeleteVersion: the version was meant to be replaced, and is not looked for.
DeleteNothing(db, version) == db

\* The first transaction: everything there is of the version.
DeleteVersion(db, version) ==
    LET old == {r \in db.runs : r.version = version}
        ids == {r.id : r \in old}
    IN  [db EXCEPT !.runs = @ \ old,
                   !.samples = [i \in DOMAIN @ \ ids |-> @[i]]]

\* The second transaction: a row for each scenario of the run, and its samples.
InsertRun(db, version, run_at, names, results) ==
    LET id(k) == db.next + k - 1
        N == Len(names)
    IN  [runs |-> db.runs \cup
                    {[id |-> id(k), run_at |-> run_at, version |-> version,
                      scenario |-> names[k], n |-> Len(results[names[k]].rtt)] : k \in 1..N},
         samples |-> [i \in DOMAIN db.samples \cup {id(k) : k \in 1..N} |->
                         IF i \in DOMAIN db.samples THEN db.samples[i]
                         ELSE results[names[i - db.next + 1]]],
         next |-> db.next + N]

---------------------------------------------------------------------------
(* plot_history                                                            *)

ScenarioKind(scenario) ==
    CASE scenario = "match" -> "fill"
      [] scenario \in {"cancel", "mixed"} -> "cancel"
      [] OTHER -> "ack"

IsExactTag(version) == version.ahead = 0

\* load_data: per version and scenario, the row that comes last in the order of run_at.
LoadedVersions(db) == {r.version : r \in {x \in db.runs : IsExactTag(x.version)}}

LoadedScenarios(db, version) == {r.scenario : r \in {x \in db.runs : x.version = version}}

LoadedRow(db, version, scenario) ==
    CHOOSE r \in db.runs :
        /\ r.version = version /\ r.scenario = scenario
        /\ \A x \in db.runs :
               x.version = version /\ x.scenario = scenario => x.run_at <= r.run_at

\* The values its chart is computed from: round trips, and the scenario's own track.
LoadedEntry(db, version, scenario) ==
    LET s == db.samples[LoadedRow(db, version, scenario).id]
    IN  [rtt |-> s.rtt, int |-> s[ScenarioKind(scenario)]]

---------------------------------------------------------------------------
(* Percentiles                                                             *)

\* _pct, in hundredths: the value at rank (n - 1) * p / 100, between two values in
\* proportion.
Pct(data, p) ==
    LET s   == SortSeq(data, <)
        idx == (Len(s) - 1) * p
        lo  == idx \div 100
        hi  == IF lo + 1 < Len(s) - 1 THEN lo + 1 ELSE Len(s) - 1
    IN  IF data = << >> THEN 0
        ELSE 100 * s[lo + 1] + (s[hi + 1] - s[lo + 1]) * (idx % 100)

\* The percentiles of every short list of values do not depend on its order, grow with p,
\* lie between the smallest and the greatest value, and p50 is the median.
ASSUME PctAssumption ==
    \A data \in UNION {[1..n -> 0..3] : n \in 1..4} :
        LET s == SortSeq(data, <)
            n == Len(s)
        IN  /\ \A p \in {50, 95, 99} : Pct(data, p) = Pct(s, p)
            /\ 100 * s[1] <= Pct(data, 50)
            /\ Pct(data, 50) <= Pct(data, 95) /\ Pct(data, 95) <= Pct(data, 99)
            /\ Pct(data, 99) <= 100 * s[n]
            /\ 2 * Pct(data, 50) = 100 * (s[(n + 1) \div 2] + s[(n + 2) \div 2])
=============================================================================

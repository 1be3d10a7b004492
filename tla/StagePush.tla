------------------------------- MODULE StagePush -------------------------------
(***************************************************************************)
(* What the dashboards are told of the stage log (src/stage-stats.js,      *)
(* computeAggregate and recomputeAndPush): who took how many candidates    *)
(* over the landmark this week.  A webhook or a sweep that changed the log *)
(* pushes to all of the dashboards, which may be lost; each also pulls.    *)
(* Their side, the monotonic guard on asOfMs and the week, is external.    *)
(***************************************************************************)
EXTENDS Integers, Sequences, FiniteSets

CONSTANTS
    Pairs,          \* (candidate, job)
    Users,          \* RF users who move candidates
    Targets,        \* the dashboards
    Reports,        \* executions of recomputeAndPush and of handleAggregatePull
    Week,           \* the length of a week
    Gap,            \* the longest time between D1's read and the stamp
    MaxRows, MaxPushTime

ASSUME PushConstants ==
    /\ {Week, Gap, MaxRows, MaxPushTime} \subseteq Nat /\ Week > 0
    /\ "null" \notin Users

VARIABLES
    pushTime,
    log,        \* the crossings, a sequence of [pair, at, mover, stored]
    reports,    \* [Reports -> the report, a record]
    shown       \* [Targets -> what the dashboard shows]

pushVars == <<pushTime, log, reports, shown>>

Unknown == "null"       \* mover_rf_id IS NULL
NoCounts == <<>>
Resting == [step |-> "idle", week |-> 0, counts |-> NoCounts, began |-> 0, read |-> 0, asOf |-> 0,
            to |-> {}, tries |-> 0]

PushInit ==
    /\ pushTime = 0 /\ log = <<>>
    /\ reports = [r \in Reports |-> Resting]
    /\ shown = [d \in Targets |-> [counts |-> NoCounts, asOf |-> -1, week |-> -1]]

Rows == {log[i] : i \in DOMAIN log}
WeekOf(t) == t \div Week

-----------------------------------------------------------------------------
\* Mutant: of a pair's rows in the week the latest.
CountedIn_WeekFirst(rows, row, week) ==
    /\ WeekOf(row.at) = week
    /\ \A o \in rows : o.pair = row.pair /\ WeekOf(o.at) = week => o.at <= row.at

(***************************************************************************)
(* aggregateSql: a pair counts for its latest row alone, and at the same   *)
(* instant for one that names its mover.                                   *)
(***************************************************************************)
CountedIn(rows, row, week) ==
    /\ WeekOf(row.at) = week
    /\ \A o \in rows : o.pair = row.pair =>
         o.at < row.at \/ (o.at = row.at /\ (row.mover # Unknown \/ o.mover = Unknown))

CountedPairs(rows, u, week) == {row.pair : row \in {r \in rows : r.mover = u /\ CountedIn(rows, r, week)}}

Aggregate(rows, week) == [u \in Users \cup {Unknown} |-> Cardinality(CountedPairs(rows, u, week))]

\* A report begins with the choice of its week.
Begins(ds) ==
    \E r \in Reports :
      /\ reports[r].step = "idle"
      /\ reports' = [reports EXCEPT ![r] = [Resting EXCEPT !.step = "read", !.week = WeekOf(pushTime),
                                                          !.began = pushTime, !.to = ds]]

\* A crossing is found, at once or late, and pushed; a backfill's is not, nor one
\* that is not the last of its sweep.
Stores(pair, at, mover) ==
    /\ Len(log) < MaxRows
    /\ \A row \in Rows : ~(row.pair = pair /\ row.at = at /\ (row.mover = Unknown) = (mover = Unknown))
    /\ log' = Append(log, [pair |-> pair, at |-> at, mover |-> mover, stored |-> pushTime])
    /\ Begins(Targets) \/ UNCHANGED reports
    /\ UNCHANGED <<pushTime, shown>>

\* The dashboard's puller, for the week it is in.
Pulls(d) == Begins({d}) /\ UNCHANGED <<pushTime, log, shown>>

Reads(r) ==
    /\ reports[r].step = "read"
    /\ reports' = [reports EXCEPT ![r].step = "stamp", ![r].read = pushTime,
                                  ![r].counts = Aggregate(Rows, reports[r].week)]
    /\ UNCHANGED <<pushTime, log, shown>>

\* Mutant: the stamp is the time the report began.
Stamps_Early(r) ==
    /\ reports[r].step = "stamp"
    /\ reports' = [reports EXCEPT ![r].step = "send", ![r].asOf = reports[r].began,
                                  ![r].began = 0, ![r].read = 0]
    /\ UNCHANGED <<pushTime, log, shown>>

Stamps(r) ==
    /\ reports[r].step = "stamp"
    /\ reports' = [reports EXCEPT ![r].step = "send", ![r].asOf = pushTime, ![r].began = 0, ![r].read = 0]
    /\ UNCHANGED <<pushTime, log, shown>>

\* D1 fails, or the runtime ends the waitUntil: nothing is thrown, nothing is sent.
Absorbed(r) ==
    /\ reports[r].step # "idle"
    /\ reports' = [reports EXCEPT ![r] = Resting]
    /\ UNCHANGED <<pushTime, log, shown>>

\* window_mismatch and stale are 409; on equal stamps either may stand.
Accepts(d, report) ==
    IF report.week = WeekOf(pushTime) /\ report.asOf > shown[d].asOf THEN {TRUE}
    ELSE IF report.week = WeekOf(pushTime) /\ report.asOf = shown[d].asOf THEN BOOLEAN ELSE {FALSE}

\* An answer below 500 settles it; an error, which may follow an acceptance, is
\* retried once.  The dashboards do not wait for each other.
Delivers(r, d) ==
    LET report == reports[r]
        Settled == [report EXCEPT !.to = @ \ {d}, !.tries = 0,
                                  !.step = IF report.to = {d} THEN "idle" ELSE "send"]
    IN  /\ report.step = "send" /\ d \in report.to
        /\ \E applied \in Accepts(d, report) \cup {FALSE} :
             shown' = IF applied THEN [shown EXCEPT ![d] = [counts |-> report.counts, asOf |-> report.asOf,
                                                            week |-> report.week]]
                      ELSE shown
        /\ \/ reports' = [reports EXCEPT ![r] = IF Settled.step = "idle" THEN Resting ELSE Settled]
           \/ report.tries = 0 /\ reports' = [reports EXCEPT ![r].tries = 1]
        /\ UNCHANGED <<pushTime, log>>

PushTick ==
    /\ pushTime < MaxPushTime
    /\ \A r \in Reports : reports[r].step = "stamp" => pushTime < reports[r].read + Gap
    /\ pushTime' = pushTime + 1
    /\ UNCHANGED <<log, reports, shown>>

PushNext ==
    \/ \E pair \in Pairs, at \in 0 .. pushTime, u \in Users \cup {Unknown} : Stores(pair, at, u)
    \/ \E d \in Targets : Pulls(d)
    \/ \E r \in Reports :
         \/ Reads(r) \/ Stamps(r) \/ Absorbed(r)
         \/ \E d \in Targets : Delivers(r, d)
    \/ PushTick

PushSpec == PushInit /\ [][PushNext]_pushVars

-----------------------------------------------------------------------------
PushTypeOK ==
    /\ pushTime \in 0 .. MaxPushTime
    /\ \A row \in Rows : row.pair \in Pairs /\ row.mover \in Users \cup {Unknown} /\ row.at <= row.stored
    /\ \A r \in Reports :
         /\ reports[r].step \in {"idle", "read", "stamp", "send"}
         /\ reports[r].to \subseteq Targets /\ reports[r].tries \in {0, 1}

\* The log's first n rows.
Prefix(n) == {log[i] : i \in 1 .. n}

(***************************************************************************)
(* What a dashboard shows was the log's count, of a week, at an instant    *)
(* not after its stamp and at most Gap before it (stage-stats.js:809-813): *)
(* within that gap an older count may stand for a newer one.               *)
(***************************************************************************)
ShownWasTrue ==
    \A d \in Targets : shown[d].counts # NoCounts =>
      \E n \in 0 .. Len(log) :
        /\ shown[d].counts = Aggregate(Prefix(n), shown[d].week)
        /\ \A i \in DOMAIN log : IF i <= n THEN log[i].stored <= shown[d].asOf
                                 ELSE log[i].stored >= shown[d].asOf - Gap

(***************************************************************************)
(* A pair counts in one week, and for one mover (stage-stats.js:451-457).  *)
(***************************************************************************)
PairsCountOnce ==
    LET Places == (Users \cup {Unknown}) \X (0 .. WeekOf(pushTime))
    IN  \A row \in Rows : \E place \in Places : \A other \in Places :
          row.pair \in CountedPairs(Rows, other[1], other[2]) <=> other = place
=============================================================================

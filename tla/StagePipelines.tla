----------------------------- MODULE StagePipelines -----------------------------
(***************************************************************************)
(* By which list of stages a move is judged (src/stage-stats.js,           *)
(* getPipelineStages, classifyTransitionForJob, passesSubmissionGate): the *)
(* invocation's memo, else KV for a day, else RF's answer; a list from KV  *)
(* that cannot place the move is fetched again.  One job, whose stages the *)
(* user edits.                                                             *)
(***************************************************************************)
EXTENDS Integers, StageLadder

CONSTANTS
    Lists,          \* the stage lists that the job may have
    Interviews,     \* the names that match /interview/i
    Judged,         \* what is judged, [kind, from, to]: a transition to be classified, or a
                    \* search row to be gated, with its stage and the one before
    Invocations,    \* webhook, sweep and backfill executions
    ListTTL,        \* PIPELINE_KV_TTL_S
    Span,           \* how long an invocation takes at most
    MaxEdits, MaxListTime

ASSUME ListConstants ==
    /\ {ListTTL, Span, MaxEdits, MaxListTime} \subseteq Nat /\ ListTTL > 0 /\ Span > 0
    /\ <<>> \notin Lists

VARIABLES
    listTime,
    live,           \* the job's list in RF, or Gone
    cached,         \* stagestats:pipeline:{job} in KV: [list, expires]
    inv,            \* [Invocations -> the invocation, a record]
    listEdits,
    \* History, read by the properties only:
    lived           \* [time -> the lists that the job had at that time]

listVars == <<listTime, live, cached, inv, listEdits, lived>>

Gone == <<>>
NoMove == [kind |-> "none", from |-> NoStage, to |-> NoStage]
Waiting == [step |-> "idle", began |-> 0, memo |-> Gone, fresh |-> FALSE, heals |-> FALSE,
            answer |-> Gone, move |-> NoMove, verdict |-> "none"]

PipelinesInit ==
    /\ listTime = 0 /\ live \in Lists
    /\ cached = [list |-> Gone, expires |-> 0]
    /\ inv = [i \in Invocations |-> Waiting]
    /\ listEdits = 0
    /\ lived = [t \in 0 .. MaxListTime |-> IF t = 0 THEN {live} ELSE {}]

\* The user edits the stages, or deletes the job.
ListEdited(list) ==
    /\ listEdits < MaxEdits /\ live # Gone /\ list # live
    /\ live' = list /\ listEdits' = listEdits + 1
    /\ lived' = [lived EXCEPT ![listTime] = @ \cup {list}]
    /\ UNCHANGED <<listTime, cached, inv>>

-----------------------------------------------------------------------------
To(i, step) == [inv EXCEPT ![i].step = step]
Decides(i, verdict) == [inv EXCEPT ![i].step = "judged", ![i].verdict = verdict]

\* ingestCandidate takes the next transition, ingestWindow the next row; the memo stays.
TakesMove(i, m) ==
    /\ inv[i].step \in {"idle", "judged"}
    /\ inv' = [inv EXCEPT ![i] = [inv[i] EXCEPT
                            !.step = "get", !.move = m, !.verdict = "none", !.heals = FALSE,
                            !.began = IF inv[i].step = "idle" THEN listTime ELSE inv[i].began]]
    /\ UNCHANGED <<listTime, live, cached, listEdits, lived>>

Ends(i) ==
    /\ inv[i].step = "judged"
    /\ inv' = [inv EXCEPT ![i] = Waiting]
    /\ UNCHANGED <<listTime, live, cached, listEdits, lived>>

\* Mutant: what KV holds counts as fetched.
Gets_Fresh(i) ==
    /\ inv[i].step = "get"
    /\ inv' = IF inv[i].memo # Gone THEN To(i, "judge")
              ELSE IF cached.expires > listTime
                   THEN [inv EXCEPT ![i].step = "judge", ![i].memo = cached.list, ![i].fresh = TRUE]
                   ELSE To(i, "fetch")
    /\ UNCHANGED <<listTime, live, cached, listEdits, lived>>

Gets(i) ==
    /\ inv[i].step = "get"
    /\ inv' = IF inv[i].memo # Gone THEN To(i, "judge")
              ELSE IF cached.expires > listTime
                   THEN [inv EXCEPT ![i].step = "judge", ![i].memo = cached.list, ![i].fresh = FALSE]
                   ELSE To(i, "fetch")
    /\ UNCHANGED <<listTime, live, cached, listEdits, lived>>

\* A 404 says that the job is gone: nothing is classified and a row has nothing to
\* track, but a classification that only wanted to heal keeps its list.
Fetches(i) ==
    /\ inv[i].step = "fetch"
    /\ inv' = IF live # Gone THEN [inv EXCEPT ![i].step = "put", ![i].answer = live]
              ELSE IF inv[i].heals /\ inv[i].move.kind = "classify"
                   THEN [inv EXCEPT ![i].step = "judge"]
                   ELSE Decides(i, IF inv[i].move.kind = "gate" THEN "dropped" ELSE "unflagged")
    /\ UNCHANGED <<listTime, live, cached, listEdits, lived>>

\* RF fails, or answers an empty summary: the candidate fails, or is kept.
FetchThrows(i) ==
    /\ inv[i].step = "fetch"
    /\ inv' = Decides(i, IF inv[i].move.kind = "gate" THEN "kept" ELSE "failed")
    /\ UNCHANGED <<listTime, live, cached, listEdits, lived>>

Puts(i) ==
    /\ inv[i].step = "put"
    /\ cached' = [list |-> inv[i].answer, expires |-> listTime + ListTTL]
    /\ inv' = [inv EXCEPT ![i].step = "judge", ![i].memo = inv[i].answer, ![i].fresh = TRUE,
                          ![i].answer = Gone]
    /\ UNCHANGED <<listTime, live, listEdits, lived>>

Unplaced(list, stage) == stage \notin {NoStage, Disqualified} /\ IndexOf(list, stage) = 0

\* What a list from KV is fetched again for.
Doubtful(list, move) ==
    \/ ~HasLandmark(list)
    \/ move.kind = "classify" /\ (Unplaced(list, move.from) \/ Unplaced(list, move.to))

\* classifyAgainstPipeline, isIvLanding: the first interview in submitted territory.
IsIvLanding(list, to) ==
    /\ InTerritory(list, to) /\ to \in Interviews
    /\ \A i \in 1 .. IndexOf(list, to) - 1 : ~(InTerritory(list, list[i]) /\ list[i] \in Interviews)

Classified(list, move) ==
    CASE IsCvCross(list, move.from, move.to) /\ IsIvLanding(list, move.to) -> "both"
      [] IsCvCross(list, move.from, move.to) /\ ~IsIvLanding(list, move.to) -> "cv"
      [] ~IsCvCross(list, move.from, move.to) /\ IsIvLanding(list, move.to) -> "iv"
      [] OTHER -> "unflagged"

Judges(i) ==
    LET list == inv[i].memo
        move == inv[i].move
    IN  /\ inv[i].step = "judge"
        /\ inv' = IF Doubtful(list, move) /\ ~inv[i].fresh /\ ~inv[i].heals
                  THEN [inv EXCEPT ![i].step = "fetch", ![i].heals = TRUE]
                  ELSE Decides(i, IF move.kind = "classify" THEN Classified(list, move)
                                  ELSE IF PassesGate(list, move.to, move.from) THEN "kept" ELSE "dropped")
        /\ UNCHANGED <<listTime, live, cached, listEdits, lived>>

ListTick ==
    /\ listTime < MaxListTime
    /\ \A i \in Invocations : inv[i].step # "idle" => listTime < inv[i].began + Span
    /\ listTime' = listTime + 1
    /\ lived' = [lived EXCEPT ![listTime + 1] = {live}]
    /\ UNCHANGED <<live, cached, inv, listEdits>>

PipelinesNext ==
    \/ \E list \in Lists \cup {Gone} : ListEdited(list)
    \/ \E i \in Invocations :
         \/ \E m \in Judged : TakesMove(i, m)
         \/ Gets(i) \/ Fetches(i) \/ FetchThrows(i) \/ Puts(i) \/ Judges(i) \/ Ends(i)
    \/ ListTick

PipelinesSpec == PipelinesInit /\ [][PipelinesNext]_listVars

-----------------------------------------------------------------------------
PipelinesTypeOK ==
    /\ listTime \in 0 .. MaxListTime /\ live \in Lists \cup {Gone} /\ cached.list \in Lists \cup {Gone}
    /\ \A i \in Invocations :
         /\ inv[i].step \in {"idle", "get", "fetch", "put", "judge", "judged"}
         /\ inv[i].memo \in Lists \cup {Gone} /\ inv[i].answer \in Lists \cup {Gone}

LivedSince(list, t) == \E u \in 0 .. listTime : u >= t /\ list \in lived[u]

(***************************************************************************)
(* A move is judged by a list that the job had less than the lifetime of a *)
(* KV entry and two invocations ago; and what is left unflagged, or        *)
(* dropped, because a list has no landmark or no place for it, is so by a  *)
(* list that the job had during this invocation, or the job is gone        *)
(* (stage-stats.js:338-349, 684-688).                                      *)
(***************************************************************************)
JudgedByRecentList ==
    \A i \in Invocations :
      LET v == inv[i]
      IN  v.step = "judged" /\ v.memo # Gone =>
            /\ LivedSince(v.memo, listTime - (ListTTL + 2 * Span) + 1)
            /\ v.verdict \in {"unflagged", "dropped"} /\ Doubtful(v.memo, v.move) =>
                 LivedSince(v.memo, v.began) \/ LivedSince(Gone, v.began)
=============================================================================

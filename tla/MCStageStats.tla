----------------------------- MODULE MCStageStats -----------------------------
(***************************************************************************)
(* The statistics of stage moves: the log, with one candidate on a short   *)
(* ladder that ends off it and a cron's and an operator's sweep; how a     *)
(* move is judged, how the past is filled in, what is counted and pushed,  *)
(* and the walks over RF's lists that feed them.  A behaviour runs the one *)
(* that part names.                                                        *)
(***************************************************************************)
EXTENDS StageStats, StagePush, LondonWeeks, StagePipelines, StageBackfill, PagedSearch, FiniteSets, TLC

CONSTANT Parts

VARIABLE part

ShortLadder == <<"Sourced", "CV Sent", "Disqualified">>
Alike == Permutations(Sweeps)     \* which are the Reports and the Invocations too

\* The user renames the stage of the landmark.
JobLists == {<<"Sourced", "CV Sent", "Interview">>, <<"Sourced", "Screen", "Interview">>}
JudgedMoves == {[kind |-> "classify", from |-> "Sourced", to |-> "Interview"],
                [kind |-> "classify", from |-> NoStage, to |-> "CV Sent"],
                [kind |-> "gate", from |-> "Sourced", to |-> "Interview"]}

\* Of the part that has many initial states when it is not the one that runs.
Idle == 0

StatsInit ==
    /\ part \in Parts
    /\ Init /\ PushInit /\ WeeksInit
    /\ IF part = "pipelines" THEN PipelinesInit
       ELSE /\ listTime = Idle /\ live = Idle /\ cached = Idle /\ inv = Idle /\ listEdits = Idle
            /\ lived = Idle
    /\ IF part = "backfill" THEN BackfillInit
       ELSE active = Idle /\ crossed = Idle /\ held = Idle /\ batch = Idle /\ walk = Idle
    /\ IF part = "paged" THEN PagedInit
       ELSE /\ listing = Idle /\ shifts = Idle /\ stayed = Idle /\ risen = Idle /\ withheld = Idle
            /\ gone = Idle
            /\ mode = Idle /\ page = Idle /\ attempt = Idle /\ found = Idle /\ counting = Idle
            /\ total = Idle /\ outcome = Idle

Others(p) ==
    /\ IF p = "log" THEN TRUE ELSE UNCHANGED vars
    /\ IF p = "push" THEN TRUE ELSE UNCHANGED pushVars
    /\ IF p = "weeks" THEN TRUE ELSE UNCHANGED hour
    /\ IF p = "pipelines" THEN TRUE ELSE UNCHANGED listVars
    /\ IF p = "backfill" THEN TRUE ELSE UNCHANGED backfillVars
    /\ IF p = "paged" THEN TRUE ELSE UNCHANGED pagedVars

Does(p, A) == part = p /\ A /\ Others(p) /\ UNCHANGED part

\* Pairs are alike: one is the first.
InTurn == log' # <<>> => log'[1].pair = CHOOSE p \in Pairs : TRUE

StatsNext ==
    \/ Does("log", Next)
    \/ Does("push", PushNext /\ InTurn)
    \/ Does("weeks", WeeksNext)
    \/ Does("pipelines", PipelinesNext)
    \/ Does("backfill", BackfillNext)
    \/ Does("paged", PagedNext)

statsVars == <<part, vars, pushVars, hour, listVars, backfillVars, pagedVars>>

StatsSpec == StatsInit /\ [][StatsNext]_statsVars

\* When RF is calm it does only what it may do before, so that the invariants need
\* no state in which it is; and two of the log's three processes are at work at once
\* (the theorems of StageStatsProofs are of any number).
Explored == ~calm /\ Cardinality({p \in Processes : pc[p] # "idle"}) <= 2

-----------------------------------------------------------------------------
\* The states of every part are well formed.
StatsTypeOK ==
    /\ TypeOK /\ PushTypeOK /\ WeeksTypeOK
    /\ part = "pipelines" => PipelinesTypeOK
    /\ part = "backfill" => BackfillTypeOK
    /\ part = "paged" => PagedTypeOK

\* What a dashboard shows was so a moment before its stamp, every pair counts in
\* one week, and the weeks are London's.
ReportedWasTrue == ShownWasTrue /\ PairsCountOnce /\ WeeksTile

\* A move is judged by a list of stages that the job has, or had lately, and a
\* backfill that says it is done has left no move out, nor has the walk it rests on
\* left out a candidate.
LogIsRight ==
    /\ part = "pipelines" => JudgedByRecentList
    /\ part = "backfill" => DoneIsComplete
    /\ part = "paged" => WalkIsWhole /\ StillListIsItself
=============================================================================

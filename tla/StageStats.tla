------------------------------- MODULE StageStats -------------------------------
(***************************************************************************)
(* The stage-movement event log (src/stage-stats.js): Recruiterflow moves  *)
(* candidates, its webhook and the hourly reconcile sweep both read the    *)
(* transactional list of moves and upsert what they find, and the sweep    *)
(* keeps a waterline below which nothing is read again.                    *)
(*                                                                         *)
(* RF's search index, which tells the sweep whom to look at, lags behind   *)
(* the list.  Every RF call is a step of its own; a call may fail and a    *)
(* search may be cut at its page cap while RF is not calm.                 *)
(*                                                                         *)
(* One job per candidate, and at most one move of it per tick (the second  *)
(* of RF's timestamps, which are the identity of a row).                   *)
(***************************************************************************)
EXTENDS Integers, Sequences, StageLadder

CONSTANTS
    Candidates,
    Pipeline,       \* the job's stages, in order
    Movers,         \* RF users
    Hooks,          \* executions of the webhook handler
    Sweeps,         \* executions of runReconcile: the cron's and the operator's
    Overlap,        \* RECONCILE_OVERLAP_MS, in ticks
    Lookback,       \* ENRICH_LOOKBACK_MS
    Lag,            \* how far RF's search index may be behind
    MaxMoves,       \* bound on the moves of one candidate
    MaxTime         \* bound on the clock

ASSUME StageConstants ==
    /\ {Overlap, Lookback, Lag, MaxMoves, MaxTime} \subseteq Nat
    /\ Lag <= Overlap
    /\ Pipeline \in Seq(STRING) /\ \A i \in DOMAIN Pipeline : Pipeline[i] # NoStage
    /\ Hooks \cap Sweeps = {}
    /\ "absent" \notin Movers

VARIABLES
    now,
    calm,       \* BOOLEAN, RF answers every call and in full
    moves,      \* [Candidates -> Seq of moves], RF's transactional list
    visible,    \* [Candidates -> how many of its moves the search index shows]
    stored,     \* [Candidates -> [1 .. MaxMoves -> the row's mover, or Absent]]
    waterline,  \* sync_state reconcile_waterline_ms, or NoWaterline
    pc,         \* [Hooks \cup Sweeps -> where it is]
    job         \* [Hooks \cup Sweeps -> its window, targets, failures and fetched rows]

rf == <<calm, moves, visible>>
vars == <<now, rf, stored, waterline, pc, job>>

NoWaterline == -1
Nobody == "nobody"      \* stage_moved_by missing
Absent == "absent"
Processes == Hooks \cup Sweeps
LadderStages == {Pipeline[i] : i \in DOMAIN Pipeline}

NoRows == [c |-> Absent, movers |-> <<>>]
NoJob == [after |-> 0, before |-> 0, targets |-> {}, failed |-> FALSE, got |-> NoRows]

Init ==
    /\ now = 0
    /\ calm = FALSE
    /\ moves = [c \in Candidates |-> <<>>]
    /\ visible = [c \in Candidates |-> 0]
    /\ stored = [c \in Candidates |-> [i \in 1 .. MaxMoves |-> Absent]]
    /\ waterline = NoWaterline
    /\ pc = [p \in Processes |-> "idle"]
    /\ job = [p \in Processes |-> NoJob]

-----------------------------------------------------------------------------
(***************************************************************************)
(* Recruiterflow.                                                          *)
(***************************************************************************)
\* The stage of c after its first n moves, and the one before.
StageAfter(c, n) == IF n = 0 THEN Pipeline[1] ELSE moves[c][n].to
StageBefore(c, n) == IF n = 0 THEN NoStage ELSE moves[c][n].from

Move(c, to, mover) ==
    LET n == Len(moves[c])
    IN  /\ now < MaxTime /\ n < MaxMoves
        /\ n > 0 => moves[c][n].at < now
        /\ to # StageAfter(c, n)
        /\ moves' = [moves EXCEPT ![c] =
                       Append(@, [at |-> now, from |-> StageAfter(c, n), to |-> to, mover |-> mover])]
        /\ UNCHANGED <<now, calm, visible, stored, waterline, pc, job>>

\* The mover of a move becomes known.
Attribute(c, i, mover) ==
    /\ moves[c][i].mover = Nobody
    /\ moves' = [moves EXCEPT ![c][i].mover = mover]
    /\ UNCHANGED <<now, calm, visible, stored, waterline, pc, job>>

IndexCatchesUp(c) ==
    /\ visible[c] < Len(moves[c])
    /\ visible' = [visible EXCEPT ![c] = Len(moves[c])]
    /\ UNCHANGED <<now, calm, moves, stored, waterline, pc, job>>

\* RF's troubles end, for good.
Calms ==
    /\ ~calm
    /\ calm' = TRUE
    /\ UNCHANGED <<now, moves, visible, stored, waterline, pc, job>>

Tick ==
    /\ now < MaxTime
    /\ \A c \in Candidates :
         visible[c] < Len(moves[c]) => moves[c][visible[c] + 1].at + Lag > now
    /\ now' = now + 1
    /\ UNCHANGED <<rf, stored, waterline, pc, job>>

-----------------------------------------------------------------------------
(***************************************************************************)
(* The webhook: enrich over the lookback window.  RF may deliver one late,  *)
(* twice or never.                                                         *)
(***************************************************************************)
HookArrives(p, c) ==
    /\ pc[p] = "idle" /\ moves[c] # <<>>
    /\ pc' = [pc EXCEPT ![p] = "fetch"]
    /\ job' = [job EXCEPT ![p] = [NoJob EXCEPT !.after = now - Lookback, !.before = now,
                                               !.targets = {c}]]
    /\ UNCHANGED <<now, rf, stored, waterline>>

(***************************************************************************)
(* runReconcile and ingestWindow.                                          *)
(***************************************************************************)
\* Mutant: the sweep starts where the last one ended.
SweepFrom_NoOverlap == IF waterline = NoWaterline THEN 0 ELSE waterline

\* Mutant: the overlap is added.
SweepFrom_WrongSign == IF waterline = NoWaterline THEN 0 ELSE waterline + Overlap

\* Without a waterline the window starts last week, before any modelled move.
SweepFrom == IF waterline = NoWaterline THEN 0 ELSE waterline - Overlap

SweepStarts(p) ==
    /\ pc[p] = "idle"
    /\ pc' = [pc EXCEPT ![p] = "search"]
    /\ job' = [job EXCEPT ![p] = [NoJob EXCEPT !.after = SweepFrom, !.before = now]]
    /\ UNCHANGED <<now, rf, stored, waterline>>

\* Search rows are as old as the index.  Candidates long inactive may be among
\* them: the date filter has the granularity of a day.
Found(p) ==
    {c \in Candidates : visible[c] > 0 /\ moves[c][visible[c]].at >= job[p].after}

GatedIn(c) == PassesGate(Pipeline, StageAfter(c, visible[c]), StageBefore(c, visible[c]))

\* Mutant: a search cut at the page cap counts as complete.
SearchAnswers_CutUnseen(p) ==
    /\ pc[p] = "search"
    /\ \E rows \in SUBSET Found(p) :
         /\ calm => rows = Found(p)
         /\ job' = [job EXCEPT ![p].targets = {c \in rows : GatedIn(c)}]
    /\ pc' = [pc EXCEPT ![p] = "fetch"]
    /\ UNCHANGED <<now, rf, stored, waterline>>

SearchAnswers(p) ==
    /\ pc[p] = "search"
    /\ \E rows \in SUBSET Found(p) :
         /\ calm => rows = Found(p)
         /\ job' = [job EXCEPT ![p].targets = {c \in rows : GatedIn(c)},
                               ![p].failed = (rows # Found(p))]
    /\ pc' = [pc EXCEPT ![p] = "fetch"]
    /\ UNCHANGED <<now, rf, stored, waterline>>

SearchFails(p) ==
    /\ pc[p] = "search" /\ ~calm
    /\ pc' = [pc EXCEPT ![p] = "idle"]
    /\ job' = [job EXCEPT ![p] = NoJob]
    /\ UNCHANGED <<now, rf, stored, waterline>>

-----------------------------------------------------------------------------
(***************************************************************************)
(* ingestCandidate, the same for both: fetch the moves in the window, then *)
(* upsert them.                                                            *)
(***************************************************************************)
InWindow(p, c) == {i \in DOMAIN moves[c] : job[p].after <= moves[c][i].at
                                           /\ moves[c][i].at < job[p].before}

Fetch(p, c) ==
    /\ pc[p] = "fetch" /\ c \in job[p].targets
    /\ job' = [job EXCEPT ![p].targets = @ \ {c},
                          ![p].got = [c |-> c,
                                      movers |-> [i \in InWindow(p, c) |-> moves[c][i].mover]]]
    /\ pc' = [pc EXCEPT ![p] = "write"]
    /\ UNCHANGED <<now, rf, stored, waterline>>

\* Mutant: a sweep forgets that a candidate failed.
FetchFails_Forgotten(p, c) ==
    /\ pc[p] = "fetch" /\ c \in job[p].targets /\ ~calm
    /\ job' = [job EXCEPT ![p].targets = @ \ {c}]
    /\ UNCHANGED <<now, rf, stored, waterline, pc>>

\* The moves or the pipeline could not be had: nothing of c is written, and a
\* webhook is answered with 500.
FetchFails(p, c) ==
    /\ pc[p] = "fetch" /\ c \in job[p].targets /\ ~calm
    /\ job' = [job EXCEPT ![p].targets = @ \ {c}, ![p].failed = p \in Sweeps]
    /\ UNCHANGED <<now, rf, stored, waterline, pc>>

\* Mutant: the upsert takes the mover it is given.
Upserted_Overwrites(row, mover) == mover

\* ON CONFLICT: COALESCE keeps a mover that is known.
Upserted(row, mover) ==
    IF mover # Nobody THEN mover ELSE IF row = Absent THEN Nobody ELSE row

Upsert(p) ==
    LET got == job[p].got
    IN  /\ pc[p] = "write"
        /\ stored' = [stored EXCEPT ![got.c] =
                        [i \in 1 .. MaxMoves |->
                           IF i \in DOMAIN got.movers THEN Upserted(@[i], got.movers[i]) ELSE @[i]]]
        /\ job' = [job EXCEPT ![p].got = NoRows]
        /\ pc' = [pc EXCEPT ![p] = "fetch"]
        /\ UNCHANGED <<now, rf, waterline>>

HookEnds(p) ==
    /\ pc[p] = "fetch" /\ job[p].targets = {}
    /\ pc' = [pc EXCEPT ![p] = "idle"]
    /\ job' = [job EXCEPT ![p] = NoJob]
    /\ UNCHANGED <<now, rf, stored, waterline>>

\* Mutant: the waterline is never written.
SweepEnds_NoWaterline(p) ==
    /\ pc[p] = "fetch" /\ job[p].targets = {}
    /\ pc' = [pc EXCEPT ![p] = "idle"]
    /\ job' = [job EXCEPT ![p] = NoJob]
    /\ UNCHANGED <<now, rf, stored, waterline>>

\* The waterline moves to the instant this sweep began, if nothing failed.
SweepEnds(p) ==
    /\ pc[p] = "fetch" /\ job[p].targets = {}
    /\ pc' = [pc EXCEPT ![p] = "idle"]
    /\ job' = [job EXCEPT ![p] = NoJob]
    /\ waterline' = IF job[p].failed THEN waterline ELSE job[p].before
    /\ UNCHANGED <<now, rf, stored>>

SweepStep(p) ==
    \/ SweepStarts(p) \/ SearchAnswers(p) \/ SearchFails(p) \/ SweepEnds(p)
    \/ \E c \in Candidates : Fetch(p, c) \/ FetchFails(p, c)
    \/ Upsert(p)

HookStep(p) ==
    \/ \E c \in Candidates : HookArrives(p, c) \/ Fetch(p, c) \/ FetchFails(p, c)
    \/ Upsert(p) \/ HookEnds(p)

Next ==
    \/ \E c \in Candidates :
         \/ \E to \in LadderStages, m \in Movers \cup {Nobody} : Move(c, to, m)
         \/ \E i \in DOMAIN moves[c], m \in Movers : Attribute(c, i, m)
         \/ IndexCatchesUp(c)
    \/ Calms \/ Tick
    \/ \E p \in Hooks : HookStep(p)
    \/ \E p \in Sweeps : SweepStep(p)

(***************************************************************************)
(* The cron starts a sweep every hour and a started one runs to its end;   *)
(* the index catches up, and RF's troubles end.  RF need not send a        *)
(* webhook.                                                                *)
(***************************************************************************)
Fairness ==
    /\ WF_vars(Calms)
    /\ \A p \in Sweeps : WF_vars(SweepStep(p))
    /\ \A c \in Candidates : WF_vars(IndexCatchesUp(c))
    /\ WF_vars(Tick)

Spec == Init /\ [][Next]_vars
FairSpec == Spec /\ Fairness

-----------------------------------------------------------------------------
MoveRecords == [at : 0 .. MaxTime, from : LadderStages, to : LadderStages,
                mover : Movers \cup {Nobody}]

TypeOK ==
    /\ now \in 0 .. MaxTime
    /\ calm \in BOOLEAN
    /\ moves \in [Candidates -> Seq(MoveRecords)]
    /\ \A c \in Candidates : visible[c] \in 0 .. Len(moves[c]) /\ Len(moves[c]) <= MaxMoves
    /\ stored \in [Candidates -> [1 .. MaxMoves -> Movers \cup {Nobody, Absent}]]
    /\ waterline \in {NoWaterline} \cup 0 .. MaxTime
    /\ pc \in [Processes -> {"idle", "search", "fetch", "write"}]
    /\ \A p \in Processes :
         /\ job[p].targets \subseteq Candidates
         /\ job[p].after <= job[p].before /\ job[p].before <= now

Crosses(c, i) ==
    i \in DOMAIN moves[c] /\ IsCvCross(Pipeline, moves[c][i].from, moves[c][i].to)

\* c has been put below the landmark after its i-th move.
RevertedAfter(c, i) ==
    \E j \in DOMAIN moves[c] :
      /\ j > i
      /\ moves[c][j].to # Disqualified
      /\ ~InTerritory(Pipeline, moves[c][j].to)

\* No sweep will read this move again.
BelowWindow(c, i) == waterline # NoWaterline /\ moves[c][i].at < waterline - Overlap

(***************************************************************************)
(* A CV Sent crossing that no sweep will read again is in the log, unless  *)
(* its candidate has since been put back below the landmark: whatever the  *)
(* index lag, failures, cut searches, lost webhooks and sweeps running at  *)
(* the same time (docs/stage-stats.md:222-225, stage-stats.js:1032-1049).  *)
(***************************************************************************)
LostOnlyByRevert ==
    \A c \in Candidates : \A i \in 1 .. MaxMoves :
      Crosses(c, i) /\ BelowWindow(c, i) =>
        stored[c][i] # Absent \/ RevertedAfter(c, i)

(***************************************************************************)
(* A row that names its mover never loses it, although a slower fetch from *)
(* before RF knew the mover may be written after (stage-stats.js:377-379). *)
(***************************************************************************)
AttributionKept ==
    [][\A c \in Candidates : \A i \in 1 .. MaxMoves :
         stored[c][i] \in Movers => stored'[c][i] \in Movers]_vars

(***************************************************************************)
(* If RF recovers, every crossing is in the log in the end, webhook or     *)
(* not, unless it was reverted (the failure matrix of docs/stage-stats.md).*)
(***************************************************************************)
CrossingsStored ==
    \A c \in Candidates : \A i \in 1 .. MaxMoves :
      Crosses(c, i) ~> stored[c][i] # Absent \/ RevertedAfter(c, i)
=============================================================================

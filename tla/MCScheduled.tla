------------------------------ MODULE MCScheduled ------------------------------
(***************************************************************************)
(* What the workers do on a schedule: the three subtasks of tailSyncThin   *)
(* (cache-worker/src/index.js), and the hourly reconcile sweep of the      *)
(* stage moves (src/stage-stats.js) where no webhook ever comes.  They     *)
(* share neither state nor lease, and none waits for another: what each    *)
(* does is what it does alone.  A behaviour runs the one that subtask      *)
(* names, so that their state spaces are added and not multiplied.         *)
(***************************************************************************)
EXTENDS CacheCandidates, CacheJobs, CacheCalls

CONSTANTS
    Subtasks,       \* the subtasks checked
    c1, c2, c3, j1, j2, j3,
    k1, Movers, Sweeps, SweepOverlap, Lookback, Lag, MaxMoves, MaxSweepTime

VARIABLES
    subtask,
    clock, calm, moves, visible, stored, waterline, sweepPc, job

sweepVars == <<clock, calm, moves, visible, stored, waterline, sweepPc, job>>

SharesProfile(c) == IF c \in {c1, c2} THEN "ada" ELSE NoProfile
NoneShares(c) == NoProfile

\* A short ladder that ends off it.
ShortLadder == <<"Sourced", "CV Sent", "Disqualified">>

Log == INSTANCE StageStats WITH
       Candidates <- {k1}, Pipeline <- ShortLadder, Hooks <- {}, Overlap <- SweepOverlap,
       MaxTime <- MaxSweepTime, now <- clock, pc <- sweepPc

SyncInit == subtask \in Subtasks /\ Init /\ JobsInit /\ CallsInit /\ Log!Init

Candidate(A) == subtask = "candidates" /\ A /\ UNCHANGED <<subtask, jobVars, callVars, sweepVars>>
Job(A) == subtask = "jobs" /\ A /\ UNCHANGED <<subtask, vars, callVars, sweepVars>>
Call(A) == subtask = "calls" /\ A /\ UNCHANGED <<subtask, vars, jobVars, sweepVars>>
Sweep(A) == subtask = "sweep" /\ A /\ UNCHANGED <<subtask, vars, jobVars, callVars>>

SyncNext == Candidate(Next) \/ Job(JobsNext) \/ Call(CallsNext) \/ Sweep(Log!Next)

syncVars == <<subtask, vars, jobVars, callVars, sweepVars>>

SyncSpec ==
    /\ SyncInit /\ [][SyncNext]_syncVars
    /\ WF_syncVars(Candidate(Runs))
    /\ WF_syncVars(Candidate(Tick))
    /\ WF_syncVars(Candidate(IndexCatchesUp))
    /\ WF_syncVars(Job(Step("tick")))
    /\ WF_syncVars(Sweep(Log!Calms))
    /\ WF_syncVars(Sweep(\E p \in Sweeps : Log!SweepStep(p)))
    /\ WF_syncVars(Sweep(Log!IndexCatchesUp(k1)))
    /\ WF_syncVars(Sweep(Log!Tick))

-----------------------------------------------------------------------------
\* The states of the three syncs are well formed.
TypesOK == TypeOK /\ JobsTypeOK /\ CallsTypeOK

\* Every job a page lists gets a row; every candidate added to RF is dealt with,
\* or the search is capped.  Of jobs and of candidates that are interchangeable
\* one is followed.
BacklogsLand ==
    /\ JobLands(j1)
    /\ subtask = "candidates" => CandidateLands(c1) /\ CandidateLands(c3)

\* What rf-list-client.js:253-255 says of a backlog beyond the cap.
HugeBacklogDrains == subtask = "candidates" => BacklogDrains

\* If RF recovers, the sweep alone stores every crossing that was not reverted,
\* and nothing pins the waterline: it catches up with the clock.
SweepRecovers == Log!CrossingsStored /\ []<>(subtask = "sweep" => waterline >= clock)
=============================================================================

---------------------------- MODULE MCStageStatsGap ----------------------------
(* The hole docs/stage-stats.md accepts, with the history it speaks of: the   *)
(* crossings a sweep ran to its end after, before they were reverted.         *)
EXTENDS StageStats
VARIABLE swept      \* SUBSET (Candidates \X (1 .. MaxMoves))

ShortLadder == <<"Sourced", "CV Sent", "Disqualified">>

\* What the sweep of p has had the time to see, if it ends now.
MetNow(p) ==
    {<<c, i>> \in Candidates \X (1 .. MaxMoves) :
       Crosses(c, i) /\ moves[c][i].at < job[p].before /\ ~RevertedAfter(c, i)}

GapInit == Init /\ swept = {}

GapNext ==
    /\ Next
    /\ swept' = swept \cup UNION {MetNow(p) : p \in {q \in Sweeps : SweepEnds(q)}}

GapSpec == GapInit /\ [][GapNext]_<<vars, swept>>

(***************************************************************************)
(* What docs/stage-stats.md:222-225 says of the one accepted hole: an      *)
(* event is lost only if its candidate was reverted below submission       *)
(* "before any sweep ran" (runReconcile, stage-stats.js:1068-1105).        *)
(***************************************************************************)
LostOnlyIfUnswept ==
    \A c \in Candidates : \A i \in 1 .. MaxMoves :
      Crosses(c, i) /\ BelowWindow(c, i) /\ stored[c][i] = Absent => <<c, i>> \notin swept
=============================================================================

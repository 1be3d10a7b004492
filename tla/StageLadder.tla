------------------------------ MODULE StageLadder ------------------------------
(***************************************************************************)
(* How a stage move is judged against the ordered pipeline of its job      *)
(* (src/stage-stats.js, "Classification"): the CV Sent landmark divides    *)
(* the ladder, and Disqualified is off it.                                 *)
(***************************************************************************)
EXTENDS Naturals, Sequences

Landmark == "CV Sent"
Disqualified == "Disqualified"
NoStage == ""

\* names.indexOf, 0 where the code has -1.
IndexOf(names, stage) ==
    IF \E i \in DOMAIN names : names[i] = stage
    THEN CHOOSE i \in DOMAIN names : names[i] = stage /\ \A j \in 1 .. i - 1 : names[j] # stage
    ELSE 0

HasLandmark(names) == IndexOf(names, Landmark) # 0

\* stagePosition and its use: absent, unknown and disqualified are not submitted.
InTerritory(names, stage) ==
    /\ HasLandmark(names)
    /\ stage # Disqualified
    /\ IndexOf(names, stage) >= IndexOf(names, Landmark)

\* classifyAgainstPipeline, isCvCross.
IsCvCross(names, from, to) == InTerritory(names, to) /\ ~InTerritory(names, from)

\* Mutant: a disqualified candidate is judged by where it is.
PassesGate_ByCurrent(names, cur, prev) == HasLandmark(names) /\ InTerritory(names, cur)

(***************************************************************************)
(* passesSubmissionGate for one job of a search row: keep what sits in     *)
(* submitted territory, and what cannot be told.                           *)
(***************************************************************************)
PassesGate(names, cur, prev) ==
    LET probe == IF cur = Disqualified THEN prev ELSE cur
    IN  /\ cur # NoStage
        /\ HasLandmark(names)
        /\ \/ probe = NoStage
           \/ IndexOf(names, probe) = 0
           \/ InTerritory(names, probe)
=============================================================================

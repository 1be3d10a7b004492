-------------------------------- MODULE MCMusic --------------------------------
(***************************************************************************)
(* The parts of the music remote's object: its command queue, with two     *)
(* picks, two enqueues and one restart; its demand gate, with three        *)
(* clients; and the commands it delivers at once.  The first two meet in   *)
(* the demand and the alarm, which each sees from its own side, the gate   *)
(* as counted and armed: a behaviour runs one of them.                     *)
(***************************************************************************)
EXTENDS MusicCommands, MusicUpstream, MusicTransport

CONSTANTS
    Halves,     \* the parts checked
    e1          \* one of the enqueues: what becomes of one becomes of each

VARIABLES half

Queue(A) == half = "queue" /\ A /\ UNCHANGED <<half, gateVars, transportVars>>
Demand(A) == half = "gate" /\ A /\ UNCHANGED <<half, vars, transportVars>>
Inline(A) == half = "inline" /\ A /\ UNCHANGED <<half, vars, gateVars>>

MusicInit == half \in Halves /\ Init /\ GateInit /\ TransportInit
MusicNext == Queue(Next) \/ Demand(GateNext) \/ Inline(TransportNext)
musicVars == <<half, vars, gateVars, transportVars>>

\* One of these at a time can be taken.
AlarmRuns == AlarmFires \/ DrainNothing \/ DrainSelect \/ Drained \/ RetryLater

\* As Fairness in MusicCommands, and no more of the gate's than that one of the
\* opens that are awaited ends.
MusicSpec ==
    /\ MusicInit /\ [][MusicNext]_musicVars
    /\ WF_musicVars(Queue(Tick))
    /\ WF_musicVars(Queue(AlarmRuns))
    /\ SF_musicVars(Demand(armed /\ Wake))
    /\ WF_musicVars(Demand(armed /\ Construct))
    /\ WF_musicVars(Demand(\E ok \in BOOLEAN : Opened(ok)))

MusicSafety == MusicInit /\ [][MusicNext]_musicVars

-----------------------------------------------------------------------------
\* The states of all parts are well formed.
MusicTypesOK == TypeOK /\ GateTypeOK /\ TransportTypeOK

\* No accepted command is lost, overtaken or brought back by one that came
\* during a delivery (music-do.js:794-858), or delivered without end; of those
\* that are not queued none overtakes another, and prev's gesture arrives.
CommandsKept ==
    /\ EnqueuesKept /\ LatestPickKept /\ AttemptsBounded
    /\ NoOvertaking /\ PrevIsPaced /\ FastDoubleTapReaches

\* Picks land, and enqueues do unless picks go on for ever (music-do.js:181-203).
CommandsLand == PickLands /\ Lands(e1)
=============================================================================

------------------------------- MODULE StageMoves -------------------------------
(***************************************************************************)
(* The stages that the worker moves a candidate to by itself: a cold call  *)
(* that was answered moves it from Sourced to Replied (cold-call.js), a    *)
(* booking in the calendar to Call Booked (calendar-webhook.js).  Both     *)
(* decide on the candidate as they read it, several awaits earlier, and    *)
(* Recruiterflow moves whatever it is told to.  A call chooses the job     *)
(* twice, at its gate and when it moves, and asks anew each time whose     *)
(* each link is.  Recruiters move the candidate and re-attribute its links *)
(* meanwhile.                                                              *)
(***************************************************************************)
EXTENDS Naturals, FiniteSets, SequencesExt

CONSTANTS
    CandidateJobs,  \* the candidate's jobs
    Consultants,
    Offers(_),      \* the stages of a job's pipeline
    AnsweredCalls,  \* calls whose transcript has come, each with its consultant in
    CallerOf(_),    \* or NoConsultant: not in the users table
    CallBookings,   \* calendar events
    MaxMoves        \* bound on what recruiters do

VARIABLES
    stage,          \* [CandidateJobs -> its stage]
    openJobs,
    latest,         \* the job that was moved last
    assigned,       \* [CandidateJobs -> of its link, as resolveJobConsultantId has it]
    movers,         \* [AnsweredCalls \cup CallBookings -> the handler, a record]
    recruited       \* how often a recruiter has moved the candidate, or re-attributed a link

moveVars == <<stage, openJobs, latest, assigned, movers, recruited>>

Movers == AnsweredCalls \cup CallBookings
NoConsultant == "none"
Attributions == Consultants \cup {NoConsultant}
Unresolved == "unresolved"
NoJob == 0

ASSUME MoveConstants ==
    /\ IsFiniteSet(CandidateJobs) /\ NoJob \notin CandidateJobs
    /\ AnsweredCalls \cap CallBookings = {} /\ MaxMoves \in Nat
    /\ Unresolved \notin Attributions

Level(s) == CASE s = "Sourced" -> 0 [] s \in {"Replied", "RepliedCold"} -> 1
              [] s = "CallBooked" -> 2 [] s = "Interview" -> 3

NoneSeen == [j \in CandidateJobs |-> Unresolved]
\* seen: whose the links are, as far as they are resolved for the choice at hand;
\* gate: the job a call passed the gate for; since and attributed: the jobs that
\* were moved, or re-attributed, after the handler read the candidate.
NotRead == [step |-> "new", stage |-> <<>>, open |-> {}, jobs |-> <<>>, latest |-> NoJob,
            gate |-> NoJob, seen |-> NoneSeen, since |-> {}, attributed |-> {}]

MovesInit ==
    /\ stage \in [CandidateJobs -> {"Sourced", "Replied", "Interview"}]
    /\ openJobs = CandidateJobs
    /\ latest \in CandidateJobs
    /\ assigned \in [CandidateJobs -> Attributions]
    /\ movers = [m \in Movers |-> NotRead]
    /\ recruited = 0

Moved(j, s) ==
    /\ stage' = [stage EXCEPT ![j] = s]
    /\ latest' = j

Noted(ms, j) == [m \in Movers |-> [ms[m] EXCEPT !.since = @ \cup {j}]]

Recruits(j, s) ==
    /\ recruited < MaxMoves
    /\ recruited' = recruited + 1
    /\ Moved(j, s)
    /\ movers' = Noted(movers, j)
    /\ UNCHANGED <<openJobs, assigned>>

Closes(j) ==
    /\ recruited < MaxMoves
    /\ recruited' = recruited + 1
    /\ openJobs' = openJobs \ {j}
    /\ UNCHANGED <<stage, latest, assigned, movers>>

\* The candidate is added to the job once more, by another recruiter, or what KV
\* had of the link expires.
Reattributes(j, c) ==
    /\ recruited < MaxMoves
    /\ recruited' = recruited + 1
    /\ assigned' = [assigned EXCEPT ![j] = c]
    /\ movers' = [m \in Movers |-> [movers[m] EXCEPT !.attributed = @ \cup {j}]]
    /\ UNCHANGED <<stage, openJobs, latest>>

-----------------------------------------------------------------------------
\* rf-client.js: the choice of the job, on what was read

\* Of those that suit the caller's own, else the first of all if it suits.
SelectConsultantJob(jobs, who, caller, suiting) ==
    LET mine == {i \in DOMAIN jobs : jobs[i] \in suiting /\ who[jobs[i]] = caller}
    IN IF caller # NoConsultant /\ mine # {} THEN jobs[Min(mine)]
       ELSE IF jobs[1] \in suiting THEN jobs[1] ELSE NoJob

SourcedIn(read) == {j \in read.open : read.stage[j] = "Sourced"}
Movable(read) == {j \in SourcedIn(read) : "Replied" \in Offers(j)}

SelectSourcedJob(read, caller) == SelectConsultantJob(read.jobs, read.seen, caller, SourcedIn(read))

\* Mutant: of the first job only, as the comment at cold-call.js:424 has it.
FindJobForStageMove_First(read, caller) ==
    IF read.jobs[1] \in Movable(read) THEN read.jobs[1] ELSE NoJob

FindJobForStageMove(read, caller) == SelectConsultantJob(read.jobs, read.seen, caller, Movable(read))

CallBookedEligible == {"Sourced", "Replied", "RepliedCold"}

\* Mutant: wherever the job stands.
FindEligibleJob_Any(read) ==
    LET j == read.latest IN IF "CallBooked" \in Offers(j) THEN j ELSE NoJob

\* Of the job that was moved last only, and whether it is open or not.
FindEligibleJob(read) ==
    LET j == read.latest
    IN IF read.stage[j] \in CallBookedEligible /\ "CallBooked" \in Offers(j) THEN j ELSE NoJob

-----------------------------------------------------------------------------
\* The handlers.  In what order RF lists the jobs is not promised.

Read(m, order) ==
    [NotRead EXCEPT !.step = IF m \in AnsweredCalls THEN "gate" ELSE "read",
                    !.stage = stage, !.open = openJobs, !.jobs = order, !.latest = latest]

ReadsCandidate(m, order) ==
    /\ movers[m].step = "new"
    /\ movers' = [movers EXCEPT ![m] = Read(m, order)]
    /\ UNCHANGED <<stage, openJobs, latest, assigned, recruited>>

Suiting(m) == IF movers[m].step = "gate" THEN SourcedIn(movers[m]) ELSE Movable(movers[m])

\* For each of the jobs that suit, in any order, unless nobody knows the caller.
ResolvesConsultant(m, j) ==
    /\ m \in AnsweredCalls /\ CallerOf(m) # NoConsultant
    /\ movers[m].step \in {"gate", "read"}
    /\ j \in Suiting(m) /\ movers[m].seen[j] = Unresolved
    /\ movers' = [movers EXCEPT ![m].seen[j] = assigned[j]]
    /\ UNCHANGED <<stage, openJobs, latest, assigned, recruited>>

Chooses(m) ==
    CallerOf(m) # NoConsultant => \A j \in Suiting(m) : movers[m].seen[j] # Unresolved

PassesGate(m) ==
    LET job == SelectSourcedJob(movers[m], CallerOf(m)) IN
    /\ movers[m].step = "gate" /\ Chooses(m)
    /\ movers' = [movers EXCEPT ![m] =
                    IF job = NoJob THEN [NotRead EXCEPT !.step = "unsourced"]
                    ELSE [@ EXCEPT !.step = "read", !.gate = job, !.seen = NoneSeen]]
    /\ UNCHANGED <<stage, openJobs, latest, assigned, recruited>>

MovesTo(m, j, s) ==
    IF j = NoJob
      THEN /\ movers' = [movers EXCEPT ![m] = [NotRead EXCEPT !.step = "done"]]
           /\ UNCHANGED <<stage, latest>>
      ELSE /\ Moved(j, s)
           /\ movers' = [Noted(movers, j) EXCEPT ![m] = [NotRead EXCEPT !.step = "moved"]]

\* Only after a connected call; a voicemail ends like a failure.
MoveJobsToStage(m) ==
    /\ m \in AnsweredCalls /\ movers[m].step = "read" /\ Chooses(m)
    /\ MovesTo(m, FindJobForStageMove(movers[m], CallerOf(m)), "Replied")
    /\ UNCHANGED <<openJobs, assigned, recruited>>

MoveToCallBooked(m) ==
    /\ m \in CallBookings /\ movers[m].step = "read"
    /\ MovesTo(m, FindEligibleJob(movers[m]), "CallBooked")
    /\ UNCHANGED <<openJobs, assigned, recruited>>

\* A link that cannot be resolved, a voicemail, a failed call, or no Joel in the users table.
MovesNothing(m) ==
    /\ movers[m].step \in {"gate", "read"}
    /\ movers' = [movers EXCEPT ![m] = [NotRead EXCEPT !.step = "done"]]
    /\ UNCHANGED <<stage, openJobs, latest, assigned, recruited>>

MovesNext ==
    \/ \E j \in CandidateJobs : \/ Closes(j)
                                \/ \E s \in Offers(j) : Recruits(j, s)
                                \/ \E c \in Attributions : Reattributes(j, c)
    \/ \E m \in Movers :
         \/ \E order \in SetToSeqs(CandidateJobs) : ReadsCandidate(m, order)
         \/ \E j \in CandidateJobs : ResolvesConsultant(m, j)
         \/ PassesGate(m) \/ MoveJobsToStage(m) \/ MoveToCallBooked(m) \/ MovesNothing(m)

MovesSpec == MovesInit /\ [][MovesNext]_moveVars

-----------------------------------------------------------------------------
MovesTypeOK ==
    /\ \A m \in Movers : movers[m].step \in {"new", "gate", "read", "unsourced", "moved", "done"}
    /\ latest \in CandidateJobs /\ openJobs \subseteq CandidateJobs /\ recruited \in 0 .. MaxMoves

(***************************************************************************)
(* No handler takes a job down the ladder, or leaves it where it was,      *)
(* unless the job was moved after the handler had read the candidate       *)
(* (calendar-webhook.js:191 moves what was read at its start); and a call  *)
(* moves the job for which it passed the gate, where that one has the      *)
(* stage, unless that link or that of the job it moves was re-attributed   *)
(* meanwhile (cold-call.js:318 and :434 choose the job twice).             *)
(***************************************************************************)
MovesUp ==
    \A m \in Movers : movers[m].step = "read" /\ movers'[m].step = "moved" =>
        /\ \A j \in CandidateJobs :
             latest' = j /\ Level(stage'[j]) <= Level(stage[j]) => j \in movers[m].since
        /\ m \in AnsweredCalls /\ "Replied" \in Offers(movers[m].gate) =>
             latest' = movers[m].gate \/ {latest', movers[m].gate} \cap movers[m].attributed # {}

StageMovesHold == [][MovesUp]_moveVars
=============================================================================

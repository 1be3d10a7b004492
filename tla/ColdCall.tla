------------------------------- MODULE ColdCall -------------------------------
(***************************************************************************)
(* Cold-call tracking end to end: Dialpad's call webhook deliveries        *)
(* (src/handlers/dialpad-webhooks.js), the arbiter each of them signals    *)
(* (ColdCallArbiter), the transcript pipeline processCallEvent and the     *)
(* finalizer finalizeCancelledColdCall (src/cold-call.js), and the         *)
(* Recruiterflow candidate they all read and later overwrite.              *)
(*                                                                         *)
(* Every delivery is a process of its own: a redelivery, a duplicate and a *)
(* reordering are just other orders of the deliveries of one call.  Each   *)
(* await is a step boundary, and any awaited call may fail.                *)
(***************************************************************************)
EXTENDS ColdCallArbiter, FiniteSets

CONSTANTS
    Hangups,        \* deliveries of a hangup event that passes the filters
    Transcripts,    \* deliveries of a transcription / call_transcription event
    Finalizers,     \* executions of the finalize route
    CallOf,         \* [Hangups \cup Transcripts -> Calls]
    Candidates,
    CandidateOf,    \* [Calls -> Candidates], the uid_RF contact of the call
    OtherTags,      \* tags somebody else puts on a candidate
    MaxFaults       \* bound on redeliveries and arbiter crashes, counted together

ASSUME ColdCallConstants ==
    /\ CallOf \in [Hangups \cup Transcripts -> Calls]
    /\ (Hangups \cup Transcripts) \cap Finalizers = {}
    /\ CandidateOf \in [Calls -> Candidates]
    /\ MaxFaults \in Nat
    /\ "Cold Call" \notin OtherTags

VARIABLES
    pc,          \* [Hangups \cup Transcripts \cup Finalizers -> where it is]
    faults,      \* Nat, redeliveries and arbiter crashes so far
    on,          \* [Finalizers -> the call it works on]
    snap,        \* [Transcripts \cup Finalizers -> the candidate's tags as read]
    outcome,     \* [Transcripts -> the classifier's outcome]
    claimed,     \* [Calls -> BOOLEAN]  KV key coldcall:{callId} was put
    tags,        \* [Candidates -> set of tags in RF]
    stage,       \* [Candidates -> stage of the relevant open job in RF]
    logged,      \* [Calls -> BOOLEAN]  an activity was created from a transcript
    \* History, read by the properties only:
    unheard      \* [Calls -> BOOLEAN]  a transcript missed the arbiter, or came after its alarm

pipelineVars == <<pc, faults, on, snap, outcome, claimed, tags, stage, logged, unheard>>
vars == <<arbiterVars, pipelineVars>>

ColdCallTag == "Cold Call"
Stages == {"Sourced", "Replied", "CV Sent"}
Tags == OtherTags \cup {ColdCallTag}
Outcomes == {"none", "voicemail", "connected"}

Processes == Hangups \cup Transcripts \cup Finalizers
SubjectOf(p) == IF p \in Finalizers THEN on[p] ELSE CallOf[p]
Candidate(p) == CandidateOf[SubjectOf(p)]

Init ==
    /\ ArbiterInit
    /\ pc = [p \in Processes |-> IF p \in Finalizers THEN "idle" ELSE "waiting"]
    /\ faults = 0
    /\ on \in [Finalizers -> Calls]
    /\ snap = [p \in Transcripts \cup Finalizers |-> {}]
    /\ outcome = [t \in Transcripts |-> "none"]
    /\ claimed = [c \in Calls |-> FALSE]
    /\ tags = [k \in Candidates |-> {}]
    /\ stage \in [Candidates -> {"Sourced", "CV Sent"}]
    /\ logged = [c \in Calls |-> FALSE]
    /\ unheard = [c \in Calls |-> FALSE]

Goto(p, from, to) == pc[p] = from /\ pc' = [pc EXCEPT ![p] = to]

\* getRFCandidate and selectSourcedJob: a process past the gate read the
\* candidate in Sourced and goes on from the tags it read then.
InSourced(p) == stage[Candidate(p)] = "Sourced"
ReadCandidate(p) ==
    snap' = [snap EXCEPT ![p] = IF InSourced(p) THEN tags[Candidate(p)] ELSE @]

\* updateRFCandidate replaces the tag array by the merge of the one read earlier.
MergeTag(read, tag) == read \cup {tag}
WriteTags(p) == tags' = [tags EXCEPT ![Candidate(p)] = MergeTag(snap[p], ColdCallTag)]

\* A process that returns forgets its locals.
Forget(p) == snap' = [snap EXCEPT ![p] = {}]

-----------------------------------------------------------------------------
\* Dialpad sends a delivery again whose answer it did not get.
Redeliver(d) ==
    /\ faults < MaxFaults
    /\ Goto(d, "done", "waiting")
    /\ faults' = faults + 1
    /\ UNCHANGED <<arbiterVars, on, snap, outcome, claimed, tags, stage, logged, unheard>>

(***************************************************************************)
(* A hangup delivery: route it to the arbiter; an error is swallowed and   *)
(* answered 200, so the hangup is lost.                                    *)
(***************************************************************************)
RouteHangup(h) ==
    /\ Goto(h, "waiting", "done")
    /\ MarkCancelled(CallOf[h])
    /\ UNCHANGED <<faults, on, snap, outcome, claimed, tags, stage, logged, unheard>>

LoseHangup(h) ==
    /\ Goto(h, "waiting", "done")
    /\ UNCHANGED <<arbiterVars, faults, on, snap, outcome, claimed, tags, stage, logged, unheard>>

(***************************************************************************)
(* A transcript delivery first signals the arbiter, then classifies.  A    *)
(* failed signal does not stop it.                                         *)
(***************************************************************************)
AlarmHasFired(c) == requests[c] + recorded[c] > 0

SignalTranscript(t) ==
    /\ Goto(t, "waiting", "dedup")
    /\ MarkTranscript(CallOf[t])
    /\ unheard' = [unheard EXCEPT ![CallOf[t]] = @ \/ AlarmHasFired(CallOf[t])]
    /\ UNCHANGED <<faults, on, snap, outcome, claimed, tags, stage, logged>>

SignalFails(t) ==
    /\ Goto(t, "waiting", "dedup")
    /\ unheard' = [unheard EXCEPT ![CallOf[t]] = TRUE]
    /\ UNCHANGED <<arbiterVars, faults, on, snap, outcome, claimed, tags, stage, logged>>

\* The KV get of the dedup key.  It may miss a key that was put: the entry
\* lives 300 s, another location may not see it yet, and nothing holds
\* between the get and the put.  On a miss the key is put at once.
DedupHit(t) ==
    /\ Goto(t, "dedup", "done")
    /\ claimed[CallOf[t]]
    /\ UNCHANGED <<arbiterVars, faults, on, snap, outcome, claimed, tags, stage, logged, unheard>>

DedupMiss(t) ==
    /\ Goto(t, "dedup", "read")
    /\ claimed' = [claimed EXCEPT ![CallOf[t]] = TRUE]
    /\ UNCHANGED <<arbiterVars, faults, on, snap, outcome, tags, stage, logged, unheard>>

\* Fetch the candidate once; the Sourced gate decides on it.
Gate(t) ==
    /\ Goto(t, "read", IF InSourced(t) THEN "classify" ELSE "done")
    /\ ReadCandidate(t)
    /\ UNCHANGED <<arbiterVars, faults, on, outcome, claimed, tags, stage, logged, unheard>>

\* Mutant: the candidate is tagged before the activity is created.
Classify_TagFirst(t) ==
    \E o \in Outcomes :
      /\ Goto(t, "classify", IF o = "none" THEN "done" ELSE "tag")
      /\ outcome' = [outcome EXCEPT ![t] = o]
      /\ UNCHANGED <<arbiterVars, faults, on, snap, claimed, tags, stage, logged, unheard>>

\* Transcript fetch and AI classification; "none" is not a cold call.
Classify(t) ==
    \E o \in Outcomes :
      /\ Goto(t, "classify", IF o = "none" THEN "done" ELSE "create")
      /\ outcome' = [outcome EXCEPT ![t] = o]
      /\ UNCHANGED <<arbiterVars, faults, on, snap, claimed, tags, stage, logged, unheard>>

CreateActivity(t) ==
    /\ Goto(t, "create", "tag")
    /\ logged' = [logged EXCEPT ![CallOf[t]] = TRUE]
    /\ UNCHANGED <<arbiterVars, faults, on, snap, outcome, claimed, tags, stage, unheard>>

TagCandidate(t) ==
    /\ Goto(t, "tag", IF outcome[t] = "connected" THEN "move" ELSE "done")
    /\ WriteTags(t)
    /\ Forget(t)
    /\ outcome' = [outcome EXCEPT ![t] = "none"]
    /\ UNCHANGED <<arbiterVars, faults, on, claimed, stage, logged, unheard>>

\* moveJobsToStage Sourced -> Replied, eligible by the candidate read at the gate.
MoveToReplied(t) ==
    /\ Goto(t, "move", "done")
    /\ stage' = [stage EXCEPT ![Candidate(t)] = "Replied"]
    /\ UNCHANGED <<arbiterVars, faults, on, snap, outcome, claimed, tags, logged, unheard>>

\* Any awaited call of processCallEvent may fail, and a filter may refuse the
\* event: the handler returns and what it has done stays done.
AbortTranscript(t) ==
    /\ pc[t] \in {"dedup", "read", "classify", "create", "tag", "move"}
    /\ pc' = [pc EXCEPT ![t] = "done"]
    /\ Forget(t)
    /\ outcome' = [outcome EXCEPT ![t] = "none"]
    /\ UNCHANGED <<arbiterVars, faults, on, claimed, tags, stage, logged, unheard>>

-----------------------------------------------------------------------------
(***************************************************************************)
(* The arbiter's alarm and the finalize route it calls.                    *)
(***************************************************************************)
IdleFinalizers == {f \in Finalizers : pc[f] = "idle"}

\* Executions are interchangeable: the request goes to the one CHOOSE picks.
SendFinalize(c) ==
    LET f == CHOOSE f \in IdleFinalizers : TRUE
    IN  /\ IdleFinalizers # {}
        /\ StartFinalize(c)
        /\ Goto(f, "idle", "sent")
        /\ on' = [on EXCEPT ![f] = c]
        /\ UNCHANGED <<faults, snap, outcome, claimed, tags, stage, logged, unheard>>

FinalizeGate(f) ==
    /\ Goto(f, "sent", IF InSourced(f) THEN "create" ELSE "idle")
    /\ ReadCandidate(f)
    /\ IF InSourced(f) THEN UNCHANGED arbiterVars ELSE DropRequest(on[f])
    /\ UNCHANGED <<faults, on, outcome, claimed, tags, stage, logged, unheard>>

FinalizeRecord(f) ==
    /\ Goto(f, "create", "tag")
    /\ RecordCancelled(on[f])
    /\ UNCHANGED <<faults, on, snap, outcome, claimed, tags, stage, logged, unheard>>

FinalizeTag(f) ==
    /\ Goto(f, "tag", "idle")
    /\ WriteTags(f)
    /\ Forget(f)
    /\ UNCHANGED <<arbiterVars, faults, on, outcome, claimed, stage, logged, unheard>>

FinalizeFails(f) ==
    /\ pc[f] \in {"sent", "create", "tag"}
    /\ pc' = [pc EXCEPT ![f] = "idle"]
    /\ Forget(f)
    /\ IF pc[f] = "tag" THEN UNCHANGED arbiterVars ELSE DropRequest(on[f])
    /\ UNCHANGED <<faults, on, outcome, claimed, tags, stage, logged, unheard>>

ArbiterStep(c) ==
    /\ AlarmWipe(c) \/ Settle(c)
    /\ UNCHANGED pipelineVars

ArbiterCrash(c) ==
    /\ faults < MaxFaults
    /\ faults' = faults + 1
    /\ CrashInFinalize(c)
    /\ UNCHANGED <<pc, on, snap, outcome, claimed, tags, stage, logged, unheard>>

TimePasses == Tick /\ UNCHANGED pipelineVars

-----------------------------------------------------------------------------
(***************************************************************************)
(* People working in Recruiterflow at the same time.                       *)
(***************************************************************************)
RecruiterTags(k, t) ==
    /\ tags' = [tags EXCEPT ![k] = @ \cup {t}]
    /\ UNCHANGED <<arbiterVars, pc, faults, on, snap, outcome, claimed, stage, logged, unheard>>

RecruiterAdvances(k) ==
    /\ stage' = [stage EXCEPT ![k] = "CV Sent"]
    /\ UNCHANGED <<arbiterVars, pc, faults, on, snap, outcome, claimed, tags, logged, unheard>>

FinalizerStep(f) == FinalizeGate(f) \/ FinalizeRecord(f) \/ FinalizeTag(f) \/ FinalizeFails(f)

Next ==
    \/ \E d \in Hangups \cup Transcripts : Redeliver(d)
    \/ \E h \in Hangups : RouteHangup(h) \/ LoseHangup(h)
    \/ \E t \in Transcripts :
         \/ SignalTranscript(t) \/ SignalFails(t)
         \/ DedupHit(t) \/ DedupMiss(t)
         \/ Gate(t) \/ Classify(t)
         \/ CreateActivity(t) \/ TagCandidate(t) \/ MoveToReplied(t)
         \/ AbortTranscript(t)
    \/ \E c \in Calls : ArbiterStep(c) \/ ArbiterCrash(c) \/ SendFinalize(c)
    \/ \E f \in Finalizers : FinalizerStep(f)
    \/ TimePasses
    \/ \E k \in Candidates : RecruiterAdvances(k) \/ \E t \in OtherTags : RecruiterTags(k, t)

(***************************************************************************)
(* Alarms fire eventually, a fetch resolves or is rejected, and the route  *)
(* it calls runs to its end or fails.  Nothing obliges Dialpad to deliver  *)
(* a webhook or a recruiter to act.                                        *)
(***************************************************************************)
Fairness ==
    /\ WF_vars(TimePasses)
    /\ \A c \in Calls :
         /\ WF_vars(AlarmWipe(c) /\ UNCHANGED pipelineVars)
         /\ WF_vars(Settle(c) /\ UNCHANGED pipelineVars)
         /\ WF_vars(SendFinalize(c))
    /\ \A f \in Finalizers : WF_vars(FinalizerStep(f))

Spec == Init /\ [][Next]_vars
FairSpec == Spec /\ Fairness

-----------------------------------------------------------------------------
TypeOK ==
    /\ ArbiterTypeOK
    /\ pc \in [Processes -> {"idle", "waiting", "dedup", "read", "classify",
                             "create", "tag", "move", "sent", "done"}]
    /\ faults \in 0 .. MaxFaults
    /\ on \in [Finalizers -> Calls]
    /\ snap \in [Transcripts \cup Finalizers -> SUBSET Tags]
    /\ outcome \in [Transcripts -> Outcomes]
    /\ claimed \in [Calls -> BOOLEAN]
    /\ tags \in [Candidates -> SUBSET Tags]
    /\ stage \in [Candidates -> Stages]
    /\ logged \in [Calls -> BOOLEAN]
    /\ unheard \in [Calls -> BOOLEAN]

(***************************************************************************)
(* In the first life of its record a call is never logged both as          *)
(* cancelled and from a transcript, unless a transcript's signal was lost  *)
(* or reached the arbiter after its grace alarm had fired.  RF has no      *)
(* activity delete, so a second verdict could not be undone                *)
(* (cold-call-arbiter-do.js:9-10).                                         *)
(***************************************************************************)
OneVerdict ==
    \A c \in Calls :
      recorded[c] > 0 /\ logged[c] => unheard[c] \/ wipes[c] > 0

(***************************************************************************)
(* The Cold Call tag is on a candidate only if an activity tells why: the  *)
(* activity is created first, and every step may fail                      *)
(* (cold-call.js:409-423 and 546-555).                                     *)
(***************************************************************************)
TaggedMeansLogged ==
    \A k \in Candidates :
      ColdCallTag \in tags[k] =>
        \E c \in Calls : CandidateOf[c] = k /\ (logged[c] \/ recorded[c] > 0)

(***************************************************************************)
(* The arbiter's record is bounded in time: whatever happens, every call's *)
(* storage is wiped in the end and its object let go                       *)
(* (cold-call-arbiter-do.js:18-20).                                        *)
(***************************************************************************)
HasRecord(c) == transcriptSeen[c] \/ cancelledPayload[c] \/ finalized[c]
RecordIsLetGo == \A c \in Calls : HasRecord(c) ~> ~HasRecord(c)

(***************************************************************************)
(* What the code's comments say and the interleavings refute.              *)
(*                                                                         *)
(* Once markTranscript has answered 'superseded', no cancelled activity    *)
(* appears for the call ("suppress any cancelled, now or later",           *)
(* cold-call-arbiter-do.js:51-52).                                         *)
(***************************************************************************)
SupersededMeansUnrecorded ==
    [][\A c \in Calls :
         transcriptSeen[c] /\ finalized[c] => recorded'[c] = recorded[c]]_vars

(***************************************************************************)
(* Writing the Cold Call tag never wipes a tag somebody else put ("we'd    *)
(* rather lose an event than risk silently wiping tags",                   *)
(* cold-call.js:377-379).  Nobody removes a tag in this model.             *)
(***************************************************************************)
TagsAreKept == [][\A k \in Candidates : tags[k] \subseteq tags'[k]]_vars
=============================================================================

---------------------------- MODULE ColdCallProofs ----------------------------
(***************************************************************************)
(* The arbiter's safety for every set of calls and every choice of the two *)
(* windows with Grace <= Cleanup, whatever delivers the webhooks.          *)
(*                                                                         *)
(* The argument.  A flag in storage always comes with a timer, and the     *)
(* timer says how long ago a transcript was last accepted: while a         *)
(* cancelled call waits, sinceTranscript + alarm covers both grace         *)
(* windows; while a transcript or a verdict is kept, it covers one; and    *)
(* an object with empty storage, which may arm the grace timer, has heard  *)
(* none for at least one.  The count of recordings is bounded by giving    *)
(* every life one token, which the empty record, then the waiting payload, *)
(* then the request holds, and every retry one more.                       *)
(***************************************************************************)
EXTENDS ColdCall, TLAPS

\* What holds of one call's object between any two events.
Waiting(c) == cancelledPayload[c] /\ ~finalizing[c]
Empty(c) == ~transcriptSeen[c] /\ ~cancelledPayload[c] /\ ~finalized[c]

StorageInv(c) ==
    /\ cancelledPayload[c] => ~transcriptSeen[c] /\ ~finalized[c]
    /\ finalizing[c] => \/ cancelledPayload[c] /\ alarm[c] = NoAlarm
                        \/ finalized[c] /\ alarm[c] \in Nat
    /\ Waiting(c) => alarm[c] \in Nat
    /\ transcriptSeen[c] \/ finalized[c] => alarm[c] \in Nat

SilenceInv(c) ==
    /\ Waiting(c) => sinceTranscript[c] + alarm[c] >= Silence
    /\ cancelledPayload[c] /\ finalizing[c] => sinceTranscript[c] = Silence
    /\ transcriptSeen[c] \/ finalized[c] => sinceTranscript[c] + alarm[c] >= Grace
    /\ ~transcriptSeen[c] /\ ~finalized[c] => sinceTranscript[c] >= Grace

One(b) == IF b THEN 1 ELSE 0

TokenInv(c) ==
    recorded[c] + requests[c] + One(Waiting(c)) + One(Empty(c)) <= 1 + wipes[c] + retries[c]

IInv ==
    /\ ArbiterTypeOK
    /\ \A c \in Calls : StorageInv(c) /\ SilenceInv(c) /\ TokenInv(c)

-----------------------------------------------------------------------------
(* The initial state has no record and has heard nothing. *)
LEMMA InitIInv == ArbiterInit => IInv
  BY ArbiterTiming DEF ArbiterInit, IInv, ArbiterTypeOK, StorageInv, SilenceInv, TokenInv,
                       Waiting, Empty, One, Silence, NoAlarm

(* A transcript signal, in each of its outcomes. *)
LEMMA MarkTranscriptIInv ==
  ASSUME IInv, NEW c \in Calls, MarkTranscript(c)
  PROVE  IInv'
<1> USE ArbiterTiming DEF IInv, ArbiterTypeOK, NoAlarm, Silence
<1>1. CASE UNCHANGED arbiterVars
  BY <1>1 DEF arbiterVars, storageVars, historyVars, StorageInv, SilenceInv, TokenInv,
              Waiting, Empty
<1>2. CASE Supersede(c)
  <2>1. ArbiterTypeOK'
    BY <1>2 DEF Supersede
  <2>2. ASSUME NEW d \in Calls PROVE (StorageInv(d) /\ SilenceInv(d) /\ TokenInv(d))'
    BY <1>2 DEF Supersede, StorageInv, SilenceInv, TokenInv, Waiting, Empty, One
  <2> QED BY <2>1, <2>2
<1>3. CASE LoneTranscript(c)
  <2>1. ArbiterTypeOK'
    BY <1>3 DEF LoneTranscript
  <2>2. ASSUME NEW d \in Calls PROVE (StorageInv(d) /\ SilenceInv(d) /\ TokenInv(d))'
    BY <1>3 DEF LoneTranscript, StorageInv, SilenceInv, TokenInv, Waiting, Empty, One
  <2> QED BY <2>1, <2>2
<1> QED BY <1>1, <1>2, <1>3 DEF MarkTranscript

(* A hangup: it arms the grace timer of an empty record or changes nothing. *)
LEMMA MarkCancelledIInv ==
  ASSUME IInv, NEW c \in Calls, MarkCancelled(c)
  PROVE  IInv'
<1> USE ArbiterTiming DEF IInv, ArbiterTypeOK, NoAlarm, Silence
<1>1. CASE SuppressHangup(c)
  BY <1>1 DEF SuppressHangup, arbiterVars, storageVars, historyVars, StorageInv, SilenceInv,
              TokenInv, Waiting, Empty
<1>2. CASE ArmGrace(c)
  <2>1. ArbiterTypeOK'
    BY <1>2 DEF ArmGrace
  <2>2. ASSUME NEW d \in Calls PROVE (StorageInv(d) /\ SilenceInv(d) /\ TokenInv(d))'
    BY <1>2 DEF ArmGrace, StorageInv, SilenceInv, TokenInv, Waiting, Empty, One
  <2> QED BY <2>1, <2>2
<1> QED BY <1>1, <1>2 DEF MarkCancelled

(* The wipe empties a record whose windows have passed. *)
LEMMA AlarmWipeIInv ==
  ASSUME IInv, NEW c \in Calls, AlarmWipe(c)
  PROVE  IInv'
<1> USE ArbiterTiming DEF IInv, ArbiterTypeOK, NoAlarm, Silence, AlarmWipe, AlarmDue
<1>1. ArbiterTypeOK'
  OBVIOUS
<1>2. ASSUME NEW d \in Calls PROVE (StorageInv(d) /\ SilenceInv(d) /\ TokenInv(d))'
  BY DEF StorageInv, SilenceInv, TokenInv, Waiting, Empty, One
<1> QED BY <1>1, <1>2

(* The waiting payload's token goes to the request. *)
LEMMA StartFinalizeIInv ==
  ASSUME IInv, NEW c \in Calls, StartFinalize(c)
  PROVE  IInv'
<1> USE ArbiterTiming DEF IInv, ArbiterTypeOK, NoAlarm, Silence, StartFinalize, AlarmDue, historyVars
<1>1. ArbiterTypeOK'
  OBVIOUS
<1>2. ASSUME NEW d \in Calls, d # c PROVE (StorageInv(d) /\ SilenceInv(d) /\ TokenInv(d))'
  BY <1>2 DEF StorageInv, SilenceInv, TokenInv, Waiting, Empty, One
<1>3. (StorageInv(c) /\ SilenceInv(c) /\ TokenInv(c))'
  <2>1. StorageInv(c)'
    BY DEF StorageInv, Waiting
  <2>2. sinceTranscript[c] = 2 * Grace
    BY DEF SilenceInv, Waiting
  <2>3. SilenceInv(c)'
    BY <2>2 DEF SilenceInv, Waiting
  <2>4. TokenInv(c)'
    BY DEF TokenInv, Waiting, Empty, One
  <2> QED BY <2>1, <2>3, <2>4
<1> QED BY <1>1, <1>2, <1>3

(* The verdict is kept for the cleanup window. *)
LEMMA SettleIInv ==
  ASSUME IInv, NEW c \in Calls, Settle(c)
  PROVE  IInv'
<1> USE ArbiterTiming DEF IInv, ArbiterTypeOK, NoAlarm, Silence, Settle, historyVars
<1>1. ArbiterTypeOK'
  OBVIOUS
<1>2. ASSUME NEW d \in Calls PROVE (StorageInv(d) /\ SilenceInv(d) /\ TokenInv(d))'
  BY DEF StorageInv, SilenceInv, TokenInv, Waiting, Empty, One
<1> QED BY <1>1, <1>2

(* A handler that died brings its own token. *)
LEMMA CrashInFinalizeIInv ==
  ASSUME IInv, NEW c \in Calls, CrashInFinalize(c)
  PROVE  IInv'
<1> USE ArbiterTiming DEF IInv, ArbiterTypeOK, NoAlarm, Silence, CrashInFinalize
<1>1. ArbiterTypeOK'
  OBVIOUS
<1>2. ASSUME NEW d \in Calls PROVE (StorageInv(d) /\ SilenceInv(d) /\ TokenInv(d))'
  BY DEF StorageInv, SilenceInv, TokenInv, Waiting, Empty, One
<1> QED BY <1>1, <1>2

(* The worker turns a request into an activity. *)
LEMMA RecordCancelledIInv ==
  ASSUME IInv, NEW c \in Calls, RecordCancelled(c)
  PROVE  IInv'
<1> USE ArbiterTiming DEF IInv, ArbiterTypeOK, NoAlarm, Silence, RecordCancelled, storageVars, historyVars
<1>1. ArbiterTypeOK'
  OBVIOUS
<1>2. ASSUME NEW d \in Calls PROVE (StorageInv(d) /\ SilenceInv(d) /\ TokenInv(d))'
  BY DEF StorageInv, SilenceInv, TokenInv, Waiting, Empty, One
<1> QED BY <1>1, <1>2

(* Or drops it. *)
LEMMA DropRequestIInv ==
  ASSUME IInv, NEW c \in Calls, DropRequest(c)
  PROVE  IInv'
<1> USE ArbiterTiming DEF IInv, ArbiterTypeOK, NoAlarm, Silence, DropRequest, storageVars, historyVars
<1>1. ArbiterTypeOK'
  OBVIOUS
<1>2. ASSUME NEW d \in Calls PROVE (StorageInv(d) /\ SilenceInv(d) /\ TokenInv(d))'
  BY DEF StorageInv, SilenceInv, TokenInv, Waiting, Empty, One
<1> QED BY <1>1, <1>2

(* Timers only trade ticks to go for ticks gone by. *)
LEMMA TickIInv ==
  ASSUME IInv, Tick
  PROVE  IInv'
<1> USE ArbiterTiming DEF IInv, ArbiterTypeOK, NoAlarm, Silence, Tick
<1>1. ArbiterTypeOK'
  OBVIOUS
<1>2. ASSUME NEW d \in Calls PROVE (StorageInv(d) /\ SilenceInv(d) /\ TokenInv(d))'
  BY DEF StorageInv, SilenceInv, TokenInv, Waiting, Empty, One
<1> QED BY <1>1, <1>2

-----------------------------------------------------------------------------
(* IInv is inductive: one case per disjunct of ArbiterNext. *)
LEMMA NextIInv == IInv /\ [ArbiterNext]_arbiterVars => IInv'
<1> SUFFICES ASSUME IInv, [ArbiterNext]_arbiterVars PROVE IInv'
  OBVIOUS
<1>1. ASSUME NEW c \in Calls,
             \/ MarkTranscript(c) \/ MarkCancelled(c)
             \/ AlarmWipe(c) \/ StartFinalize(c) \/ Settle(c) \/ CrashInFinalize(c)
             \/ RecordCancelled(c) \/ DropRequest(c)
      PROVE  IInv'
  BY <1>1, MarkTranscriptIInv, MarkCancelledIInv, AlarmWipeIInv, StartFinalizeIInv, SettleIInv,
     CrashInFinalizeIInv, RecordCancelledIInv, DropRequestIInv
<1>2. CASE Tick
  BY <1>2, TickIInv
<1>3. CASE UNCHANGED arbiterVars
  BY <1>3 DEF IInv, ArbiterTypeOK, StorageInv, SilenceInv, TokenInv, Waiting, Empty,
              arbiterVars, storageVars, historyVars
<1> QED BY <1>1, <1>2, <1>3 DEF ArbiterNext

(***************************************************************************)
(* The arbiter keeps its invariant, whatever signals it.                   *)
(***************************************************************************)
THEOREM ArbiterInvariant == ArbiterSpec => []IInv
<1>1. ArbiterInit => IInv BY InitIInv
<1>2. IInv /\ [ArbiterNext]_arbiterVars => IInv' BY NextIInv
<1> QED BY <1>1, <1>2, PTL DEF ArbiterSpec

(***************************************************************************)
(* Type correctness of the arbiter: timers stay within their windows.      *)
(***************************************************************************)
THEOREM ArbiterTypes == ArbiterSpec => []ArbiterTypeOK
<1>1. IInv => ArbiterTypeOK BY DEF IInv
<1> QED BY <1>1, ArbiterInvariant, PTL

(***************************************************************************)
(* One life of a record makes at most one activity, plus one per handler   *)
(* that died while it awaited the finalize request.                        *)
(***************************************************************************)
THEOREM OncePerLife == ArbiterSpec => []RecordedOncePerLife
<1>1. IInv => RecordedOncePerLife
  <2> SUFFICES ASSUME IInv, NEW c \in Calls
               PROVE  recorded[c] + requests[c] <= 1 + wipes[c] + retries[c]
    BY DEF RecordedOncePerLife
  <2>1. TokenInv(c)
    BY DEF IInv
  <2>2. \A b \in BOOLEAN : One(b) \in {0, 1}
    BY DEF One
  <2>3. Waiting(c) \in BOOLEAN /\ Empty(c) \in BOOLEAN
    BY DEF Waiting, Empty
  <2> QED BY <2>1, <2>2, <2>3 DEF IInv, ArbiterTypeOK, TokenInv
<1> QED BY <1>1, ArbiterInvariant, PTL

(* Only the grace alarm sends a request, and SilenceInv holds when it fires. *)
LEMMA RequestNeedsSilence ==
  ASSUME IInv, [ArbiterNext]_arbiterVars, NEW c \in Calls, requests'[c] > requests[c]
  PROVE  sinceTranscript[c] = Silence
<1> USE DEF IInv, ArbiterTypeOK
<1>1. ASSUME NEW d \in Calls, StartFinalize(d) PROVE sinceTranscript[c] = Silence
  BY <1>1, ArbiterTiming DEF StartFinalize, AlarmDue, SilenceInv, Waiting, Silence
<1>2. ASSUME NEW d \in Calls, RecordCancelled(d) \/ DropRequest(d) PROVE FALSE
  BY <1>2 DEF RecordCancelled, DropRequest
<1>3. ASSUME NEW d \in Calls,
             \/ MarkTranscript(d) \/ MarkCancelled(d) \/ AlarmWipe(d) \/ Settle(d)
             \/ CrashInFinalize(d)
      PROVE  FALSE
  BY <1>3 DEF MarkTranscript, Supersede, LoneTranscript, MarkCancelled, ArmGrace, SuppressHangup,
              AlarmWipe, Settle, CrashInFinalize, arbiterVars
<1>4. CASE Tick \/ UNCHANGED arbiterVars
  BY <1>4 DEF Tick, arbiterVars
<1> QED BY <1>1, <1>2, <1>3, <1>4 DEF ArbiterNext

(***************************************************************************)
(* The transcript always wins over a cancelled call, within the windows.   *)
(***************************************************************************)
THEOREM ArbiterTranscriptWins == ArbiterSpec => TranscriptWins
<1>1. IInv /\ [ArbiterNext]_arbiterVars =>
        [\A c \in Calls : requests'[c] > requests[c] => sinceTranscript[c] = Silence]_arbiterVars
  BY RequestNeedsSilence
<1> QED BY <1>1, ArbiterInvariant, PTL DEF ArbiterSpec, TranscriptWins

-----------------------------------------------------------------------------
(***************************************************************************)
(* The flow around the arbiter: its own variables keep their types.        *)
(***************************************************************************)
PipelineTypeOK ==
    /\ pc \in [Processes -> {"idle", "waiting", "dedup", "read", "classify",
                             "create", "tag", "move", "sent", "done"}]
    /\ faults \in 0 .. MaxFaults
    /\ on \in [Finalizers -> Calls]
    /\ snap \in [Transcripts \cup Finalizers -> SUBSET Tags]
    /\ outcome \in [Transcripts -> Outcomes]
    /\ claimed \in [Calls -> BOOLEAN]
    /\ tags \in [Candidates -> SUBSET Tags]
    /\ stage \in [Candidates -> Stages]
    /\ logged \in [Calls -> BOOLEAN]
    /\ unheard \in [Calls -> BOOLEAN]

(* The call a process works for, and its candidate, are known ones. *)
LEMMA SubjectKnown ==
  ASSUME PipelineTypeOK, NEW p \in Processes
  PROVE  SubjectOf(p) \in Calls /\ (p \in Transcripts \cup Finalizers => Candidate(p) \in Candidates)
<1>1. p \in Finalizers => on[p] \in Calls
  BY DEF PipelineTypeOK
<1>2. p \notin Finalizers => CallOf[p] \in Calls
  BY ColdCallConstants DEF Processes
<1>3. SubjectOf(p) \in Calls
  BY <1>1, <1>2 DEF SubjectOf
<1> QED BY <1>3, ColdCallConstants DEF Candidate

(* Reading the candidate, and writing the merge of what was read. *)
LEMMA ReadTyped ==
  ASSUME PipelineTypeOK, NEW p \in Transcripts \cup Finalizers, ReadCandidate(p)
  PROVE  snap' \in [Transcripts \cup Finalizers -> SUBSET Tags]
<1>1. Candidate(p) \in Candidates
  BY SubjectKnown DEF Processes
<1> QED BY <1>1 DEF ReadCandidate, PipelineTypeOK

LEMMA WriteTyped ==
  ASSUME PipelineTypeOK, NEW p \in Transcripts \cup Finalizers, WriteTags(p)
  PROVE  tags' \in [Candidates -> SUBSET Tags]
<1>1. Candidate(p) \in Candidates
  BY SubjectKnown DEF Processes
<1>2. MergeTag(snap[p], ColdCallTag) \in SUBSET Tags
  BY DEF MergeTag, PipelineTypeOK, Tags
<1> QED BY <1>1, <1>2 DEF WriteTags, PipelineTypeOK

(* The actions of a transcript's pipeline. *)
TranscriptStep(t) ==
    \/ SignalTranscript(t) \/ SignalFails(t)
    \/ DedupHit(t) \/ DedupMiss(t)
    \/ Gate(t) \/ Classify(t)
    \/ CreateActivity(t) \/ TagCandidate(t) \/ MoveToReplied(t)
    \/ AbortTranscript(t)

LEMMA TranscriptStepTyped ==
  ASSUME PipelineTypeOK, NEW t \in Transcripts, TranscriptStep(t)
  PROVE  PipelineTypeOK'
<1>0. CallOf[t] \in Calls /\ Candidate(t) \in Candidates /\ t \in Processes
  BY SubjectKnown, ColdCallConstants DEF Processes
<1> USE <1>0 DEF PipelineTypeOK, Goto, Forget, Outcomes
<1>1. CASE SignalTranscript(t)
  BY <1>1 DEF SignalTranscript, AlarmHasFired
<1>2. CASE SignalFails(t)
  BY <1>2 DEF SignalFails
<1>3. CASE DedupHit(t)
  BY <1>3 DEF DedupHit
<1>4. CASE DedupMiss(t)
  BY <1>4 DEF DedupMiss
<1>5. CASE Gate(t)
  BY <1>5, ReadTyped DEF Gate
<1>6. CASE Classify(t)
  BY <1>6 DEF Classify
<1>7. CASE CreateActivity(t)
  BY <1>7 DEF CreateActivity
<1>8. CASE TagCandidate(t)
  BY <1>8, WriteTyped DEF TagCandidate
<1>9. CASE MoveToReplied(t)
  BY <1>9 DEF MoveToReplied, Stages
<1>10. CASE AbortTranscript(t)
  BY <1>10 DEF AbortTranscript
<1> QED BY <1>1, <1>2, <1>3, <1>4, <1>5, <1>6, <1>7, <1>8, <1>9, <1>10 DEF TranscriptStep

LEMMA FinalizerStepTyped ==
  ASSUME PipelineTypeOK, NEW f \in Finalizers, FinalizerStep(f)
  PROVE  PipelineTypeOK'
<1>0. f \in Processes
  BY DEF Processes
<1> USE <1>0 DEF PipelineTypeOK, Goto, Forget
<1>1. CASE FinalizeGate(f)
  BY <1>1, ReadTyped DEF FinalizeGate
<1>2. CASE FinalizeRecord(f)
  BY <1>2 DEF FinalizeRecord
<1>3. CASE FinalizeTag(f)
  BY <1>3, WriteTyped DEF FinalizeTag
<1>4. CASE FinalizeFails(f)
  BY <1>4 DEF FinalizeFails
<1> QED BY <1>1, <1>2, <1>3, <1>4 DEF FinalizerStep

LEMMA PipelineTypes == PipelineTypeOK /\ [Next]_vars => PipelineTypeOK'
<1> SUFFICES ASSUME PipelineTypeOK, [Next]_vars PROVE PipelineTypeOK'
  OBVIOUS
<1> USE DEF PipelineTypeOK
<1>1. ASSUME NEW d \in Hangups \cup Transcripts, Redeliver(d) PROVE PipelineTypeOK'
  <2>1. CallOf \in [Hangups \cup Transcripts -> Calls] /\ MaxFaults \in Nat
    BY ColdCallConstants
  <2> QED BY <1>1, <2>1 DEF Redeliver, Goto, Processes
<1>2. ASSUME NEW h \in Hangups, RouteHangup(h) \/ LoseHangup(h) PROVE PipelineTypeOK'
  BY <1>2 DEF RouteHangup, LoseHangup, Goto, Processes
<1>3. ASSUME NEW t \in Transcripts, TranscriptStep(t) PROVE PipelineTypeOK'
  BY <1>3, TranscriptStepTyped
<1>4. ASSUME NEW c \in Calls, ArbiterStep(c) PROVE PipelineTypeOK'
  BY <1>4 DEF ArbiterStep, pipelineVars
<1>5. ASSUME NEW c \in Calls, ArbiterCrash(c) PROVE PipelineTypeOK'
  <2>1. MaxFaults \in Nat
    BY ColdCallConstants
  <2> QED BY <1>5, <2>1 DEF ArbiterCrash
<1>6. ASSUME NEW c \in Calls, SendFinalize(c) PROVE PipelineTypeOK'
  <2> DEFINE f == CHOOSE f \in IdleFinalizers : TRUE
  <2>1. f \in Finalizers
    BY <1>6 DEF SendFinalize, IdleFinalizers
  <2>2. /\ pc' = [pc EXCEPT ![f] = "sent"]
        /\ on' = [on EXCEPT ![f] = c]
        /\ UNCHANGED <<faults, snap, outcome, claimed, tags, stage, logged, unheard>>
    BY <1>6 DEF SendFinalize, Goto
  <2> QED BY <2>1, <2>2 DEF Processes
<1>7. ASSUME NEW f \in Finalizers, FinalizerStep(f) PROVE PipelineTypeOK'
  BY <1>7, FinalizerStepTyped
<1>8. CASE TimePasses
  BY <1>8 DEF TimePasses, pipelineVars
<1>9. ASSUME NEW k \in Candidates, RecruiterAdvances(k) PROVE PipelineTypeOK'
  BY <1>9 DEF RecruiterAdvances, Stages
<1>10. ASSUME NEW k \in Candidates, NEW t \in OtherTags, RecruiterTags(k, t) PROVE PipelineTypeOK'
  BY <1>10 DEF RecruiterTags, Tags
<1>11. CASE UNCHANGED vars
  BY <1>11 DEF vars, pipelineVars
<1> QED BY <1>1, <1>2, <1>3, <1>4, <1>5, <1>6, <1>7, <1>8, <1>9, <1>10, <1>11 DEF Next, TranscriptStep

-----------------------------------------------------------------------------
(* Every step of the whole flow is a step of the arbiter, or leaves it alone. *)
LEMMA ColdCallStepsTheArbiter == PipelineTypeOK /\ [Next]_vars => [ArbiterNext]_arbiterVars
<1> SUFFICES ASSUME PipelineTypeOK, [Next]_vars PROVE [ArbiterNext]_arbiterVars
  OBVIOUS
<1>1. ASSUME NEW d \in Hangups \cup Transcripts, Redeliver(d) PROVE UNCHANGED arbiterVars
  BY <1>1 DEF Redeliver
<1>2. ASSUME NEW h \in Hangups, RouteHangup(h) \/ LoseHangup(h) PROVE [ArbiterNext]_arbiterVars
  <2>1. CallOf[h] \in Calls
    BY ColdCallConstants
  <2> QED BY <1>2, <2>1 DEF RouteHangup, LoseHangup, ArbiterNext
<1>3. ASSUME NEW t \in Transcripts, TranscriptStep(t) PROVE [ArbiterNext]_arbiterVars
  <2>1. CallOf[t] \in Calls
    BY ColdCallConstants
  <2>2. CASE SignalTranscript(t)
    BY <2>1, <2>2 DEF SignalTranscript, ArbiterNext
  <2> QED BY <1>3, <2>2 DEF TranscriptStep, SignalFails, DedupHit, DedupMiss, Gate, Classify,
                            CreateActivity, TagCandidate, MoveToReplied, AbortTranscript
<1>4. ASSUME NEW c \in Calls, ArbiterStep(c) \/ ArbiterCrash(c) \/ SendFinalize(c)
      PROVE  ArbiterNext
  BY <1>4 DEF ArbiterStep, ArbiterCrash, SendFinalize, ArbiterNext
<1>5. ASSUME NEW f \in Finalizers, FinalizerStep(f) PROVE [ArbiterNext]_arbiterVars
  <2>1. on[f] \in Calls
    BY DEF PipelineTypeOK
  <2> QED BY <1>5, <2>1 DEF FinalizerStep, FinalizeGate, FinalizeRecord, FinalizeTag,
                            FinalizeFails, ArbiterNext
<1>6. ASSUME NEW k \in Candidates,
             RecruiterAdvances(k) \/ \E t \in OtherTags : RecruiterTags(k, t)
      PROVE  UNCHANGED arbiterVars
  BY <1>6 DEF RecruiterAdvances, RecruiterTags
<1>7. CASE TimePasses
  BY <1>7 DEF TimePasses, ArbiterNext
<1>8. CASE UNCHANGED vars
  BY <1>8 DEF vars
<1> QED BY <1>1, <1>2, <1>3, <1>4, <1>5, <1>6, <1>7, <1>8 DEF Next, TranscriptStep

LEMMA InitTyped == Init => PipelineTypeOK
<1> SUFFICES ASSUME Init PROVE PipelineTypeOK
  OBVIOUS
<1>1. faults \in 0 .. MaxFaults
  <2>1. faults = 0
    BY DEF Init
  <2>2. MaxFaults \in Nat
    BY ColdCallConstants
  <2> QED BY <2>1, <2>2
<1>2. pc \in [Processes -> {"idle", "waiting", "dedup", "read", "classify",
                            "create", "tag", "move", "sent", "done"}]
  BY DEF Init
<1>3. on \in [Finalizers -> Calls] /\ stage \in [Candidates -> Stages]
  BY DEF Init, Stages
<1>4. /\ snap \in [Transcripts \cup Finalizers -> SUBSET Tags]
      /\ tags \in [Candidates -> SUBSET Tags]
      /\ outcome \in [Transcripts -> Outcomes]
  BY DEF Init, Outcomes
<1>5. /\ claimed \in [Calls -> BOOLEAN]
      /\ logged \in [Calls -> BOOLEAN]
      /\ unheard \in [Calls -> BOOLEAN]
  BY DEF Init
<1> QED BY <1>1, <1>2, <1>3, <1>4, <1>5 DEF PipelineTypeOK

(***************************************************************************)
(* The composition: a behaviour of the whole flow is one of the arbiter.   *)
(***************************************************************************)
THEOREM ColdCallImplementsArbiter == Spec => ArbiterSpec
<1>1. Init => PipelineTypeOK /\ ArbiterInit
  BY InitTyped DEF Init
<1>2. PipelineTypeOK /\ [Next]_vars => PipelineTypeOK'
  BY PipelineTypes
<1>3. PipelineTypeOK /\ [Next]_vars => [ArbiterNext]_arbiterVars
  BY ColdCallStepsTheArbiter
<1> QED BY <1>1, <1>2, <1>3, PTL DEF Spec, ArbiterSpec

(***************************************************************************)
(* Type correctness of the whole flow.                                     *)
(***************************************************************************)
THEOREM ColdCallTypes == Spec => []TypeOK
<1>1. Init => PipelineTypeOK
  BY InitTyped
<1>2. ArbiterTypeOK /\ PipelineTypeOK => TypeOK
  BY DEF TypeOK, PipelineTypeOK
<1> QED BY <1>1, <1>2, PipelineTypes, ColdCallImplementsArbiter, ArbiterTypes, PTL DEF Spec

(***************************************************************************)
(* Under every interleaving of deliveries, pipelines and finalizers, one   *)
(* life of a call's record records it at most once, plus once per crash.   *)
(***************************************************************************)
THEOREM ColdCallOncePerLife == Spec => []RecordedOncePerLife
  BY ColdCallImplementsArbiter, OncePerLife, PTL

(***************************************************************************)
(* And no cancelled activity is asked for within a transcript's windows.   *)
(***************************************************************************)
THEOREM ColdCallTranscriptWins == Spec => TranscriptWins
  BY ColdCallImplementsArbiter, ArbiterTranscriptWins, PTL

-----------------------------------------------------------------------------
(***************************************************************************)
(* What the whole flow of a cold call promises of its activities and tags, *)
(* for every set of calls, deliveries and executions.                      *)
(*                                                                         *)
(* The argument for the one verdict.  A transcript that has signalled the  *)
(* arbiter before any request was sent leaves behind it a record that is   *)
(* decided: a flag in storage keeps the grace alarm from sending one, and  *)
(* only a wipe takes the flag away.  Whatever the pipeline does after its  *)
(* signal then meets an arbiter that records nothing.  That a tag has its  *)
(* activity follows from where a process stands when it writes the tag.    *)
(***************************************************************************)
\* A transcript's delivery that has signalled the arbiter, or tried to.
Past == {"dedup", "read", "classify", "create", "tag", "move"}
Heard(c) == logged[c] \/ \E t \in Transcripts : CallOf[t] = c /\ pc[t] \in Past

Decided(c) == recorded[c] = 0 /\ requests[c] = 0 /\ (transcriptSeen[c] \/ finalized[c])
Closed(c) == wipes[c] > 0 \/ Decided(c)

HeardInv == \A c \in Calls : Heard(c) => unheard[c] \/ Closed(c)

-----------------------------------------------------------------------------
(* A record that is decided stays so until it is wiped. *)
LEMMA ClosedStays ==
  ASSUME ArbiterTypeOK, [ArbiterNext]_arbiterVars, NEW c \in Calls, Closed(c)
  PROVE  Closed(c)'
<1> USE DEF Closed, Decided, ArbiterTypeOK
<1>1. ASSUME NEW d \in Calls, MarkTranscript(d) PROVE Closed(c)'
  BY <1>1 DEF MarkTranscript, Supersede, LoneTranscript, arbiterVars, storageVars, historyVars
<1>2. ASSUME NEW d \in Calls, MarkCancelled(d) PROVE Closed(c)'
  BY <1>2 DEF MarkCancelled, ArmGrace, SuppressHangup, arbiterVars, storageVars, historyVars
<1>3. ASSUME NEW d \in Calls, AlarmWipe(d) PROVE Closed(c)'
  BY <1>3 DEF AlarmWipe
<1>4. ASSUME NEW d \in Calls, StartFinalize(d) PROVE Closed(c)'
  BY <1>4 DEF StartFinalize, historyVars
<1>5. ASSUME NEW d \in Calls, Settle(d) \/ CrashInFinalize(d) PROVE Closed(c)'
  BY <1>5 DEF Settle, CrashInFinalize, historyVars
<1>6. ASSUME NEW d \in Calls, RecordCancelled(d) \/ DropRequest(d) PROVE Closed(c)'
  BY <1>6 DEF RecordCancelled, DropRequest, storageVars, historyVars
<1>7. CASE Tick \/ UNCHANGED arbiterVars
  BY <1>7 DEF Tick, arbiterVars, storageVars, historyVars
<1> QED BY <1>1, <1>2, <1>3, <1>4, <1>5, <1>6, <1>7 DEF ArbiterNext

(* A signal that the alarm has not forestalled decides the record. *)
LEMMA SignalDecides ==
  ASSUME TypeOK, NEW t \in Transcripts, SignalTranscript(t)
  PROVE  unheard[CallOf[t]]' \/ Decided(CallOf[t])'
<1> DEFINE c == CallOf[t]
<1>0. c \in Calls
  BY ColdCallConstants
<1>1. CASE AlarmHasFired(c)
  BY <1>0, <1>1 DEF SignalTranscript, TypeOK
<1>2. CASE ~AlarmHasFired(c)
  <2>1. recorded[c] = 0 /\ requests[c] = 0
    BY <1>0, <1>2 DEF AlarmHasFired, TypeOK, ArbiterTypeOK
  <2>2. MarkTranscript(c)
    BY DEF SignalTranscript
  <2> QED BY <1>0, <2>1, <2>2 DEF MarkTranscript, Supersede, LoneTranscript, Decided, arbiterVars,
                                  storageVars, historyVars, TypeOK, ArbiterTypeOK
<1> QED BY <1>1, <1>2

(* A call comes to be heard of by a transcript's signal and by nothing else. *)
LEMMA HeardBySignal ==
  ASSUME TypeOK, [Next]_vars, NEW c \in Calls, Heard(c)', ~Heard(c)
  PROVE  unheard[c]' \/ Decided(c)'
<1> USE DEF Heard, Past
<1>1. ASSUME NEW t \in Transcripts, SignalTranscript(t) PROVE unheard[c]' \/ Decided(c)'
  <2>1. CallOf[t] = c
    BY <1>1 DEF SignalTranscript, Goto, TypeOK, Processes
  <2> QED BY <1>1, <2>1, SignalDecides
<1>2. ASSUME NEW t \in Transcripts, SignalFails(t) PROVE unheard[c]'
  <2>1. CallOf[t] = c
    BY <1>2 DEF SignalFails, Goto, TypeOK, Processes
  <2> QED BY <1>2, <2>1 DEF SignalFails, TypeOK
<1>3. ASSUME NEW t \in Transcripts,
             \/ DedupHit(t) \/ DedupMiss(t) \/ Gate(t) \/ Classify(t)
             \/ TagCandidate(t) \/ MoveToReplied(t) \/ AbortTranscript(t)
      PROVE  FALSE
  BY <1>3 DEF DedupHit, DedupMiss, Gate, Classify, TagCandidate, MoveToReplied, AbortTranscript,
              Goto, TypeOK, Processes
<1>4. ASSUME NEW t \in Transcripts, CreateActivity(t) PROVE FALSE
  BY <1>4, ColdCallConstants DEF CreateActivity, Goto, TypeOK, Processes
<1>5. ASSUME NEW d \in Hangups \cup Transcripts, Redeliver(d) PROVE FALSE
  BY <1>5 DEF Redeliver, Goto, TypeOK, Processes
<1>6. ASSUME NEW h \in Hangups, RouteHangup(h) \/ LoseHangup(h) PROVE FALSE
  BY <1>6 DEF RouteHangup, LoseHangup, Goto, TypeOK, Processes
<1>7. ASSUME NEW d \in Calls, ArbiterStep(d) \/ ArbiterCrash(d) PROVE FALSE
  BY <1>7 DEF ArbiterStep, ArbiterCrash, pipelineVars
<1>8. ASSUME NEW d \in Calls, SendFinalize(d) PROVE FALSE
  BY <1>8, ColdCallConstants DEF SendFinalize, IdleFinalizers, Goto, TypeOK, Processes
<1>9. ASSUME NEW f \in Finalizers, FinalizerStep(f) PROVE FALSE
  BY <1>9, ColdCallConstants DEF FinalizerStep, FinalizeGate, FinalizeRecord, FinalizeTag, FinalizeFails,
              Goto, TypeOK, Processes
<1>10. ASSUME NEW k \in Candidates, RecruiterAdvances(k) \/ \E t \in OtherTags : RecruiterTags(k, t)
       PROVE  FALSE
  BY <1>10 DEF RecruiterAdvances, RecruiterTags
<1>11. CASE TimePasses \/ UNCHANGED vars
  BY <1>11 DEF TimePasses, vars, pipelineVars
<1> QED BY <1>1, <1>2, <1>3, <1>4, <1>5, <1>6, <1>7, <1>8, <1>9, <1>10, <1>11 DEF Next

(* That a transcript missed the arbiter is never forgotten. *)
LEMMA UnheardStays ==
  ASSUME TypeOK, [Next]_vars, NEW c \in Calls, unheard[c]
  PROVE  unheard[c]'
<1>1. unheard' = unheard \/ \E t \in Transcripts : SignalTranscript(t) \/ SignalFails(t)
  BY DEF Next, vars, pipelineVars, Redeliver, RouteHangup, LoseHangup, DedupHit, DedupMiss, Gate,
         Classify, CreateActivity, TagCandidate, MoveToReplied, AbortTranscript, ArbiterStep,
         ArbiterCrash, SendFinalize, FinalizerStep, FinalizeGate, FinalizeRecord, FinalizeTag,
         FinalizeFails, TimePasses, RecruiterAdvances, RecruiterTags
<1> QED BY <1>1, ColdCallConstants DEF SignalTranscript, SignalFails, TypeOK

LEMMA HeardKept == TypeOK /\ HeardInv /\ [Next]_vars => HeardInv'
<1> SUFFICES ASSUME TypeOK, HeardInv, [Next]_vars, NEW c \in Calls, Heard(c)'
             PROVE  unheard[c]' \/ Closed(c)'
  BY DEF HeardInv
<1>1. [ArbiterNext]_arbiterVars /\ ArbiterTypeOK
  BY ColdCallStepsTheArbiter DEF TypeOK, PipelineTypeOK
<1>2. CASE Heard(c)
  BY <1>1, <1>2, UnheardStays, ClosedStays DEF HeardInv
<1>3. CASE ~Heard(c)
  BY <1>3, HeardBySignal DEF Closed
<1> QED BY <1>2, <1>3

(***************************************************************************)
(* In the first life of its record a call is not logged both ways, unless  *)
(* a transcript's signal was lost or came after the alarm.                 *)
(***************************************************************************)
THEOREM ColdCallOneVerdict == Spec => []OneVerdict
<1>1. Init => HeardInv
  BY DEF Init, HeardInv, Heard, Past, Processes, ColdCallConstants
<1>2. TypeOK /\ HeardInv => OneVerdict
  BY DEF HeardInv, Heard, Closed, Decided, OneVerdict, TypeOK, ArbiterTypeOK
<1> QED BY <1>1, <1>2, HeardKept, ColdCallTypes, PTL DEF Spec

-----------------------------------------------------------------------------
(* A process about to tag has made its activity. *)
Told(c) == logged[c] \/ recorded[c] > 0
ToldInv ==
    /\ \A t \in Transcripts : pc[t] = "tag" => logged[CallOf[t]]
    /\ \A f \in Finalizers : pc[f] = "tag" => recorded[on[f]] > 0
    /\ TaggedMeansLogged

(* What has been told is not untold. *)
LEMMA ToldStays ==
  ASSUME TypeOK, [Next]_vars, NEW c \in Calls
  PROVE  (logged[c] => logged[c]') /\ (recorded[c] > 0 => recorded[c]' > 0)
<1>1. recorded[c] > 0 => recorded[c]' > 0
  <2>1. [ArbiterNext]_arbiterVars /\ ArbiterTypeOK
    BY ColdCallStepsTheArbiter DEF TypeOK, PipelineTypeOK
  <2>2. recorded' = recorded \/ \E d \in Calls : RecordCancelled(d)
    BY <2>1 DEF ArbiterNext, MarkTranscript, Supersede, LoneTranscript, MarkCancelled, ArmGrace,
                SuppressHangup, AlarmWipe, StartFinalize, Settle, CrashInFinalize, DropRequest, Tick,
                arbiterVars
  <2> QED BY <2>1, <2>2 DEF RecordCancelled, ArbiterTypeOK
<1>2. logged' = logged \/ \E t \in Transcripts : CreateActivity(t)
  BY DEF Next, vars, pipelineVars, Redeliver, RouteHangup, LoseHangup, SignalTranscript, SignalFails,
         DedupHit, DedupMiss, Gate, Classify, TagCandidate, MoveToReplied, AbortTranscript, ArbiterStep,
         ArbiterCrash, SendFinalize, FinalizerStep, FinalizeGate, FinalizeRecord, FinalizeTag,
         FinalizeFails, TimePasses, RecruiterAdvances, RecruiterTags
<1> QED BY <1>1, <1>2, ColdCallConstants DEF CreateActivity, TypeOK

(* A transcript comes to its tag by creating the activity. *)
LEMMA TranscriptTold ==
  ASSUME TypeOK, ToldInv, [Next]_vars, NEW t \in Transcripts, pc[t]' = "tag"
  PROVE  logged[CallOf[t]]'
<1>1. CallOf[t] \in Calls
  BY ColdCallConstants
<1>2. CASE pc[t] = "tag"
  BY <1>1, <1>2, ToldStays DEF ToldInv
<1>3. CASE pc[t] # "tag"
  <2>1. CreateActivity(t)
    BY <1>3, ColdCallConstants DEF Next, vars, pipelineVars, Redeliver, RouteHangup, LoseHangup,
       SignalTranscript, SignalFails, DedupHit, DedupMiss, Gate, Classify, CreateActivity, TagCandidate,
       MoveToReplied, AbortTranscript, ArbiterStep, ArbiterCrash, SendFinalize, IdleFinalizers,
       FinalizerStep, FinalizeGate, FinalizeRecord, FinalizeTag, FinalizeFails, TimePasses,
       RecruiterAdvances, RecruiterTags, Goto, TypeOK, Processes
  <2> QED BY <1>1, <2>1 DEF CreateActivity, TypeOK
<1> QED BY <1>2, <1>3

(* A finalizer, by recording the call, which it then keeps to. *)
LEMMA FinalizerTold ==
  ASSUME TypeOK, ToldInv, [Next]_vars, NEW f \in Finalizers, pc[f]' = "tag"
  PROVE  recorded[on[f]]' > 0
<1>1. CASE pc[f] = "tag" /\ on[f]' = on[f]
  BY <1>1, ToldStays DEF ToldInv, TypeOK
<1>2. CASE ~(pc[f] = "tag" /\ on[f]' = on[f])
  <2>1. ASSUME NEW c \in Calls, SendFinalize(c) PROVE FALSE
    <3> DEFINE g == CHOOSE g \in IdleFinalizers : TRUE
    <3>1. g \in Finalizers /\ pc' = [pc EXCEPT ![g] = "sent"] /\ on' = [on EXCEPT ![g] = c]
      BY <2>1 DEF SendFinalize, IdleFinalizers, Goto
    <3> QED BY <1>2, <3>1 DEF TypeOK, Processes
  <2>2. ASSUME NEW g \in Finalizers, FinalizerStep(g) PROVE FinalizeRecord(f)
    BY <1>2, <2>2 DEF FinalizerStep, FinalizeGate, FinalizeRecord, FinalizeTag, FinalizeFails, Goto,
                      TypeOK, Processes
  <2>3. ASSUME NEW d \in Hangups \cup Transcripts,
               \/ Redeliver(d) \/ RouteHangup(d) \/ LoseHangup(d)
               \/ SignalTranscript(d) \/ SignalFails(d) \/ DedupHit(d) \/ DedupMiss(d) \/ Gate(d)
               \/ Classify(d) \/ CreateActivity(d) \/ TagCandidate(d) \/ MoveToReplied(d)
               \/ AbortTranscript(d)
        PROVE  FALSE
    <3>1. UNCHANGED on /\ \E to : pc' = [pc EXCEPT ![d] = to]
      BY <2>3 DEF Redeliver, RouteHangup, LoseHangup, SignalTranscript, SignalFails, DedupHit, DedupMiss,
                  Gate, Classify, CreateActivity, TagCandidate, MoveToReplied, AbortTranscript, Goto
    <3>2. d # f
      BY ColdCallConstants
    <3>3. pc[f]' = pc[f]
      BY <3>1, <3>2 DEF TypeOK, Processes
    <3> QED BY <1>2, <3>1, <3>3
  <2>4. ASSUME UNCHANGED <<pc, on>> PROVE FALSE
    BY <1>2, <2>4
  <2>5. FinalizeRecord(f)
    BY <2>1, <2>2, <2>3, <2>4 DEF Next, vars, pipelineVars, ArbiterStep, ArbiterCrash, TimePasses,
                                  RecruiterAdvances, RecruiterTags
  <2> QED BY <2>5 DEF FinalizeRecord, RecordCancelled, TypeOK, ArbiterTypeOK
<1> QED BY <1>1, <1>2

(* Whoever puts the tag there stands at its tag step. *)
LEMMA TaggedTold ==
  ASSUME TypeOK, ToldInv, [Next]_vars, NEW k \in Candidates, ColdCallTag \in tags[k]'
  PROVE  \E c \in Calls : CandidateOf[c] = k /\ Told(c)
<1>1. CASE ColdCallTag \in tags[k]
  BY <1>1 DEF ToldInv, TaggedMeansLogged, Told
<1>2. CASE ColdCallTag \notin tags[k]
  <2>1. \/ \E t \in Transcripts : TagCandidate(t)
        \/ \E f \in Finalizers : FinalizeTag(f)
        \/ \E d \in Candidates, tag \in OtherTags : RecruiterTags(d, tag)
        \/ tags' = tags
    BY DEF Next, vars, pipelineVars, Redeliver, RouteHangup, LoseHangup, SignalTranscript, SignalFails,
       DedupHit, DedupMiss, Gate, Classify, CreateActivity, MoveToReplied, AbortTranscript, ArbiterStep,
       ArbiterCrash, SendFinalize, FinalizerStep, FinalizeGate, FinalizeRecord, FinalizeFails,
       TimePasses, RecruiterAdvances
  <2>2. ASSUME NEW t \in Transcripts, TagCandidate(t)
        PROVE  CandidateOf[CallOf[t]] = k /\ CallOf[t] \in Calls /\ Told(CallOf[t])
    <3>1. t \notin Finalizers /\ CallOf[t] \in Calls /\ pc[t] = "tag"
      BY <2>2, ColdCallConstants DEF TagCandidate, Goto
    <3>2. Candidate(t) = k
      BY <1>2, <2>2 DEF TagCandidate, WriteTags, TypeOK
    <3> QED BY <3>1, <3>2 DEF Candidate, SubjectOf, ToldInv, Told
  <2>3. ASSUME NEW f \in Finalizers, FinalizeTag(f)
        PROVE  CandidateOf[on[f]] = k /\ on[f] \in Calls /\ Told(on[f])
    <3>1. on[f] \in Calls /\ pc[f] = "tag"
      BY <2>3 DEF FinalizeTag, Goto, TypeOK
    <3>2. Candidate(f) = k
      BY <1>2, <2>3 DEF FinalizeTag, WriteTags, TypeOK
    <3> QED BY <3>1, <3>2 DEF Candidate, SubjectOf, ToldInv, Told
  <2>4. ASSUME NEW d \in Candidates, NEW tag \in OtherTags, RecruiterTags(d, tag) PROVE FALSE
    BY <1>2, <2>4, ColdCallConstants DEF RecruiterTags, ColdCallTag, TypeOK
  <2> QED BY <1>2, <2>1, <2>2, <2>3, <2>4
<1> QED BY <1>1, <1>2

LEMMA ToldKept == TypeOK /\ ToldInv /\ [Next]_vars => ToldInv'
<1> SUFFICES ASSUME TypeOK, ToldInv, [Next]_vars PROVE ToldInv'
  OBVIOUS
<1>1. ASSUME NEW k \in Candidates, ColdCallTag \in tags[k]'
      PROVE  \E c \in Calls : CandidateOf[c] = k /\ (logged[c]' \/ recorded[c]' > 0)
  BY <1>1, TaggedTold, ToldStays DEF Told
<1> QED BY <1>1, TranscriptTold, FinalizerTold DEF ToldInv, TaggedMeansLogged

(***************************************************************************)
(* The tag is on a candidate only if an activity of one of its calls tells *)
(* why, whatever fails on the way.                                         *)
(***************************************************************************)
THEOREM ColdCallTagsTold == Spec => []TaggedMeansLogged
<1>1. Init => ToldInv
  BY DEF Init, ToldInv, TaggedMeansLogged, Processes
<1>2. ToldInv => TaggedMeansLogged
  BY DEF ToldInv
<1> QED BY <1>1, <1>2, ToldKept, ColdCallTypes, PTL DEF Spec
=============================================================================

--------------------------- MODULE ColdCallArbiter ---------------------------
(***************************************************************************)
(* The ColdCallArbiter Durable Object (src/cold-call-arbiter-do.js): one   *)
(* instance per Dialpad call, deciding whether a never-connected outbound  *)
(* call is recorded as a cancelled cold call.                              *)
(*                                                                         *)
(* A Durable Object runs one event at a time except across an await of     *)
(* something that is not its storage: a storage operation keeps the input  *)
(* gate closed, a fetch opens it.  So markTranscript and markCancelled are *)
(* single steps, and the alarm handler is two: StartFinalize up to the     *)
(* SELF.fetch, Settle after it.  Other events may run in between.  Alarms  *)
(* are at-least-once: an alarm handler that dies is run again.             *)
(*                                                                         *)
(* Time is counted in ticks by per-call timers, so a behaviour of any      *)
(* length stays within finitely many states.                               *)
(***************************************************************************)
EXTENDS Integers

CONSTANTS
    Calls,      \* Dialpad call ids, one Durable Object each
    Grace,      \* GRACE_MS in ticks
    Cleanup     \* CLEANUP_MS in ticks

ASSUME ArbiterTiming ==
    /\ Grace \in Nat \ {0}
    /\ Cleanup \in Nat
    /\ Grace <= Cleanup

VARIABLES
    transcriptSeen,    \* [Calls -> BOOLEAN]  storage key transcriptSeen
    cancelledPayload,  \* [Calls -> BOOLEAN]  storage key cancelledPayload is set
    finalized,         \* [Calls -> BOOLEAN]  storage key finalized
    alarm,             \* [Calls -> ticks until the alarm is due, or NoAlarm]
    finalizing,        \* [Calls -> BOOLEAN]  the alarm handler awaits SELF.fetch
    requests,          \* [Calls -> Nat]  finalize requests the worker has not decided
    recorded,          \* [Calls -> Nat]  cancelled activities created in RF
    \* History, read by the properties only:
    wipes,             \* [Calls -> Nat]  storage.deleteAll calls
    retries,           \* [Calls -> Nat]  alarm handlers that died and are run again
    sinceTranscript    \* [Calls -> ticks since a transcript was accepted, up to Silence]

storageVars == <<transcriptSeen, cancelledPayload, finalized, alarm>>
historyVars == <<wipes, retries, sinceTranscript>>
arbiterVars == <<storageVars, finalizing, requests, recorded, historyVars>>

NoAlarm == -1

\* The window a transcript must have been silent for before a cancelled call
\* may be recorded: the grace before the hangup and the grace it waits.
Silence == 2 * Grace

(***************************************************************************)
(* Initial state: no record, nothing ever heard.                           *)
(***************************************************************************)
ArbiterInit ==
    /\ transcriptSeen = [c \in Calls |-> FALSE]
    /\ cancelledPayload = [c \in Calls |-> FALSE]
    /\ finalized = [c \in Calls |-> FALSE]
    /\ alarm = [c \in Calls |-> NoAlarm]
    /\ finalizing = [c \in Calls |-> FALSE]
    /\ requests = [c \in Calls |-> 0]
    /\ recorded = [c \in Calls |-> 0]
    /\ wipes = [c \in Calls |-> 0]
    /\ retries = [c \in Calls |-> 0]
    /\ sinceTranscript = [c \in Calls |-> Silence]

-----------------------------------------------------------------------------
(***************************************************************************)
(* markTranscript and its three outcomes, named for the state it answers.  *)
(***************************************************************************)
\* Mutant: the pending payload only gets a fresh grace window.
Supersede_KeepsPending(c) ==
    /\ ~finalized[c] /\ cancelledPayload[c]
    /\ alarm' = [alarm EXCEPT ![c] = Grace]
    /\ sinceTranscript' = [sinceTranscript EXCEPT ![c] = 0]
    /\ UNCHANGED <<transcriptSeen, cancelledPayload, finalized, finalizing, requests,
                   recorded, wipes, retries>>

\* A cancelled call was waiting out its grace: the transcript supersedes it.
Supersede(c) ==
    /\ ~finalized[c] /\ cancelledPayload[c]
    /\ transcriptSeen' = [transcriptSeen EXCEPT ![c] = TRUE]
    /\ cancelledPayload' = [cancelledPayload EXCEPT ![c] = FALSE]
    /\ finalized' = [finalized EXCEPT ![c] = TRUE]
    /\ alarm' = [alarm EXCEPT ![c] = Cleanup]
    /\ sinceTranscript' = [sinceTranscript EXCEPT ![c] = 0]
    /\ UNCHANGED <<finalizing, requests, recorded, wipes, retries>>

\* Mutant: the transcript is not remembered for a late hangup.
LoneTranscript_NotStored(c) ==
    /\ ~finalized[c] /\ ~cancelledPayload[c]
    /\ alarm' = [alarm EXCEPT ![c] = Grace]
    /\ sinceTranscript' = [sinceTranscript EXCEPT ![c] = 0]
    /\ UNCHANGED <<transcriptSeen, cancelledPayload, finalized, finalizing, requests,
                   recorded, wipes, retries>>

\* Mutant: the flag is stored and no alarm is set to delete it.
LoneTranscript_NoAlarm(c) ==
    /\ ~finalized[c] /\ ~cancelledPayload[c]
    /\ transcriptSeen' = [transcriptSeen EXCEPT ![c] = TRUE]
    /\ sinceTranscript' = [sinceTranscript EXCEPT ![c] = 0]
    /\ UNCHANGED <<cancelledPayload, finalized, alarm, finalizing, requests, recorded,
                   wipes, retries>>

\* No cancelled call is waiting: keep the flag for one grace window.
LoneTranscript(c) ==
    /\ ~finalized[c] /\ ~cancelledPayload[c]
    /\ transcriptSeen' = [transcriptSeen EXCEPT ![c] = TRUE]
    /\ alarm' = [alarm EXCEPT ![c] = Grace]
    /\ sinceTranscript' = [sinceTranscript EXCEPT ![c] = 0]
    /\ UNCHANGED <<cancelledPayload, finalized, finalizing, requests, recorded,
                   wipes, retries>>

MarkTranscript(c) ==
    \/ finalized[c] /\ UNCHANGED arbiterVars
    \/ Supersede(c)
    \/ LoneTranscript(c)

(***************************************************************************)
(* markCancelled: arm the grace timer, or suppress the hangup.             *)
(***************************************************************************)
ArmGrace(c) ==
    /\ ~finalized[c] /\ ~transcriptSeen[c] /\ ~cancelledPayload[c]
    /\ cancelledPayload' = [cancelledPayload EXCEPT ![c] = TRUE]
    /\ alarm' = [alarm EXCEPT ![c] = Grace]
    /\ UNCHANGED <<transcriptSeen, finalized, finalizing, requests, recorded,
                   wipes, retries, sinceTranscript>>

SuppressHangup(c) ==
    /\ finalized[c] \/ transcriptSeen[c] \/ cancelledPayload[c]
    /\ UNCHANGED arbiterVars

MarkCancelled(c) == ArmGrace(c) \/ SuppressHangup(c)

-----------------------------------------------------------------------------
(***************************************************************************)
(* The alarm handler.  The due alarm leaves its slot when the handler      *)
(* starts; one handler runs at a time.                                     *)
(***************************************************************************)
AlarmDue(c) == alarm[c] = 0 /\ ~finalizing[c]

\* Cleanup after a verdict, a lone transcript's expiry, or nothing to do.
AlarmWipe(c) ==
    /\ AlarmDue(c)
    /\ finalized[c] \/ transcriptSeen[c] \/ ~cancelledPayload[c]
    /\ transcriptSeen' = [transcriptSeen EXCEPT ![c] = FALSE]
    /\ cancelledPayload' = [cancelledPayload EXCEPT ![c] = FALSE]
    /\ finalized' = [finalized EXCEPT ![c] = FALSE]
    /\ alarm' = [alarm EXCEPT ![c] = NoAlarm]
    /\ wipes' = [wipes EXCEPT ![c] = @ + 1]
    /\ UNCHANGED <<finalizing, requests, recorded, retries, sinceTranscript>>

\* Grace elapsed with no transcript: send the finalize request and await it.
StartFinalize(c) ==
    /\ AlarmDue(c)
    /\ ~finalized[c] /\ ~transcriptSeen[c] /\ cancelledPayload[c]
    /\ alarm' = [alarm EXCEPT ![c] = NoAlarm]
    /\ finalizing' = [finalizing EXCEPT ![c] = TRUE]
    /\ requests' = [requests EXCEPT ![c] = @ + 1]
    /\ UNCHANGED <<transcriptSeen, cancelledPayload, finalized, recorded, historyVars>>

\* Mutant: the payload is deleted but the verdict is not kept.
Settle_NotFinalized(c) ==
    /\ finalizing[c]
    /\ finalizing' = [finalizing EXCEPT ![c] = FALSE]
    /\ cancelledPayload' = [cancelledPayload EXCEPT ![c] = FALSE]
    /\ alarm' = [alarm EXCEPT ![c] = Cleanup]
    /\ UNCHANGED <<transcriptSeen, finalized, requests, recorded, historyVars>>

\* Mutant: the cleanup window is added to the grace window.
Settle_AlarmTooLate(c) ==
    /\ finalizing[c]
    /\ finalizing' = [finalizing EXCEPT ![c] = FALSE]
    /\ cancelledPayload' = [cancelledPayload EXCEPT ![c] = FALSE]
    /\ finalized' = [finalized EXCEPT ![c] = TRUE]
    /\ alarm' = [alarm EXCEPT ![c] = Grace + Cleanup]
    /\ UNCHANGED <<transcriptSeen, requests, recorded, historyVars>>

\* The fetch resolved, whatever it answered, or was rejected.
Settle(c) ==
    /\ finalizing[c]
    /\ finalizing' = [finalizing EXCEPT ![c] = FALSE]
    /\ cancelledPayload' = [cancelledPayload EXCEPT ![c] = FALSE]
    /\ finalized' = [finalized EXCEPT ![c] = TRUE]
    /\ alarm' = [alarm EXCEPT ![c] = Cleanup]
    /\ UNCHANGED <<transcriptSeen, requests, recorded, historyVars>>

\* The object dies while it awaits the fetch.  The alarm is retried unless the
\* slot was set anew in the meantime; the request the worker has is not undone.
CrashInFinalize(c) ==
    /\ finalizing[c]
    /\ finalizing' = [finalizing EXCEPT ![c] = FALSE]
    /\ alarm' = [alarm EXCEPT ![c] = IF @ = NoAlarm THEN 0 ELSE @]
    /\ retries' = [retries EXCEPT ![c] = @ + 1]
    /\ UNCHANGED <<transcriptSeen, cancelledPayload, finalized, requests, recorded,
                   wipes, sinceTranscript>>

-----------------------------------------------------------------------------
(***************************************************************************)
(* The worker's side of a finalize request (finalizeCancelledColdCall),    *)
(* seen from the arbiter: it creates one activity, or none.                *)
(***************************************************************************)
RecordCancelled(c) ==
    /\ requests[c] > 0
    /\ requests' = [requests EXCEPT ![c] = @ - 1]
    /\ recorded' = [recorded EXCEPT ![c] = @ + 1]
    /\ UNCHANGED <<storageVars, finalizing, historyVars>>

DropRequest(c) ==
    /\ requests[c] > 0
    /\ requests' = [requests EXCEPT ![c] = @ - 1]
    /\ UNCHANGED <<storageVars, finalizing, recorded, historyVars>>

\* One tick for every timer.  An alarm may run late: it stays due at 0.
Tick ==
    /\ alarm' = [c \in Calls |-> IF alarm[c] > 0 THEN alarm[c] - 1 ELSE alarm[c]]
    /\ sinceTranscript' =
         [c \in Calls |-> IF sinceTranscript[c] < Silence
                          THEN sinceTranscript[c] + 1 ELSE sinceTranscript[c]]
    /\ UNCHANGED <<transcriptSeen, cancelledPayload, finalized, finalizing, requests,
                   recorded, wipes, retries>>

ArbiterNext ==
    \/ \E c \in Calls :
         \/ MarkTranscript(c) \/ MarkCancelled(c)
         \/ AlarmWipe(c) \/ StartFinalize(c) \/ Settle(c) \/ CrashInFinalize(c)
         \/ RecordCancelled(c) \/ DropRequest(c)
    \/ Tick

ArbiterSpec == ArbiterInit /\ [][ArbiterNext]_arbiterVars

-----------------------------------------------------------------------------
ArbiterTypeOK ==
    /\ transcriptSeen \in [Calls -> BOOLEAN]
    /\ cancelledPayload \in [Calls -> BOOLEAN]
    /\ finalized \in [Calls -> BOOLEAN]
    /\ alarm \in [Calls -> NoAlarm .. Cleanup]
    /\ finalizing \in [Calls -> BOOLEAN]
    /\ requests \in [Calls -> Nat]
    /\ recorded \in [Calls -> Nat]
    /\ wipes \in [Calls -> Nat]
    /\ retries \in [Calls -> Nat]
    /\ sinceTranscript \in [Calls -> 0 .. Silence]

(***************************************************************************)
(* A cancelled call is handed over for recording only if no transcript was *)
(* accepted in the grace window before its hangup nor in the one it waited *)
(* out, whatever the order, duplication or lateness of the two webhooks    *)
(* and alarms, and also when the alarm is a retry ("the transcript always  *)
(* wins", cold-call-arbiter-do.js:9).                                      *)
(***************************************************************************)
TranscriptWins ==
    [][\A c \in Calls : requests'[c] > requests[c] => sinceTranscript[c] = Silence]_arbiterVars

(***************************************************************************)
(* One life of a call's record (from empty storage to the next wipe)       *)
(* records the call at most once per run of the grace alarm: duplicate     *)
(* hangups add nothing, and only a handler that died mid-fetch can repeat  *)
(* the activity.                                                           *)
(***************************************************************************)
RecordedOncePerLife ==
    \A c \in Calls : recorded[c] + requests[c] <= 1 + wipes[c] + retries[c]
=============================================================================

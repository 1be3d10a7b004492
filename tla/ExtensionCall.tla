----------------------------- MODULE ExtensionCall -----------------------------
(***************************************************************************)
(* The call a consultant is in, as the extension's button shows it.        *)
(* Dialpad tells the worker of every call that begins and ends             *)
(* (src/extension-calls.js); the per-user object ExtCallState keeps the    *)
(* call's id (src/extension-call-do.js).  Webhooks are handled             *)
(* concurrently and in any order; whatever happens they are answered 200,  *)
(* so that none comes twice.  A hangup also counts towards the day's       *)
(* calls, in KV (src/cache.js), before it clears the record.               *)
(***************************************************************************)
EXTENDS Naturals, FiniteSets

CONSTANTS
    Dialled,        \* the calls of one consultant, in the extension or in Dialpad
    AlarmIn,        \* the record's life, TTL_MS
    MaxDropped      \* bound on webhooks lost, or failed half way

VARIABLES
    atDialpad,      \* [Dialled -> "not yet", "live" or "over"]
    callId,         \* the object's record, or NoCall
    alarm,          \* time to the object's alarm; Never: it is not set
    events,         \* the webhooks in flight and the handlers they run
    dailyCount, dropped,
    \* History, read by the properties only:
    announced,      \* the call whose calling event was handled last
    closed,         \* calls whose hangup was handled
    expired,        \* the record of announced was cleared by the alarm
    unmatched,      \* calls whose hangup was lost, or found another record or none
    counted,        \* calls whose hangup was counted
    miscounted      \* two hangups were counted at once, or one failed to be

callVars == <<atDialpad, callId, alarm, events, dailyCount, dropped,
              announced, closed, expired, unmatched, counted, miscounted>>

NoCall == "no call"
Never == AlarmIn + 1

ASSUME ExtensionConstants == IsFiniteSet(Dialled) /\ NoCall \notin Dialled /\ AlarmIn \in Nat

Event(c, state) == [call |-> c, state |-> state, step |-> "sent", count |-> 0]

ExtensionInit ==
    /\ atDialpad = [c \in Dialled |-> "not yet"]
    /\ callId = NoCall /\ alarm = Never
    /\ events = {} /\ dailyCount = 0 /\ dropped = 0
    /\ announced = NoCall /\ closed = {} /\ expired = FALSE
    /\ unmatched = {} /\ counted = {} /\ miscounted = FALSE

Becomes(e, step) == events' = (events \ {e}) \cup {[e EXCEPT !.step = step]}

-----------------------------------------------------------------------------
\* Dialpad

Dials(c) ==
    /\ atDialpad[c] = "not yet" /\ \A d \in Dialled : atDialpad[d] # "live"
    /\ atDialpad' = [atDialpad EXCEPT ![c] = "live"]
    /\ events' = events \cup {Event(c, "calling")}
    /\ UNCHANGED <<callId, alarm, dailyCount, dropped, announced, closed, expired, unmatched,
                   counted, miscounted>>

Ends(c) ==
    /\ atDialpad[c] = "live"
    /\ atDialpad' = [atDialpad EXCEPT ![c] = "over"]
    /\ events' = events \cup {Event(c, "hangup")}
    /\ UNCHANGED <<callId, alarm, dailyCount, dropped, announced, closed, expired,
                   unmatched, counted, miscounted>>

\* /dialpad-hangup reads the record, and leaves it to the webhook to clear it;
\* Dialpad rejects a call that is over.
HangsUp == callId # NoCall /\ Ends(callId)

-----------------------------------------------------------------------------
\* processExtensionCallEvent

\* A new call takes the place of whatever is there.
SetCallId(e) ==
    /\ e.state = "calling"
    /\ callId' = e.call
    /\ alarm' = AlarmIn
    /\ events' = events \ {e}
    /\ announced' = e.call /\ expired' = FALSE
    /\ UNCHANGED <<atDialpad, dailyCount, dropped, closed, unmatched, counted, miscounted>>

Counting(e) == \E f \in events \ {e} : f.step = "bump"

ReadCount(e) ==
    /\ e.state = "hangup" /\ e.step = "sent"
    /\ events' = (events \ {e}) \cup {[e EXCEPT !.step = "bump", !.count = dailyCount]}
    /\ miscounted' = (miscounted \/ Counting(e))
    /\ UNCHANGED <<atDialpad, callId, alarm, dailyCount, dropped, announced, closed,
                   expired, unmatched, counted>>

\* A failure is logged, and the record is cleared all the same.
BumpCount(e) ==
    /\ e.step = "bump"
    /\ \/ /\ dailyCount' = e.count + 1 /\ counted' = counted \cup {e.call}
          /\ UNCHANGED <<dropped, miscounted>>
       \/ /\ dropped < MaxDropped /\ dropped' = dropped + 1
          /\ miscounted' = TRUE
          /\ UNCHANGED <<dailyCount, counted>>
    /\ Becomes(e, "clear")
    /\ UNCHANGED <<atDialpad, callId, alarm, announced, closed, expired, unmatched>>

\* Mutant: whatever is there is cleared.
ClearCallIdIfMatch_Any(e) ==
    /\ e.step = "clear"
    /\ callId' = NoCall /\ alarm' = Never
    /\ events' = events \ {e}
    /\ closed' = closed \cup {e.call}
    /\ UNCHANGED <<atDialpad, dailyCount, dropped, announced, expired, unmatched, counted,
                   miscounted>>

\* Mutant: the alarm goes even when the record is another call's.
ClearCallIdIfMatch_Alarm(e) ==
    /\ e.step = "clear"
    /\ callId' = IF callId = e.call THEN NoCall ELSE callId
    /\ alarm' = Never
    /\ unmatched' = IF callId = e.call THEN unmatched ELSE unmatched \cup {e.call}
    /\ events' = events \ {e}
    /\ closed' = closed \cup {e.call}
    /\ UNCHANGED <<atDialpad, dailyCount, dropped, announced, expired, counted, miscounted>>

ClearCallIdIfMatch(e) ==
    /\ e.step = "clear"
    /\ \/ callId = e.call /\ callId' = NoCall /\ alarm' = Never /\ UNCHANGED unmatched
       \/ callId # e.call /\ unmatched' = unmatched \cup {e.call} /\ UNCHANGED <<callId,
                                                                                 alarm>>
    /\ events' = events \ {e}
    /\ closed' = closed \cup {e.call}
    /\ UNCHANGED <<atDialpad, dailyCount, dropped, announced, expired, counted, miscounted>>

\* The webhook is lost, or its handler fails and it is answered 200.
Drops(e) ==
    /\ dropped < MaxDropped
    /\ dropped' = dropped + 1
    /\ events' = events \ {e}
    /\ unmatched' = IF e.state = "hangup" THEN unmatched \cup {e.call} ELSE unmatched
    /\ miscounted' = (miscounted \/ e.step = "bump")
    /\ UNCHANGED <<atDialpad, callId, alarm, dailyCount, announced, closed, expired, counted>>

Handle(e) == SetCallId(e) \/ ReadCount(e) \/ BumpCount(e) \/ ClearCallIdIfMatch(e)

-----------------------------------------------------------------------------
Elapses ==
    /\ alarm \in 1 .. AlarmIn
    /\ alarm' = alarm - 1
    /\ UNCHANGED <<atDialpad, callId, events, dailyCount, dropped, announced, closed, expired,
                   unmatched, counted, miscounted>>

\* Whatever is there after twenty minutes is taken for stranded.
AlarmClears ==
    /\ alarm = 0
    /\ callId' = NoCall /\ alarm' = Never
    /\ expired' = TRUE
    /\ UNCHANGED <<atDialpad, events, dailyCount, dropped, announced, closed, unmatched,
                   counted, miscounted>>

ExtensionNext ==
    \/ \E c \in Dialled : Dials(c) \/ Ends(c)
    \/ HangsUp
    \/ \E e \in events : Handle(e) \/ Drops(e)
    \/ Elapses \/ AlarmClears

ExtensionSpec == ExtensionInit /\ [][ExtensionNext]_callVars

-----------------------------------------------------------------------------
ExtensionTypeOK ==
    /\ callId \in Dialled \cup {NoCall} /\ alarm \in 0 .. Never
    /\ callId = NoCall <=> alarm = Never
    /\ dailyCount <= Cardinality(Dialled)

(***************************************************************************)
(* The record names the call that was announced last until that call's own *)
(* hangup or the alarm clears it, whatever hangups of older calls come in  *)
(* between; and one that names a call that is over waits for its hangup,   *)
(* or that was lost, or came before the call was announced                 *)
(* (extension-calls.js:8-15).                                              *)
(***************************************************************************)
RecordIsRight ==
    /\ announced # NoCall /\ announced \notin closed /\ ~expired => callId = announced
    /\ callId # NoCall /\ atDialpad[callId] = "over" =>
         callId \in unmatched \/ \E e \in events : e.call = callId /\ e.state = "hangup"

(***************************************************************************)
(* The day's count is the number of hangups that were handled, unless two  *)
(* were counted at the same time or the count failed (cache.js:328-331).   *)
(***************************************************************************)
CountsHangups == ~miscounted => dailyCount = Cardinality(counted)

\* What the object and the day's count say of the consultant's calls.
CallRecordHolds == RecordIsRight /\ CountsHangups

(***************************************************************************)
(* A record that no hangup clears is cleared by the alarm in the end: no   *)
(* call keeps the button on Hangup for ever.                               *)
(***************************************************************************)
RecordClears == <>[](callId = NoCall)
=============================================================================

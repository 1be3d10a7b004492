----------------------------- MODULE MusicTransport -----------------------------
(***************************************************************************)
(* The commands of the music remote that are not queued                    *)
(* (music-worker/src/music-do.js): pause, resume and next, of which the    *)
(* first in a cooldown is delivered and the others dropped, and prev, with *)
(* its bucket of two presses.  The decision is serialised and stored, the  *)
(* delivery follows it.  Times are ages, kept no longer than they matter.  *)
(***************************************************************************)
EXTENDS Integers, Sequences, SequencesExt

CONSTANTS
    Throttled,          \* the categories toggle and next, each with its own cooldown
    ThrottleTime,       \* COOLDOWN_MS.toggle and .next
    DeliverTimeout,     \* DELIVER_TIMEOUT_MS
    BurstLimit, BurstWindow, MinSpacing     \* PREV_BURST_LIMIT, _WINDOW_MS and PREV_MIN_SPACING_MS

\* The cooldown of the throttled categories is no shorter than a delivery takes,
\* and the bucket holds a double tap that a dropped press came before.
ASSUME TransportConstants ==
    /\ {ThrottleTime, DeliverTimeout, BurstLimit, BurstWindow, MinSpacing} \subseteq Nat \ {0}
    /\ DeliverTimeout <= ThrottleTime
    /\ 2 <= BurstLimit /\ 2 * MinSpacing <= BurstWindow

VARIABLES
    lastExec,       \* [Throttled -> the age of lastExec, at most ThrottleTime]
    prevTimes,      \* prevTimestamps, their ages, oldest first
    delivering,     \* [Throttled -> the ages of the deliveries under way, oldest first]
    \* History, read by the properties only:
    taps,           \* the ages of the last two presses of prev, accepted or not
    sent            \* the ages of the presses of prev that went to the dashboard

transportVars == <<lastExec, prevTimes, delivering, taps, sent>>

TransportInit ==
    /\ lastExec = [k \in Throttled |-> ThrottleTime]
    /\ prevTimes = <<>> /\ delivering = [k \in Throttled |-> <<>>]
    /\ taps = <<>> /\ sent = <<>>

\* How many of the ages s lie beyond the window: the oldest come first.
Beyond(s) ==
    CHOOSE n \in 0 .. Len(s) :
        /\ \A i \in 1 .. n : s[i] >= BurstWindow
        /\ \A i \in n + 1 .. Len(s) : s[i] < BurstWindow

\* Those within it: the filter leaves a prefix out.
Within(s) == SubSeq(s, Beyond(s) + 1, Len(s))

-----------------------------------------------------------------------------
\* throttleCommand: the cooldown is claimed, and then the command delivered.
\* Mutant: the claim is made when the dashboard has answered.
Throttle_ClaimsLate(k) ==
    /\ lastExec[k] = ThrottleTime
    /\ delivering' = [delivering EXCEPT ![k] = Append(@, 0)]
    /\ UNCHANGED <<lastExec, prevTimes, taps, sent>>

Throttle(k) ==
    /\ lastExec[k] = ThrottleTime
    /\ lastExec' = [lastExec EXCEPT ![k] = 0]
    /\ delivering' = [delivering EXCEPT ![k] = Append(@, 0)]
    /\ UNCHANGED <<prevTimes, taps, sent>>

\* Dropped, and answered as such.
ThrottleDrops(k) == lastExec[k] < ThrottleTime /\ UNCHANGED transportVars

\* Mutant: no bucket, the spacing alone.
Accepted_Spaced(recent) == recent = <<>> \/ Last(recent) >= MinSpacing

Accepted(recent) == Len(recent) < BurstLimit \/ Last(recent) >= MinSpacing

\* burstCommand: the window is kept also when the press is dropped.
Burst ==
    LET recent == Within(prevTimes)
    IN  /\ prevTimes' = IF Accepted(recent) THEN Append(recent, 0) ELSE recent
        /\ sent' = IF Accepted(recent) THEN Append(sent, 0) ELSE sent
        /\ taps' = Append(IF Len(taps) = 2 THEN Tail(taps) ELSE taps, 0)
        /\ UNCHANGED <<lastExec, delivering>>

\* deliverInline ends: the answer is passed on, or an error or the timeout is a 502.
Delivered(k) ==
    /\ \E i \in DOMAIN delivering[k] : delivering' = [delivering EXCEPT ![k] = RemoveAt(@, i)]
    /\ UNCHANGED <<lastExec, prevTimes, taps, sent>>

\* The object is restarted: its storage stays.
TransportRestarts ==
    /\ delivering' = [k \in Throttled |-> <<>>]
    /\ UNCHANGED <<lastExec, prevTimes, taps, sent>>

Older(s, most) == [i \in DOMAIN s |-> IF s[i] < most THEN s[i] + 1 ELSE most]

\* A delivery that is due to be aborted is.
TransportTick ==
    /\ \A k \in Throttled : \A i \in DOMAIN delivering[k] : delivering[k][i] < DeliverTimeout
    /\ lastExec' = Older(lastExec, ThrottleTime)
    /\ prevTimes' = Older(prevTimes, BurstWindow)
    /\ delivering' = [k \in Throttled |-> Older(delivering[k], DeliverTimeout)]
    /\ taps' = Older(taps, BurstWindow)
    /\ sent' = Within(Older(sent, BurstWindow))

TransportNext ==
    \/ \E k \in Throttled : Throttle(k) \/ ThrottleDrops(k) \/ Delivered(k)
    \/ Burst \/ TransportRestarts \/ TransportTick

TransportSpec == TransportInit /\ [][TransportNext]_transportVars

-----------------------------------------------------------------------------
TransportTypeOK ==
    /\ lastExec \in [Throttled -> 0 .. ThrottleTime]
    /\ delivering \in [Throttled -> Seq(0 .. DeliverTimeout)]
    /\ prevTimes \in Seq(0 .. BurstWindow)
    /\ taps \in Seq(0 .. BurstWindow) /\ Len(taps) <= 2
    /\ sent \in Seq(0 .. BurstWindow - 1) /\ Len(sent) <= Len(prevTimes)

(***************************************************************************)
(* No pause overtakes the resume before it, nor the reverse: a delivery    *)
(* begins when the last of its category has ended or is at its timeout     *)
(* (music-do.js:100, 141-146, 490-527).                                    *)
(***************************************************************************)
NoOvertaking ==
    \A k \in Throttled : \A i, j \in DOMAIN delivering[k] :
        i < j => delivering[k][i] >= DeliverTimeout

(***************************************************************************)
(* In no window does the dashboard get more presses of prev than the       *)
(* bucket and the spacing allow, and of two fast ones it gets the gesture: *)
(* two within the window (music-do.js:113-121, 530-570).                   *)
(***************************************************************************)
PrevIsPaced == Len(sent) <= BurstLimit + ((BurstWindow - 1) \div MinSpacing)

FastDoubleTapReaches ==
    Len(taps) = 2 /\ taps[1] < MinSpacing /\ taps[2] = 0 => Len(sent) >= 2
=============================================================================

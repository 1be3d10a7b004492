------------------------------- MODULE CacheCalls -------------------------------
(***************************************************************************)
(* The calls table and its writers: the hangup webhook, forwarded once to  *)
(* the cache worker (webhook/dialpad-hangup-forwarder.js, handleInternal), *)
(* and tailSyncCallsThin (cache-worker/src/index.js), which every quarter  *)
(* of an hour lists the calls that began after the latest of the table,    *)
(* less an overlap.                                                        *)
(*                                                                         *)
(* Cron is taken to fire on time: every unit of the clock once.  A tick    *)
(* fits in its unit, unless its isolate dies and leaves the lease behind.  *)
(***************************************************************************)
EXTENDS Integers, FiniteSets, FiniteSetsExt

CONSTANTS
    Calls,
    Overlap,            \* SIX_HOURS_MS, and WATCHDOG_HOURS: the same six hours
    MaxDuration,        \* bound on the length of a call
    MaxCallFailures,    \* bound on the ticks that fail
    MaxDeaths,          \* bound on the ticks that die
    MaxCallTime         \* bound on the clock

ASSUME CallConstants ==
    {Overlap, MaxDuration, MaxCallFailures, MaxDeaths, MaxCallTime} \subseteq Nat

VARIABLES
    callNow,
    fired,          \* cron has fired in this unit
    began,          \* [Calls -> when it began, or NotBegun]
    ended,          \* SUBSET Calls, the concluded ones: what Dialpad lists
    calls,          \* SUBSET Calls, the rows
    callLease,      \* Free, or when it was claimed (SubtaskLease)
    callPc,         \* where the tick is
    after,          \* its started_after
    callsListed,    \* the calls it was listed
    callFailures, deaths

callVars == <<callNow, fired, began, ended, calls, callLease, callPc, after, callsListed,
              callFailures, deaths>>

Lease == INSTANCE SubtaskLease WITH WatchdogAge <- Overlap

dialpad == <<callNow, began, ended>>

NotBegun == -1
LongAgo == -1 - Overlap     \* two years before the first modelled call

CallsInit ==
    /\ callNow = 0 /\ fired = FALSE
    /\ began = [c \in Calls |-> NotBegun]
    /\ ended = {}
    /\ calls = {}
    /\ callLease = Lease!Free /\ callPc = "idle"
    /\ after = LongAgo /\ callsListed = {}
    /\ callFailures = 0 /\ deaths = 0

Begins(c) ==
    /\ began[c] = NotBegun
    /\ began' = [began EXCEPT ![c] = callNow]
    /\ UNCHANGED <<callNow, fired, ended, calls, callLease, callPc, after, callsListed,
                   callFailures, deaths>>

HangsUp(c) ==
    /\ began[c] # NotBegun /\ c \notin ended
    /\ ended' = ended \cup {c}
    /\ UNCHANGED <<callNow, fired, began, calls, callLease, callPc, after, callsListed,
                   callFailures, deaths>>

\* forwardHangupToSyncWorker, tried once: it may be late, and it may be lost.
Forwarded(c) ==
    /\ c \in ended \ calls
    /\ calls' = calls \cup {c}
    /\ UNCHANGED <<dialpad, fired, callLease, callPc, after, callsListed, callFailures,
                   deaths>>

\* A live tick is faster than the clock, and a call does not last for ever.
CallsTick ==
    /\ callNow < MaxCallTime /\ fired /\ callPc = "idle"
    /\ \A c \in Calls \ ended : began[c] # NotBegun => callNow - began[c] < MaxDuration
    /\ callNow' = callNow + 1
    /\ fired' = FALSE
    /\ UNCHANGED <<began, ended, calls, callLease, callPc, after, callsListed,
                   callFailures, deaths>>

-----------------------------------------------------------------------------
\* MAX(date_started_ms)
Latest == IF calls = {} THEN NotBegun ELSE Max({began[c] : c \in calls})

\* Mutant: the overlap is forgotten.
StartedAfter_NoOverlap == Latest

StartedAfter == Latest - Overlap

CallsStart ==
    /\ callPc = "idle" /\ ~fired /\ Lease!MayClaim(callLease, callNow)
    /\ fired' = TRUE
    /\ callLease' = callNow
    /\ after' = StartedAfter
    /\ callPc' = "list"
    /\ UNCHANGED <<dialpad, calls, callsListed, callFailures, deaths>>

CallsSkip ==
    /\ callPc = "idle" /\ ~fired /\ ~Lease!MayClaim(callLease, callNow)
    /\ fired' = TRUE
    /\ UNCHANGED <<dialpad, calls, callLease, callPc, after, callsListed, callFailures,
                   deaths>>

\* started_after is strict.
CallsListing ==
    /\ callPc = "list"
    /\ callsListed' = {c \in ended : began[c] > after}
    /\ callPc' = "write"
    /\ UNCHANGED <<dialpad, fired, calls, callLease, after, callFailures, deaths>>

CallsWrite ==
    /\ callPc = "write"
    /\ calls' = calls \cup callsListed
    /\ callPc' = "release"
    /\ UNCHANGED <<dialpad, fired, callLease, after, callsListed, callFailures, deaths>>

\* Dialpad or D1 fails: some batches may have been written.
CallsFail ==
    /\ callPc \in {"list", "write"} /\ callFailures < MaxCallFailures
    /\ \E part \in SUBSET callsListed : calls' = calls \cup part
    /\ callPc' = "release"
    /\ callFailures' = callFailures + 1
    /\ UNCHANGED <<dialpad, fired, callLease, after, callsListed, deaths>>

\* The finally block.
CallsRelease ==
    /\ callPc = "release"
    /\ callLease' = Lease!Free
    /\ callPc' = "idle"
    /\ callsListed' = {}
    /\ UNCHANGED <<dialpad, fired, calls, after, callFailures, deaths>>

\* The isolate is gone before the finally block.
CallsDie ==
    /\ callPc # "idle" /\ deaths < MaxDeaths
    /\ callLease' = IF callPc = "release" THEN callNow ELSE callLease
    /\ callPc' = "idle"
    /\ callsListed' = {}
    /\ deaths' = deaths + 1
    /\ UNCHANGED <<dialpad, fired, calls, after, callFailures>>

CallsRun == CallsStart \/ CallsSkip \/ CallsListing \/ CallsWrite \/ CallsRelease

CallsNext ==
    \/ \E c \in Calls : Begins(c) \/ HangsUp(c) \/ Forwarded(c)
    \/ CallsRun \/ CallsFail \/ CallsDie \/ CallsTick

CallsSpec == CallsInit /\ [][CallsNext]_callVars

-----------------------------------------------------------------------------
CallsTypeOK ==
    /\ callNow \in 0 .. MaxCallTime /\ fired \in BOOLEAN
    /\ began \in [Calls -> {NotBegun} \cup 0 .. callNow]
    /\ ended \subseteq {c \in Calls : began[c] # NotBegun}
    /\ calls \cup callsListed \subseteq ended
    /\ callLease \in {Lease!Free} \cup 0 .. callNow
    /\ callPc \in {"idle", "list", "write", "release"}
    /\ callPc # "idle" => callLease # Lease!Free /\ fired
    /\ after \in LongAgo .. callNow

\* A call the cron can still find: the next listing asks for it, or this one does.
Findable(c) ==
    \/ began[c] > StartedAfter
    \/ callPc = "list" /\ began[c] > after
    \/ c \in callsListed

(***************************************************************************)
(* What docs/security.md:124 and extension-calls.js:66-69 say of a dropped *)
(* forward: cron writes the call.  The calls that arrive by the webhook    *)
(* raise the start of the cron's window; it must not leave behind a        *)
(* concluded call that is not in the table.                                *)
(***************************************************************************)
NoneLeftBehind == \A c \in ended \ calls : Findable(c)

(***************************************************************************)
(* That much holds as long as no tick dies and the ticks that fail are     *)
(* together shorter than the overlap, whatever the webhook loses and in    *)
(* whatever order the calls arrive, the ticks that fail half written       *)
(* included (index.js:361-371).                                            *)
(***************************************************************************)
OnlyOutageLeavesBehind ==
    deaths = 0 /\ MaxDuration + callFailures + 1 < Overlap => NoneLeftBehind
=============================================================================

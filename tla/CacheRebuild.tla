----------------------------- MODULE CacheRebuild -----------------------------
(***************************************************************************)
(* The legacy cache of whole candidates (cache-worker: tailSync, behind    *)
(* CRON_LEGACY_ENABLED, and the full rebuild of workflow.js).  Both write  *)
(* the same rows and move the same cursor, last_tail_sync_at; the lease    *)
(* in_flight, read and then written, is all that keeps them apart.  Times  *)
(* are in ticks; RF's search filters by day.                               *)
(***************************************************************************)
EXTENDS Integers, FiniteSets, FiniteSetsExt

CONSTANTS
    Persons,         \* the candidates in RF
    Recent,         \* those active today, at first
    Tails,          \* ticks of the cron
    Rebuilds,       \* workflow instances
    HardCap,        \* HARD_CAP, of one search
    Patience,       \* WATCHDOG_HOURS
    DayTicks,       \* the length of a day
    MaxUpdates, MaxLegacyTime

ASSUME RebuildConstants ==
    /\ Tails \cap Rebuilds = {}
    /\ IsFiniteSet(Persons) /\ HardCap \in Nat \ {0}
    /\ DayTicks \in Nat \ {0} /\ Patience \in Nat /\ MaxLegacyTime \in Nat /\ DayTicks <= MaxLegacyTime

VARIABLES
    legacyTime,
    rfRow,         \* [Persons -> [version, at: RF's last_activity]]
    cachedRow,      \* [Persons -> the version in D1, 0 for none]
    syncedAt,       \* last_tail_sync_at, or Never
    inFlight,       \* in_flight
    writer,         \* [Tails \cup Rebuilds -> the run, a record]
    \* History, read by the properties only:
    passed,         \* who was updated after a run had looked, and then passed by its cursor
    overlapped      \* two runs held the lease at once

legacyVars == <<legacyTime, rfRow, cachedRow, syncedAt, inFlight, writer, passed, overlapped>>

Never == -1
Writers == Tails \cup Rebuilds
Nothing == [who |-> "none", version |-> 0]
AtRest == [step |-> "idle", todo |-> {}, got |-> Nothing, looked |-> 0, cursor |-> Never]

RebuildInit ==
    /\ legacyTime = DayTicks
    /\ rfRow = [c \in Persons |-> [version |-> 1, at |-> IF c \in Recent THEN DayTicks ELSE 0]]
    /\ cachedRow = [c \in Persons |-> 1]
    /\ syncedAt = DayTicks /\ inFlight = FALSE
    /\ writer = [w \in Writers |-> AtRest]
    /\ passed = {} /\ overlapped = FALSE

DayOf(t) == t \div DayTicks
Becomes(w, run) == writer' = [writer EXCEPT ![w] = run]
Goes(w, step) == Becomes(w, [AtRest EXCEPT !.step = step])

PersonUpdated(c) ==
    /\ MapThenSumSet(LAMBDA p : rfRow[p].version - 1, Persons) < MaxUpdates
    /\ rfRow' = [rfRow EXCEPT ![c] = [version |-> @.version + 1, at |-> legacyTime]]
    /\ UNCHANGED <<legacyTime, cachedRow, syncedAt, inFlight, writer, passed, overlapped>>

-----------------------------------------------------------------------------
\* The watchdog of a tail clears the lease when the last completed sync is old,
\* however young the lease; a rebuild has no watchdog.
LeaseFree(w) ==
    ~inFlight \/ (w \in Tails /\ syncedAt # Never /\ legacyTime - syncedAt > Patience)

\* The lease is read.
Begins(w) ==
    /\ writer[w].step = "idle"
    /\ LeaseFree(w)
    /\ inFlight' = FALSE
    /\ Goes(w, "claim")
    /\ UNCHANGED <<legacyTime, rfRow, cachedRow, syncedAt, passed, overlapped>>

\* The lease is written.  A rebuild of jobs or pipelines only reads no candidates.
Claims(w) ==
    /\ writer[w].step = "claim"
    /\ inFlight' = TRUE
    /\ overlapped' = (overlapped \/ \E o \in Writers \ {w} : writer[o].step \notin {"idle", "claim"})
    /\ \E only \in IF w \in Rebuilds THEN {{}, Persons} ELSE {{}} :
         Becomes(w, [AtRest EXCEPT !.step = IF w \in Tails THEN "search" ELSE "fetch", !.todo = only,
                                   !.looked = legacyTime])
    /\ UNCHANGED <<legacyTime, rfRow, cachedRow, syncedAt, passed>>

-----------------------------------------------------------------------------
(***************************************************************************)
(* fetchCandidatesUpdatedSince: whoever was active on the cursor's day or  *)
(* after; the new cursor is the time after the search, unless it is cut.   *)
(***************************************************************************)
ActiveSince(t) == {c \in Persons : DayOf(rfRow[c].at) >= DayOf(t)}

Searches(w) ==
    /\ writer[w].step = "search"
    /\ \E cursor \in {IF syncedAt = Never THEN legacyTime - 1 ELSE syncedAt}, ids \in SUBSET Persons :
         /\ ids \subseteq ActiveSince(cursor)
         /\ IF Cardinality(ActiveSince(cursor)) <= HardCap THEN ids = ActiveSince(cursor)
            ELSE Cardinality(ids) = HardCap
         /\ Becomes(w, [writer[w] EXCEPT !.todo = ids, !.looked = legacyTime, !.cursor = cursor,
                                         !.step = IF Cardinality(ids) = HardCap THEN "fetch" ELSE "stamp"])
    /\ UNCHANGED <<legacyTime, rfRow, cachedRow, syncedAt, inFlight, passed, overlapped>>

NewCursor(w) ==
    /\ writer[w].step = "stamp"
    /\ Becomes(w, [writer[w] EXCEPT !.step = "fetch", !.cursor = legacyTime])
    /\ UNCHANGED <<legacyTime, rfRow, cachedRow, syncedAt, inFlight, passed, overlapped>>

\* A batch of the tail, or a page of the rebuild: read, and then written whole.
FetchesOne(w, c) ==
    /\ writer[w].step = "fetch" /\ c \in writer[w].todo
    /\ Becomes(w, [writer[w] EXCEPT !.step = "write", !.todo = @ \ {c},
                                    !.got = [who |-> c, version |-> rfRow[c].version]])
    /\ UNCHANGED <<legacyTime, rfRow, cachedRow, syncedAt, inFlight, passed, overlapped>>

WritesOne(w) ==
    /\ writer[w].step = "write"
    /\ cachedRow' = [cachedRow EXCEPT ![writer[w].got.who] = writer[w].got.version]
    /\ Becomes(w, [writer[w] EXCEPT !.step = "fetch", !.got = Nothing])
    /\ UNCHANGED <<legacyTime, rfRow, syncedAt, inFlight, passed, overlapped>>

\* Mutant: the cursor moves although the search was cut.
CursorOf_Now(w) == legacyTime

\* record completion: a rebuild of any kind names the present.
CursorOf(w) == IF w \in Rebuilds THEN legacyTime ELSE writer[w].cursor

Stale(c) == cachedRow[c] # rfRow[c].version

Completes(w) ==
    /\ writer[w].step = "fetch" /\ writer[w].todo = {}
    /\ syncedAt' = CursorOf(w)
    /\ passed' = passed \cup {c \in Persons : Stale(c) /\ (w \in Rebuilds \/ rfRow[c].at >= writer[w].looked)}
    /\ Goes(w, "release")
    /\ UNCHANGED <<legacyTime, rfRow, cachedRow, inFlight, overlapped>>

\* A call fails, after its retries: the rest is left, the lease is not.
Throws(w) ==
    /\ writer[w].step \in {"search", "fetch", "write"}
    /\ Goes(w, "release")
    /\ UNCHANGED <<legacyTime, rfRow, cachedRow, syncedAt, inFlight, passed, overlapped>>

\* The tail's invocation is ended by the runtime: nothing is released.
Killed(w) ==
    /\ w \in Tails /\ writer[w].step # "idle"
    /\ Becomes(w, AtRest)
    /\ UNCHANGED <<legacyTime, rfRow, cachedRow, syncedAt, inFlight, passed, overlapped>>

\* finally: the token is deleted, whoever's it is.
Releases(w) ==
    /\ writer[w].step = "release"
    /\ inFlight' = FALSE
    /\ Becomes(w, AtRest)
    /\ UNCHANGED <<legacyTime, rfRow, cachedRow, syncedAt, passed, overlapped>>

LegacyTick ==
    /\ legacyTime < MaxLegacyTime
    /\ legacyTime' = legacyTime + 1
    /\ UNCHANGED <<rfRow, cachedRow, syncedAt, inFlight, writer, passed, overlapped>>

RebuildNext ==
    \/ \E c \in Persons : PersonUpdated(c)
    \/ \E w \in Writers :
         \/ Begins(w) \/ Claims(w) \/ Searches(w) \/ NewCursor(w) \/ WritesOne(w) \/ Completes(w)
         \/ Throws(w) \/ Killed(w) \/ Releases(w)
         \/ \E c \in Persons : FetchesOne(w, c)
    \/ LegacyTick

RebuildSpec == RebuildInit /\ [][RebuildNext]_legacyVars

-----------------------------------------------------------------------------
RebuildTypeOK ==
    /\ legacyTime \in 0 .. MaxLegacyTime /\ syncedAt \in {Never} \cup 0 .. MaxLegacyTime
    /\ \A c \in Persons : cachedRow[c] \in 0 .. rfRow[c].version
    /\ \A w \in Writers :
         /\ writer[w].step \in {"idle", "claim", "search", "stamp", "fetch", "write", "release"}
         /\ writer[w].todo \subseteq Persons

(***************************************************************************)
(* A row that is not what RF has, and that no tail will look at again, is  *)
(* of a candidate updated after a run had looked at RF and passed by its   *)
(* cursor, or two runs wrote at once (rf-list-client.js:134-138,           *)
(* workflow.js:143-150): a cut search or a failed batch leaves none.       *)
(***************************************************************************)
StaleWasPassed ==
    \A c \in Persons : Stale(c) /\ DayOf(rfRow[c].at) < DayOf(syncedAt) => c \in passed \/ overlapped
=============================================================================

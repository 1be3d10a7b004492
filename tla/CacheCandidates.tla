---------------------------- MODULE CacheCandidates ----------------------------
(***************************************************************************)
(* tailSyncCandidatesThin (cache-worker/src/index.js): every quarter of an *)
(* hour, the candidates RF says were added since the day of a cursor are   *)
(* inserted into candidates_v2, where the first write wins, and the cursor *)
(* moves to the last of them, or to the first if the search was capped.    *)
(***************************************************************************)
EXTENDS Integers, FiniteSets, FiniteSetsExt, SubtaskLease

CONSTANTS
    Candidates,
    Malformed,      \* candidates whose rows lack added_time
    Profile(_),     \* a candidate's LinkedIn slug, or NoProfile
    Cap,            \* HARD_CAP
    DayLength,      \* RF's date filter has the granularity of a day
    MaxCrashes,     \* bound on the ticks that die
    MaxTime         \* bound on the clock

ASSUME CacheConstants ==
    /\ {Cap, DayLength, WatchdogAge} \subseteq Nat \ {0}
    /\ {MaxCrashes, MaxTime} \subseteq Nat
    /\ Malformed \subseteq Candidates

VARIABLES
    now,
    added,      \* [Candidates -> when it was added to RF, or NotYet]
    shown,      \* RF's search index shows what was added before
    table,      \* SUBSET Candidates, candidates_v2
    cursor,     \* sync_state last_candidates_added_cursor
    lease,      \* Free, or when it was claimed (SubtaskLease)
    pc,         \* where the tick is
    page,       \* the rows it fetched
    crashes

vars == <<now, added, shown, table, cursor, lease, pc, page, crashes>>

NotYet == -1
NoProfile == "none"
Day(t) == t \div DayLength

\* Without a cursor the search goes two years back: before any modelled row.
Init ==
    /\ now = 0
    /\ added = [c \in Candidates |-> NotYet]
    /\ shown = 0
    /\ table = {}
    /\ cursor = 0
    /\ lease = Free
    /\ pc = "idle"
    /\ page = {}
    /\ crashes = 0

InRF == {c \in Candidates : added[c] # NotYet}

Add(c) ==
    /\ c \notin InRF /\ now < MaxTime
    /\ added' = [added EXCEPT ![c] = now]
    /\ UNCHANGED <<now, shown, table, cursor, lease, pc, page, crashes>>

IndexCatchesUp ==
    /\ shown' \in shown + 1 .. now
    /\ UNCHANGED <<now, added, table, cursor, lease, pc, page, crashes>>

Tick ==
    /\ now < MaxTime
    /\ now' = now + 1
    /\ UNCHANGED <<added, shown, table, cursor, lease, pc, page, crashes>>

-----------------------------------------------------------------------------
Starts ==
    /\ pc = "idle" /\ MayClaim(lease, now)
    /\ lease' = now
    /\ pc' = "search"
    /\ UNCHANGED <<now, added, shown, table, cursor, page, crashes>>

\* What the search matches, the cursor rounded down to its day.
Matches == {c \in InRF : added[c] < shown /\ Day(added[c]) >= Day(cursor)}

\* HARD_CAP cuts the rest off.  RF documents no order; oldest first is the one
\* that the cursor of a capped search is made for.
Returned(rows) ==
    /\ rows \subseteq Matches
    /\ Cardinality(rows) = IF Cardinality(Matches) > Cap THEN Cap ELSE Cardinality(Matches)
    /\ \A c \in rows, d \in Matches \ rows : added[c] <= added[d]

SearchAnswers ==
    /\ pc = "search"
    /\ \E rows \in SUBSET Matches : Returned(rows) /\ page' = rows
    /\ pc' = "write"
    /\ UNCHANGED <<now, added, shown, table, cursor, lease, crashes>>

\* Mutant: a row is built without its added_time.
Built_Unchecked(rows) == rows

\* buildRowsResilient
Built(rows) == rows \ Malformed

Taken(slug, rows) == slug # NoProfile /\ \E c \in rows : Profile(c) = slug

(***************************************************************************)
(* INSERT OR IGNORE under two constraints, the primary key and the unique  *)
(* LinkedIn profile: of two rows with one profile the first stays.         *)
(***************************************************************************)
Ignoring(T, rows) ==
    /\ table \subseteq T /\ T \subseteq table \cup rows
    /\ \A c, d \in T : c # d /\ Profile(c) = Profile(d) => Profile(c) = NoProfile
    /\ \A c \in rows \ T : Taken(Profile(c), T)

Writes ==
    /\ pc = "write"
    /\ \E T \in SUBSET (table \cup Built(page)) : Ignoring(T, Built(page)) /\ table' = T
    /\ pc' = "advance"
    /\ UNCHANGED <<now, added, shown, cursor, lease, page, crashes>>

Times(rows) == {added[c] : c \in rows \ Malformed}

\* Mutant: the cursor jumps to now.
Advanced_Now(rows) == IF Cardinality(rows) >= Cap THEN cursor ELSE now

\* suggestedCursor
Advanced(rows) ==
    IF Times(rows) = {} THEN cursor
    ELSE LET seen == IF Cardinality(rows) >= Cap THEN Min(Times(rows)) ELSE Max(Times(rows))
         IN  Max({cursor, seen})

Advances ==
    /\ pc = "advance"
    /\ cursor' = Advanced(page)
    /\ pc' = "release"
    /\ UNCHANGED <<now, added, shown, table, lease, page, crashes>>

\* RF or D1 fails: some batches may have been written.
Fails ==
    /\ pc \in {"search", "write"} /\ crashes < MaxCrashes
    /\ \E part \in SUBSET Built(page) :
         \E T \in SUBSET (table \cup part) : Ignoring(T, part) /\ table' = T
    /\ pc' = "release"
    /\ crashes' = crashes + 1
    /\ UNCHANGED <<now, added, shown, cursor, lease, page>>

\* The finally block.
Releases ==
    /\ pc = "release"
    /\ lease' = Free
    /\ pc' = "idle"
    /\ page' = {}
    /\ UNCHANGED <<now, added, shown, table, cursor, crashes>>

\* The isolate is gone before the finally block.
Dies ==
    /\ pc # "idle" /\ crashes < MaxCrashes /\ now + WatchdogAge < MaxTime
    /\ pc' = "idle"
    /\ page' = {}
    /\ lease' = IF pc = "release" THEN now ELSE lease
    /\ crashes' = crashes + 1
    /\ UNCHANGED <<now, added, shown, table, cursor>>

Runs == Starts \/ SearchAnswers \/ Writes \/ Advances \/ Releases

Next == Runs \/ Fails \/ Dies \/ Tick \/ IndexCatchesUp \/ \E c \in Candidates : Add(c)

Spec == Init /\ [][Next]_vars

\* Cron fires for ever and a started tick runs on; failures are bounded.
Fairness == WF_vars(Runs) /\ WF_vars(Tick) /\ WF_vars(IndexCatchesUp)

FairSpec == Spec /\ Fairness

-----------------------------------------------------------------------------
TypeOK ==
    /\ now \in 0 .. MaxTime
    /\ added \in [Candidates -> {NotYet} \cup 0 .. MaxTime]
    /\ shown \in 0 .. now
    /\ table \subseteq InRF \ Malformed
    /\ cursor \in 0 .. now
    /\ lease \in {Free} \cup 0 .. now
    /\ pc \in {"idle", "search", "write", "advance", "release"}
    /\ page \subseteq InRF
    /\ crashes \in 0 .. MaxCrashes
    /\ pc # "idle" => lease # Free

\* c is in the cache, or never can be.
Settled(c) == c \in table \cup Malformed \/ Taken(Profile(c), table)

(***************************************************************************)
(* The cursor passes nothing: a candidate added before its day, which no   *)
(* tick will ask RF for again, has been dealt with                         *)
(* (rf-list-client.js:231-258).                                            *)
(***************************************************************************)
NothingBehindCursor ==
    \A c \in InRF : Day(added[c]) < Day(cursor) => Settled(c)

(***************************************************************************)
(* Whatever fails or dies on the way, and however many rows are malformed, *)
(* every candidate added to RF is dealt with in the end, or the search is  *)
(* capped (index.js:245-281, d1-write.js:219-232).                         *)
(***************************************************************************)
CandidateLands(c) == added[c] \in 0 .. MaxTime - 1 ~> Settled(c) \/ Cardinality(Matches) >= Cap
CandidatesLand == \A c \in Candidates : CandidateLands(c)

Spike == \E day \in 0 .. MaxTime : Cardinality({c \in InRF : Day(added[c]) = day}) >= Cap

(***************************************************************************)
(* What rf-list-client.js:253-255 and docs/architecture.md:1084 say of the *)
(* cap: forward progress on huge multi-day backlogs, as long as no single  *)
(* day fills it.                                                           *)
(***************************************************************************)
BacklogDrains ==
    []~Spike => \A c \in Candidates : added[c] \in 0 .. MaxTime - 1 ~> Settled(c)
=============================================================================

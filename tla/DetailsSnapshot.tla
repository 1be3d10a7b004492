---------------------------- MODULE DetailsSnapshot ----------------------------
(***************************************************************************)
(* The snapshot of one candidate behind /candidate-details                 *)
(* (src/handlers/candidates.js, src/cache.js): details:{id} in KV, put by  *)
(* whoever missed it, the request itself or a prewarm, for twenty minutes; *)
(* /candidate-mark-invalid changes Recruiterflow and then deletes it.  The *)
(* activities' snapshot has the same life and the same ends.               *)
(***************************************************************************)
EXTENDS Integers

CONSTANTS
    Loads,          \* requests and prewarms
    Life,           \* DETAILS_CACHE_TTL
    FetchTime,      \* RF's answer is in KV within this time
    MaxVersions, MaxClock   \* bounds on the changes in RF and on time

VARIABLES
    clock,
    version,        \* of the candidate in RF
    changed,        \* [versions -> when the next one replaced it]
    tagged,         \* RF's candidate has the tag Number Invalid
    snapshot,       \* what KV has, [version, left], or NoSnapshot
    loads,          \* [Loads -> the request, a record]
    mark,           \* the request to mark the number invalid, a record
    \* History, read by the properties only:
    overtaken       \* a load had RF's older answer in hand when the mark changed it

snapshotVars == <<clock, version, changed, tagged, snapshot, loads, mark, overtaken>>

ASSUME SnapshotConstants ==
    /\ Life \in Nat \ {0} /\ FetchTime \in Nat
    /\ MaxVersions \in Nat \ {0} /\ MaxClock \in Nat

NoSnapshot == [version |-> 0, left |-> 0]
Ready == [step |-> "idle", version |-> 0, age |-> 0, shown |-> 0]

SnapshotInit ==
    /\ clock = 0 /\ version = 1
    /\ changed = [v \in 1 .. MaxVersions |-> MaxClock]
    /\ tagged = FALSE
    /\ snapshot = NoSnapshot
    /\ loads = [l \in Loads |-> Ready]
    /\ mark = [step |-> "idle", version |-> 0]
    /\ overtaken = FALSE

\* How long a version has been out of date.
Behind(v) == IF v = version THEN 0 ELSE clock - changed[v]

Ticks ==
    /\ clock < MaxClock
    /\ \A l \in Loads : loads[l].step \in {"fetch", "put"} => loads[l].age < FetchTime
    /\ clock' = clock + 1
    /\ snapshot' = IF snapshot.left > 1 THEN [snapshot EXCEPT !.left = @ - 1] ELSE NoSnapshot
    /\ loads' = [l \in Loads |-> IF loads[l].step \in {"fetch", "put"}
                                   THEN [loads[l] EXCEPT !.age = @ + 1] ELSE loads[l]]
    /\ UNCHANGED <<version, changed, tagged, mark, overtaken>>

Replaces ==
    /\ version < MaxVersions
    /\ version' = version + 1
    /\ changed' = [changed EXCEPT ![version] = clock]

\* A recruiter or a call's log changes the candidate.
Changes ==
    /\ Replaces
    /\ UNCHANGED <<clock, tagged, snapshot, loads, mark, overtaken>>

-----------------------------------------------------------------------------
\* Mutant: a hit is put again, for another twenty minutes.
Hit_Renewed(l) ==
    /\ loads[l].step = "idle" /\ snapshot # NoSnapshot
    /\ loads' = [loads EXCEPT ![l].step = "shown", ![l].version = snapshot.version,
                              ![l].shown = Behind(snapshot.version)]
    /\ snapshot' = [snapshot EXCEPT !.left = Life]
    /\ UNCHANGED <<clock, version, changed, tagged, mark, overtaken>>

Hit(l) ==
    /\ loads[l].step = "idle" /\ snapshot # NoSnapshot
    /\ loads' = [loads EXCEPT ![l].step = "shown", ![l].version = snapshot.version,
                              ![l].shown = Behind(snapshot.version)]
    /\ UNCHANGED <<clock, version, changed, tagged, snapshot, mark, overtaken>>

Misses(l) ==
    /\ loads[l].step = "idle" /\ snapshot = NoSnapshot
    /\ loads' = [loads EXCEPT ![l].step = "fetch"]
    /\ UNCHANGED <<clock, version, changed, tagged, snapshot, mark, overtaken>>

\* What RF answers now is put later; an error is answered 500 and puts nothing.
Fetch(l) ==
    /\ loads[l].step = "fetch"
    /\ loads' \in {[loads EXCEPT ![l].step = "put", ![l].version = version],
                   [loads EXCEPT ![l] = Ready]}
    /\ UNCHANGED <<clock, version, changed, tagged, snapshot, mark, overtaken>>

Put(l) ==
    /\ loads[l].step = "put"
    /\ snapshot' = [version |-> loads[l].version, left |-> Life]
    /\ loads' = [loads EXCEPT ![l].step = "shown", ![l].age = 0,
                              ![l].shown = Behind(loads[l].version)]
    /\ UNCHANGED <<clock, version, changed, tagged, mark, overtaken>>

Leaves(l) ==
    /\ loads[l].step = "shown"
    /\ loads' = [loads EXCEPT ![l] = Ready]
    /\ UNCHANGED <<clock, version, changed, tagged, snapshot, mark, overtaken>>

-----------------------------------------------------------------------------
\* /candidate-mark-invalid.  A candidate that has the tag is left as it is.

ReadTags ==
    /\ mark.step = "idle"
    /\ mark' = [mark EXCEPT !.step = IF tagged THEN "answered" ELSE "update"]
    /\ UNCHANGED <<clock, version, changed, tagged, snapshot, loads, overtaken>>

AddTag ==
    /\ mark.step = "update"
    /\ Replaces
    /\ tagged' = TRUE
    /\ mark' = [step |-> "delete", version |-> version']
    /\ overtaken' = \E l \in Loads : loads[l].step = "put"
    /\ UNCHANGED <<clock, snapshot, loads>>

DeleteSnapshot ==
    /\ mark.step = "delete"
    /\ snapshot' = NoSnapshot
    /\ mark' = [mark EXCEPT !.step = "answered"]
    /\ UNCHANGED <<clock, version, changed, tagged, loads, overtaken>>

MarkFails ==
    /\ mark.step \in {"update", "delete"}
    /\ mark' = [step |-> "idle", version |-> 0]
    /\ UNCHANGED <<clock, version, changed, tagged, snapshot, loads, overtaken>>

SnapshotNext ==
    \/ Ticks \/ Changes
    \/ \E l \in Loads : Hit(l) \/ Misses(l) \/ Fetch(l) \/ Put(l) \/ Leaves(l)
    \/ ReadTags \/ AddTag \/ DeleteSnapshot \/ MarkFails

SnapshotSpec == SnapshotInit /\ [][SnapshotNext]_snapshotVars

-----------------------------------------------------------------------------
SnapshotTypeOK ==
    /\ clock \in 0 .. MaxClock /\ version \in 1 .. MaxVersions
    /\ snapshot # NoSnapshot => snapshot.version <= version /\ snapshot.left \in 1 .. Life
    /\ \A l \in Loads : loads[l].version <= version /\ loads[l].age <= FetchTime

(***************************************************************************)
(* What the extension is shown was true within the snapshot's life and the *)
(* time it takes to load; and once a mark was answered the snapshot is     *)
(* gone or knows of it, unless a load had RF's older answer in hand when   *)
(* the mark changed it (candidates.js:587-590).                            *)
(***************************************************************************)
ShownInTime ==
    /\ \A l \in Loads : loads[l].shown <= Life + FetchTime
    /\ mark.step = "answered" /\ ~overtaken =>
         snapshot = NoSnapshot \/ snapshot.version >= mark.version
=============================================================================

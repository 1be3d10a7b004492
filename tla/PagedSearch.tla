----------------------------- MODULE PagedSearch -----------------------------
(***************************************************************************)
(* A walk over one of RF's lists by page number: the searches and the open *)
(* jobs of the main worker (src/rf-client.js), and the jobs, the rebuild   *)
(* and the seed of the cache worker (rf-list-client.js, workflow.js).      *)
(* RF's list changes between the pages, a page may fail and be asked for   *)
(* again, RF may hold back rows of a page, and a search has a cap.         *)
(* src/stage-stats.js compares what a search gave with RF's own count.     *)
(***************************************************************************)
EXTENDS Integers, Sequences, SequencesExt, FiniteSets

CONSTANTS
    People,      \* what RF may list
    PerPage,     \* what fits on a page
    MaxPages,    \* the cap of a search
    MaxShifts    \* bound: the changes of RF's list during one walk

ASSUME PagedConstants ==
    /\ {PerPage, MaxPages, MaxShifts} \subseteq Nat /\ PerPage > 1 /\ MaxPages > 0
    /\ IsFiniteSet(People)

VARIABLES
    listing,     \* RF's list, in RF's order
    shifts,      \* bound: how often it changed
    stayed,      \* ghost: those listed ever since the walk began
    risen,       \* ghost: those whose activity moved them to the front
    withheld,    \* ghost: those that RF left out of a page
    gone,        \* ghost: somebody has left the list
    mode,        \* who walks
    page, attempt,
    found,       \* what the pages gave
    counting,    \* whether RF's answers say how many there are
    total,       \* RF's count, of the last page that had one
    outcome      \* "walking", "done" or "failed"

listingVars == <<listing, shifts, stayed, risen, gone>>
walkVars == <<withheld, mode, page, attempt, found, counting, total, outcome>>
pagedVars == <<listingVars, walkVars>>

\* A search of a stage-stats machine or of a person who waits, the open jobs, the
\* jobs of the cache worker's cron, its rebuild and its seed.
Searches == {"machine", "person"}
Modes == Searches \cup {"openJobs", "cron", "rebuild", "seed"}

\* What befalls a page: 429, 502, another 5xx, another 4xx, or no answer.
Failures == {"limited", "badGateway", "transient", "hard", "network"}
NoTotal == -1

PagedInit ==
    /\ listing \in {SetToSeq(People)} \cup {SetToSeq(People \ {p}) : p \in People}
    /\ shifts = 0 /\ stayed = ToSet(listing) /\ risen = {} /\ gone = FALSE /\ withheld = {}
    /\ mode \in Modes /\ page = 1 /\ attempt = 1 /\ found = <<>>
    /\ counting \in (IF mode \in Searches THEN BOOLEAN ELSE {FALSE}) /\ total = NoTotal
    /\ outcome = "walking"

-----------------------------------------------------------------------------
Shifts ==
    /\ outcome = "walking" /\ shifts < MaxShifts /\ shifts' = shifts + 1
    /\ UNCHANGED walkVars

\* RF lists one more, at the end.
Appears(p) ==
    /\ Shifts /\ p \notin ToSet(listing)
    /\ listing' = Append(listing, p)
    /\ UNCHANGED <<stayed, risen, gone>>

\* The i-th is worked on, and RF lists it first.
Rises(i) ==
    /\ Shifts
    /\ listing' = <<listing[i]>> \o RemoveAt(listing, i) /\ risen' = risen \cup {listing[i]}
    /\ UNCHANGED <<stayed, gone>>

\* The i-th no longer matches: it is deleted, or the job closes.
Leaves(i) ==
    /\ Shifts
    /\ listing' = RemoveAt(listing, i) /\ stayed' = stayed \ {listing[i]} /\ gone' = TRUE
    /\ UNCHANGED risen

-----------------------------------------------------------------------------
Walks == outcome = "walking" /\ UNCHANGED <<listingVars, mode, counting>>

Page ==
    LET last == page * PerPage
    IN  SubSeq(listing, last - PerPage + 1, IF last < Len(listing) THEN last ELSE Len(listing))

\* RF holds back one row of one page at most, the i-th; none if i is 0.
Held == IF withheld = {} THEN 0 .. Len(Page) ELSE {0}

Given(i) == IF i = 0 THEN Page ELSE RemoveAt(Page, i)

TakesPage(i, last) ==
    /\ Walks
    /\ withheld' = IF i = 0 THEN withheld ELSE withheld \cup {Page[i]}
    /\ found' = found \o Given(i)
    /\ total' = IF counting THEN Len(listing) ELSE total
    /\ IF last THEN outcome' = "done" /\ UNCHANGED <<page, attempt>>
       ELSE page' = page + 1 /\ attempt' = 1 /\ UNCHANGED outcome

Short(i) == Len(Given(i)) < PerPage

SearchPage(i) == mode \in Searches /\ TakesPage(i, Short(i) \/ page = MaxPages)

\* Mutant: the jobs end at the searches' cap.
OpenJobsPage_Capped(i) == mode = "openJobs" /\ TakesPage(i, Short(i) \/ page = MaxPages)

OpenJobsPage(i) == mode = "openJobs" /\ TakesPage(i, Short(i))

CronPage(i) == mode = "cron" /\ TakesPage(i, Short(i))
RebuildPage(i) == mode = "rebuild" /\ TakesPage(i, Short(i))

\* Mutant: a short page is the last one, as it is for the others.
SeedPage_Short(i) == mode = "seed" /\ TakesPage(i, Short(i))

\* The seed ends at an empty page.
SeedPage(i) == mode = "seed" /\ TakesPage(i, Given(i) = <<>>)

-----------------------------------------------------------------------------
\* withBurstRetry: three attempts, unless RF refuses the request itself.
BurstRetries(failure) == mode = "machine" /\ failure # "hard" /\ attempt < 3

\* A person is told at once, save of one error of RF's edge.
OneShot(failure) ==
    mode \in {"person", "openJobs"} /\ failure \in {"badGateway", "transient"} /\ attempt < 2

ListRetries(failure) == mode = "cron" /\ failure = "badGateway" /\ attempt < 2

\* A step of a workflow, whose own retry of a 502 counts as one with it.
StepRetries == mode \in {"rebuild", "seed"} /\ attempt < 4

AsksAgain(failure) == BurstRetries(failure) \/ OneShot(failure) \/ ListRetries(failure) \/ StepRetries

\* Mutant: what cannot be had is taken for the end.
PageFails_Ends(failure) ==
    /\ Walks
    /\ IF AsksAgain(failure) THEN attempt' = attempt + 1 /\ UNCHANGED outcome
       ELSE outcome' = "done" /\ UNCHANGED attempt
    /\ UNCHANGED <<withheld, page, found, total>>

PageFails(failure) ==
    /\ Walks
    /\ IF AsksAgain(failure) THEN attempt' = attempt + 1 /\ UNCHANGED outcome
       ELSE outcome' = "failed" /\ UNCHANGED attempt
    /\ UNCHANGED <<withheld, page, found, total>>

\* Mutant: the walk is never called incomplete.
Truncated_Never == FALSE

\* The walk is called incomplete: RF counted more than it gave.
Truncated == total # NoTotal /\ Len(found) < total

PagedNext ==
    \/ \E p \in People : Appears(p)
    \/ \E i \in DOMAIN listing : Rises(i) \/ Leaves(i)
    \/ \E i \in Held :
         SearchPage(i) \/ OpenJobsPage(i) \/ CronPage(i) \/ RebuildPage(i) \/ SeedPage(i)
    \/ \E failure \in Failures : PageFails(failure)

PagedSpec == PagedInit /\ [][PagedNext]_pagedVars

-----------------------------------------------------------------------------
PagedTypeOK ==
    /\ ToSet(listing) \subseteq People /\ stayed \subseteq ToSet(listing) /\ risen \subseteq People
    /\ withheld \subseteq People /\ mode \in Modes /\ page \in Nat \ {0} /\ attempt \in 1 .. 4
    /\ ToSet(found) \subseteq People
    /\ counting \in BOOLEAN /\ total \in Nat \cup {NoTotal} /\ outcome \in {"walking", "done", "failed"}

(***************************************************************************)
(* A finished walk that is not called incomplete has given everyone listed *)
(* throughout, save those RF moved to the front behind its back or held    *)
(* back itself; unless somebody left the list and the rest closed up, RF   *)
(* never said how many there are and the cap cut a search, or a row held   *)
(* back made a page look like the last one.  The seed, which reads on to   *)
(* an empty page, is not deceived by such a row (rf-client.js:1619-1705,   *)
(* stage-stats.js:611-634, workflow.js:203-214).                           *)
(***************************************************************************)
WalkIsWhole ==
    outcome = "done" /\ ~Truncated /\ ~gone =>
        \/ stayed \ ToSet(found) \subseteq risen \cup withheld
        \/ mode \in Searches /\ ~counting /\ page = MaxPages
        \/ mode # "seed" /\ ~counting /\ withheld # {}

\* A list that does not change is given in its order and nobody twice
\* (rf-client.js:1698, rf-list-client.js:126).
StillListIsItself ==
    shifts = 0 =>
        \E i \in 0 .. Len(listing) :
            /\ withheld = (IF i = 0 THEN {} ELSE {listing[i]})
            /\ IsPrefix(found, IF i = 0 THEN listing ELSE RemoveAt(listing, i))
=============================================================================

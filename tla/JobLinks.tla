------------------------------ MODULE JobLinks ------------------------------
(***************************************************************************)
(* Candidates added to a job from the extension (handleAddToJobEndpoint,   *)
(* src/handlers/candidates.js), the consultant each link is attributed to, *)
(* cached in KV for 30 days, and the job's batch index, a list in KV.  The *)
(* candidates of one request are added all at once; others read the        *)
(* attribution meanwhile (resolveJobConsultantId, src/rf-client.js).       *)
(***************************************************************************)
EXTENDS Naturals, Sequences, FiniteSets

CONSTANTS
    Added,          \* candidates
    Requests,       \* requests to /add-to-job, all for one job
    Batch(_),       \* the candidates of a request
    By(_),          \* its consultant, or NoOne: none, or a name RF does not know
    Resolvers,      \* calls of resolveJobConsultantId
    MaxAddFaults, MaxExpiries   \* bounds

VARIABLES
    links,          \* the candidates RF has in the job
    consultant,     \* [Added -> field 16 of the link, or NoOne]
    attribution,    \* [Added -> what KV says of it, or Missing]
    index,          \* batch:job{id}
    items,          \* [Requests -> [Added -> the work on one candidate]]
    resolves,       \* [Resolvers -> the call, a record]
    addFaults, expiries,
    \* History, read by the properties only:
    suspect         \* candidates whose attribution two calls wrote at once, or a failed call left

linkVars == <<links, consultant, attribution, index, items, resolves, addFaults, expiries, suspect>>

NoOne == "no one"
Missing == "missing"
MaxAttempts == 3

ASSUME LinkConstants == NoOne \notin Added /\ \A r \in Requests : Batch(r) \subseteq Added

Untouched == [step |-> "idle", attempt |-> 1, list |-> <<>>]
Resting == [step |-> "idle", of |-> NoOne, value |-> NoOne]

LinksInit ==
    /\ links = {}
    /\ consultant = [c \in Added |-> NoOne] /\ attribution = [c \in Added |-> Missing]
    /\ index = <<>>
    /\ items = [r \in Requests |-> [c \in Added |-> Untouched]]
    /\ resolves = [v \in Resolvers |-> Resting]
    /\ addFaults = 0 /\ expiries = 0 /\ suspect = {}

\* Someone else is between RF and KV with this candidate's attribution.
InHand(r, c) ==
    \/ \E q \in Requests \ {r} : items[q][c].step = "cache"
    \/ \E v \in Resolvers : resolves[v].of = c

Goto(r, c, step) == items' = [items EXCEPT ![r][c].step = step]
Faults == addFaults < MaxAddFaults /\ addFaults' = addFaults + 1
Works == UNCHANGED addFaults

Request(r) ==
    /\ \A c \in Added : items[r][c] = Untouched
    /\ items' = [items EXCEPT ![r] = [c \in Added |->
                   IF c \in Batch(r) THEN [Untouched EXCEPT !.step = "add"] ELSE Untouched]]
    /\ UNCHANGED <<links, consultant, attribution, index, resolves, addFaults, expiries, suspect>>

\* "Already in the pipeline" is as good as added.  A 502, after which the
\* candidate may be in the job, is tried again; another error is not.
Add(r, c) ==
    /\ items[r][c].step = "add"
    /\ \/ /\ links' = links \cup {c}
          /\ Works
          /\ items' = [items EXCEPT ![r][c] =
                         [Untouched EXCEPT !.step = IF By(r) = NoOne THEN "read index" ELSE "set"]]
       \/ /\ Faults
          /\ links' \in {links, links \cup {c}}
          /\ \/ Goto(r, c, "error")
             \/ /\ items[r][c].attempt < MaxAttempts
                /\ items' = [items EXCEPT ![r][c].attempt = @ + 1]
    /\ UNCHANGED <<consultant, attribution, index, resolves, expiries, suspect>>

\* Who adds a candidate again takes over the attribution.
SetConsultant(r, c) ==
    /\ items[r][c].step = "set"
    /\ \/ /\ consultant' = [consultant EXCEPT ![c] = By(r)]
          /\ Goto(r, c, "cache") /\ Works
          /\ suspect' = IF InHand(r, c) THEN suspect \cup {c} ELSE suspect \ {c}
       \/ /\ Faults
          /\ consultant' \in {consultant, [consultant EXCEPT ![c] = By(r)]}
          /\ Goto(r, c, "read index")
          /\ suspect' = suspect \cup {c}
    /\ UNCHANGED <<links, attribution, index, resolves, expiries>>

\* Mutant: only what KV does not have yet is put.
CacheConsultant_IfMissing(r, c) ==
    /\ items[r][c].step = "cache"
    /\ attribution' = [attribution EXCEPT ![c] = IF @ = Missing THEN By(r) ELSE @]
    /\ Goto(r, c, "read index")
    /\ UNCHANGED <<links, consultant, index, resolves, addFaults, expiries, suspect>>

CacheConsultant(r, c) ==
    /\ items[r][c].step = "cache"
    /\ \/ /\ attribution' = [attribution EXCEPT ![c] = By(r)]
          /\ Works
          /\ UNCHANGED suspect
       \/ /\ Faults
          /\ suspect' = suspect \cup {c}
          /\ UNCHANGED attribution
    /\ Goto(r, c, "read index")
    /\ UNCHANGED <<links, consultant, index, resolves, expiries>>

ReadIndex(r, c) ==
    /\ items[r][c].step = "read index"
    /\ \/ /\ items' = [items EXCEPT ![r][c] =
                         [@ EXCEPT !.step = IF \E i \in DOMAIN index : index[i] = c
                                              THEN "added" ELSE "write index",
                                   !.list = index]]
          /\ Works
       \/ Faults /\ Goto(r, c, "unindexed")
    /\ UNCHANGED <<links, consultant, attribution, index, resolves, expiries, suspect>>

WriteIndex(r, c) ==
    /\ items[r][c].step = "write index"
    /\ \/ /\ index' = Append(items[r][c].list, c)
          /\ items' = [items EXCEPT ![r][c] = [Untouched EXCEPT !.step = "added"]]
          /\ Works
       \/ Faults /\ Goto(r, c, "unindexed") /\ UNCHANGED index
    /\ UNCHANGED <<links, consultant, attribution, resolves, expiries, suspect>>

-----------------------------------------------------------------------------
\* resolveJobConsultantId, for the jobs of a candidate whose details are shown.
\* What KV has is taken; only a miss goes to RF.

Miss(v, c) ==
    /\ resolves[v] = Resting /\ c \in links /\ attribution[c] = Missing
    /\ resolves' = [resolves EXCEPT ![v] = [Resting EXCEPT !.step = "read", !.of = c]]
    /\ UNCHANGED <<links, consultant, attribution, index, items, addFaults, expiries, suspect>>

\* A failed read counts as no match; nothing is cached.
ReadConsultant(v) ==
    LET c == resolves[v].of IN
    /\ resolves[v].step = "read"
    /\ \/ /\ resolves' = [resolves EXCEPT ![v].step = "cache", ![v].value = consultant[c]]
          /\ Works
       \/ /\ resolves' = [resolves EXCEPT ![v] = Resting]
          /\ Faults
    /\ UNCHANGED <<links, consultant, attribution, index, items, expiries, suspect>>

\* That RF has no consultant is cached too.
CacheResolved(v) ==
    LET c == resolves[v].of IN
    /\ resolves[v].step = "cache"
    /\ attribution' = [attribution EXCEPT ![c] = resolves[v].value]
    /\ resolves' = [resolves EXCEPT ![v] = Resting]
    /\ UNCHANGED <<links, consultant, index, items, addFaults, expiries, suspect>>

\* KV drops what is 30 days old.
Expires ==
    /\ expiries < MaxExpiries
    /\ expiries' = expiries + 1
    /\ \/ \E c \in Added : /\ attribution[c] # Missing
                           /\ attribution' = [attribution EXCEPT ![c] = Missing]
                           /\ UNCHANGED index
       \/ index' = <<>> /\ UNCHANGED attribution
    /\ UNCHANGED <<links, consultant, items, resolves, addFaults, suspect>>

LinksNext ==
    \/ \E r \in Requests :
         \/ Request(r)
         \/ \E c \in Batch(r) : \/ Add(r, c) \/ SetConsultant(r, c) \/ CacheConsultant(r, c)
                                \/ ReadIndex(r, c) \/ WriteIndex(r, c)
    \/ \E v \in Resolvers : ReadConsultant(v) \/ CacheResolved(v) \/ \E c \in Added : Miss(v, c)
    \/ Expires

LinksSpec == LinksInit /\ [][LinksNext]_linkVars

-----------------------------------------------------------------------------
LinksTypeOK ==
    /\ links \subseteq Added
    /\ \A r \in Requests, c \in Added :
         /\ items[r][c].attempt \in 1 .. MaxAttempts
         /\ items[r][c].step = "idle" \/ c \in Batch(r)
    /\ \A v \in Resolvers : resolves[v] = Resting \/ resolves[v].of \in links

(***************************************************************************)
(* What KV says of a link's consultant for 30 days is what RF says, unless *)
(* two calls had the link in hand at once or one of them failed half way;  *)
(* and one more add, by itself, puts that right (candidates.js:484-507,    *)
(* "re-add a candidate to a job to populate the cache").                   *)
(***************************************************************************)
AttributionAgrees ==
    \A c \in Added :
        c \notin suspect /\ (\A r \in Requests : items[r][c].step # "cache") =>
            attribution[c] \in {Missing, consultant[c]}
=============================================================================

------------------------------- MODULE CacheJobs -------------------------------
(***************************************************************************)
(* jobs_v2 and its two writers: tailSyncJobsThin, every quarter of an hour *)
(* (cache-worker/src/index.js), and the jobs seed an operator starts       *)
(* (cache-worker/src/workflow.js, runCacheSeed).  A row is written once,   *)
(* with its job's pipeline if that could be had: the tick asks for it only *)
(* when the table does not know the job.  The tick has a lease like the    *)
(* one of CacheCandidates: after a dead tick the next is only later.       *)
(***************************************************************************)
EXTENDS Naturals, FiniteSets

CONSTANTS
    Jobs,
    MalformedJobs,  \* jobs listed without a creation time
    MaxFailedJobs   \* bound on failed calls and dead writers

ASSUME JobConstants == MalformedJobs \subseteq Jobs /\ MaxFailedJobs \in Nat

VARIABLES
    listed,     \* SUBSET Jobs, what RF's /job/list returns
    rows,       \* [Jobs -> "absent", "bare" (no pipeline) or "full"]
    jobPc,      \* [Writers -> where it is]
    seen,       \* [Writers -> the jobs it was listed]
    wanted,     \* [Writers -> the jobs whose pipeline it still has to fetch]
    piped,      \* [Writers -> the jobs whose pipeline it has]
    failures,
    \* History, read by the properties only:
    denied      \* the jobs whose pipeline RF has once failed to give

jobVars == <<listed, rows, jobPc, seen, wanted, piped, failures, denied>>

Writers == {"tick", "seed"}

JobsInit ==
    /\ listed = {}
    /\ rows = [j \in Jobs |-> "absent"]
    /\ jobPc = [w \in Writers |-> "idle"]
    /\ seen = [w \in Writers |-> {}]
    /\ wanted = [w \in Writers |-> {}]
    /\ piped = [w \in Writers |-> {}]
    /\ failures = 0
    /\ denied = {}

Opens(j) ==
    /\ j \notin listed
    /\ listed' = listed \cup {j}
    /\ UNCHANGED <<rows, jobPc, seen, wanted, piped, failures, denied>>

Lists(w) ==
    /\ jobPc[w] = "idle"
    /\ seen' = [seen EXCEPT ![w] = listed]
    /\ jobPc' = [jobPc EXCEPT ![w] = "select"]
    /\ UNCHANGED <<listed, rows, wanted, piped, failures, denied>>

\* The tick wants the pipelines of the jobs it does not know, the seed all.
Selects(w) ==
    /\ jobPc[w] = "select"
    /\ wanted' = [wanted EXCEPT ![w] =
                    {j \in seen[w] : w = "tick" => rows[j] = "absent"}]
    /\ jobPc' = [jobPc EXCEPT ![w] = "fetch"]
    /\ UNCHANGED <<listed, rows, seen, piped, failures, denied>>

Fetches(w, j) ==
    /\ jobPc[w] = "fetch" /\ j \in wanted[w]
    /\ wanted' = [wanted EXCEPT ![w] = @ \ {j}]
    /\ piped' = [piped EXCEPT ![w] = @ \cup {j}]
    /\ UNCHANGED <<listed, rows, jobPc, seen, failures, denied>>

\* Logged and passed over.
FetchFails(w, j) ==
    /\ jobPc[w] = "fetch" /\ j \in wanted[w] /\ failures < MaxFailedJobs
    /\ wanted' = [wanted EXCEPT ![w] = @ \ {j}]
    /\ denied' = denied \cup {j}
    /\ failures' = failures + 1
    /\ UNCHANGED <<listed, rows, jobPc, seen, piped>>

Content(w, j) == IF j \in piped[w] THEN "full" ELSE "bare"

\* Mutant: the last write wins.
Inserted_OrReplace(w, j) == Content(w, j)

\* INSERT OR IGNORE
Inserted(w, j) == IF rows[j] = "absent" THEN Content(w, j) ELSE rows[j]

\* Mutant: a malformed row fails the batch.
JobsBuilt_AllOrNothing(js) == IF js \cap MalformedJobs = {} THEN js ELSE {}

\* buildRowsResilient
JobsBuilt(js) == js \ MalformedJobs

WritesJobs(w) ==
    /\ jobPc[w] = "fetch" /\ wanted[w] = {}
    /\ rows' = [j \in Jobs |-> IF j \in JobsBuilt(seen[w]) THEN Inserted(w, j) ELSE rows[j]]
    /\ jobPc' = [jobPc EXCEPT ![w] = "idle"]
    /\ seen' = [seen EXCEPT ![w] = {}]
    /\ piped' = [piped EXCEPT ![w] = {}]
    /\ UNCHANGED <<listed, wanted, failures, denied>>

\* A failed list or write, or the end of the isolate: some batches may be in.
Stops(w) ==
    /\ jobPc[w] # "idle" /\ failures < MaxFailedJobs
    /\ \E part \in {{}} \cup {js \in SUBSET JobsBuilt(seen[w]) : wanted[w] = {} /\ jobPc[w] = "fetch"} :
         rows' = [j \in Jobs |-> IF j \in part THEN Inserted(w, j) ELSE rows[j]]
    /\ jobPc' = [jobPc EXCEPT ![w] = "idle"]
    /\ seen' = [seen EXCEPT ![w] = {}]
    /\ wanted' = [wanted EXCEPT ![w] = {}]
    /\ piped' = [piped EXCEPT ![w] = {}]
    /\ failures' = failures + 1
    /\ UNCHANGED <<listed, denied>>

Step(w) == Lists(w) \/ Selects(w) \/ WritesJobs(w) \/ \E j \in Jobs : Fetches(w, j)

JobsNext ==
    \/ \E j \in Jobs : Opens(j)
    \/ \E w \in Writers : Step(w) \/ Stops(w) \/ \E j \in Jobs : FetchFails(w, j)

JobsSpec == JobsInit /\ [][JobsNext]_jobVars

\* Cron starts the tick again and again; nobody need ever start the seed.
JobsFairness == WF_jobVars(Step("tick"))

-----------------------------------------------------------------------------
JobsTypeOK ==
    /\ rows \in [Jobs -> {"absent", "bare", "full"}]
    /\ jobPc \in [Writers -> {"idle", "select", "fetch"}]
    /\ \A w \in Writers : seen[w] \subseteq listed /\ wanted[w] \cap piped[w] = {}
    /\ \A j \in MalformedJobs : rows[j] = "absent"
    /\ denied \subseteq listed /\ failures \in 0 .. MaxFailedJobs

(***************************************************************************)
(* A row is without its pipeline only if RF once failed to give it:        *)
(* neither the later ticks, which list the job again and do not ask for    *)
(* its pipeline, nor a seed racing a tick take it away.                    *)
(***************************************************************************)
BareMeansDenied == \A j \in Jobs : rows[j] = "bare" => j \in denied

(***************************************************************************)
(* Every well-formed job gets its row, whatever fails on the way           *)
(* (index.js:287-341, d1-write.js:219-232).                                *)
(***************************************************************************)
JobLands(j) == j \in listed ~> rows[j] # "absent"
JobsLand == \A j \in Jobs \ MalformedJobs : JobLands(j)
=============================================================================

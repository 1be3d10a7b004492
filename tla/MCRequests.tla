------------------------------- MODULE MCRequests -------------------------------
(***************************************************************************)
(* What the main worker does for the two systems' webhooks and for the     *)
(* browser extension.  As in MCRecords, the parts share no state and a    *)
(* behaviour runs one of them; two of them must come to an end.            *)
(***************************************************************************)
EXTENDS NeighborPrewarm, ContactSync, ExtensionCall, JobLinks, DetailsSnapshot, CallRate,
        StageMoves, NamedWrites, CandidateSearch

CONSTANT Parts      \* the parts checked

VARIABLE part

\* JobLinks
AllAdded(r) == Added
ConsultantOf(r) == CASE r = 1 -> "x" [] r = 2 -> "y" [] OTHER -> NoOne

\* StageMoves
\* assigned stands for what resolveJobConsultantId answers, which JobLinks models.
LinkConsultant(j) == CASE j = 1 -> "x" [] j = 2 -> "y"
AnsweredBy(c) == IF c = "cx" THEN "x" ELSE NoConsultant
FullPipeline(j) == {"Sourced", "Replied", "CallBooked", "Interview"}

\* CandidateSearch
ScoreOf(c) == IF c = 1 THEN 95 ELSE 85
SomeProfiles ==
    {m \in [Searched -> SUBSET Mutable] : m[1] \in {{}, m[3]} /\ m[3] = Mutable}

\* A part that has many initial states has one of them where it is not the one
\* that runs; the names have none then.
RequestsInit ==
    /\ part \in Parts
    /\ SyncInit /\ ExtensionInit /\ LinksInit /\ PrewarmInit /\ SnapshotInit /\ RateInit
    /\ assigned = [j \in CandidateJobs |-> LinkConsultant(j)]
    /\ IF part = "moves" THEN TRUE
       ELSE stage = [j \in CandidateJobs |-> "Sourced"] /\ latest = CHOOSE j \in CandidateJobs : TRUE
    /\ MovesInit
    \* One of the two jobs stands for both where one is that far.
    /\ stage[2] # "Interview"
    /\ IF part = "search" THEN TRUE
       ELSE meets = (CHOOSE m \in Profiles : TRUE) /\ hasField = TRUE
    /\ SearchInit
    \* The last in the order of the cache has not moved of late: two boosts are to be told apart.
    /\ IF part = "write" THEN WritesInit /\ boosts[3] = 0 /\ open = {} /\ exact = {}
       ELSE IF part = "names" THEN NamesInit
       ELSE /\ open = {} /\ exact = {}
            /\ meant = Nobody /\ scores = {} /\ boosts = {} /\ fits = {} /\ request = {}
            /\ step = "none" /\ fetched = {} /\ options = {} /\ failures = {} /\ written = Nobody

Others(p) ==
    /\ IF p = "sync" THEN TRUE ELSE UNCHANGED syncVars
    /\ IF p = "call" THEN TRUE ELSE UNCHANGED callVars
    /\ IF p = "link" THEN TRUE ELSE UNCHANGED linkVars
    /\ IF p = "prewarm" THEN TRUE ELSE UNCHANGED prewarmVars
    /\ IF p = "snapshot" THEN TRUE ELSE UNCHANGED snapshotVars
    /\ IF p = "rate" THEN TRUE ELSE UNCHANGED rateVars
    /\ IF p = "moves" THEN TRUE ELSE UNCHANGED moveVars
    /\ IF p \in {"write", "names"} THEN TRUE ELSE UNCHANGED nameVars
    /\ IF p = "search" THEN TRUE ELSE UNCHANGED searchVars

Does(p, A) == part = p /\ A /\ Others(p) /\ UNCHANGED part

\* Call requests are alike: they are used in the order of their numbers.
InTurn == \A q \in CallRequests : q > 1 /\ requests'[q] # Unused => requests'[q - 1] # Unused

RequestsNext ==
    \/ Does("sync", SyncNext)
    \/ Does("call", ExtensionNext)
    \/ Does("link", LinksNext)
    \/ Does("prewarm", PrewarmNext)
    \/ Does("snapshot", SnapshotNext)
    \/ Does("rate", RateNext /\ InTurn)
    \/ Does("moves", MovesNext)
    \/ Does("write", WritesNext /\ UNCHANGED <<open, exact>>)
    \/ Does("names", NamesNext)
    \/ Does("search", SearchNext)

requestsVars == <<part, syncVars, callVars, linkVars, prewarmVars, snapshotVars, rateVars,
                  moveVars, nameVars, searchVars>>

\* The runtime runs every webhook handler it was given, and the object's alarm.
RequestsSpec ==
    /\ RequestsInit /\ [][RequestsNext]_requestsVars
    /\ \A i \in 1 .. MaxInFlight :
         WF_requestsVars(Does("sync", \E h \in hooks : h.id = i /\ Handles(h)))
    /\ WF_requestsVars(Does("call", Elapses))
    /\ WF_requestsVars(Does("call", AlarmClears))

-----------------------------------------------------------------------------
\* The states of every part are well formed.
RequestTypesOK ==
    /\ SyncTypeOK /\ ExtensionTypeOK /\ LinksTypeOK /\ PrewarmTypeOK /\ SnapshotTypeOK
    /\ RateTypeOK /\ MovesTypeOK /\ SearchTypeOK
    /\ part = "write" => WritesTypeOK
    /\ part = "names" => NamesTypeOK

\* The two systems do not keep each other busy through the worker, and the record
\* of a call that no hangup clears is cleared by the alarm.
ComesToRest == EchoDies /\ RecordClears

\* The assistant writes to the candidate, and means the job, that the user means,
\* and what it is shown is what it asked for.
AssistantIsRight ==
    /\ part = "write" => WrittenIsMeant
    /\ part = "names" => ResolvedIsMeant /\ ClosedIsAsked
    /\ ShownIsAsked
=============================================================================

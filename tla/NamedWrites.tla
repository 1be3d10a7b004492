------------------------------ MODULE NamedWrites ------------------------------
(***************************************************************************)
(* A write of the assistant's that names its candidate (src/mcp): the name *)
(* is resolved against the cached rows and, where these do not decide,     *)
(* against what Recruiterflow says of the likeliest (resolvers.js,         *)
(* live-rerank.js); what is left is narrowed to the candidates that have   *)
(* the job and the stage, and a single one is written to without asking    *)
(* (candidate-move-stage.js, candidate-add-note.js,                        *)
(* candidate-log-interview.js).  A fetch that fails leaves its candidate   *)
(* out, or leaves it with what the cache says.  Then, in the same state,   *)
(* the names of jobs, stages and recruiters.  Scores are hundredths.       *)
(***************************************************************************)
EXTENDS Naturals, FiniteSets

CONSTANTS
    Known,          \* the candidates in the cache, 1, 2, ..., in its order
    NameScores,     \* of the name against a candidate's, those below FUZZY_THRESHOLD being 0
    Boosts,         \* stageRecencyBoost, at most 25
    UniqueGap, AutoFloor, TruncationRatio,      \* 8, 92, 85
    Fanout, WideCap, MaxOptions,                \* 5, 25, 5
    MaxFailed       \* bound on fetches that fail

\* No boost brings a name that does not match past one that does: 25 against 85% of
\* FUZZY_THRESHOLD, 35.
ASSUME NameConstants ==
    /\ Known \subseteq Nat \ {0} /\ IsFiniteSet(Known)
    /\ NameScores \cup Boosts \subseteq Nat
    /\ {UniqueGap, Fanout, MaxOptions} \subseteq Nat \ {0}
    /\ {AutoFloor, WideCap, MaxFailed} \subseteq Nat /\ TruncationRatio \in 0 .. 100
    /\ \A s \in NameScores \ {0}, b \in Boosts : 100 * b < TruncationRatio * s

VARIABLES
    meant,          \* the candidate that the user means
    scores,         \* [Known -> NameScores]
    boosts,         \* [Known -> Boosts], as of now in Recruiterflow
    fits,           \* [Known -> the (job, stage) pairs that suit the request]
    request,        \* one of WriteKinds
    step,
    fetched,        \* the candidates whose records the rerank has got
    options,        \* the candidates that are left
    failures,       \* the fetches that failed
    written         \* the candidate written to, or Nobody

writeVars == <<meant, scores, boosts, fits, request, step, fetched, options, failures, written>>

WriteKinds == {"move", "note", "note on a job", "interview", "interview on a job"}
OnAJob == {"note on a job", "interview on a job"}

Nobody == 0
\* What the resolver knows of a candidate after the rerank.
Live == [p \in Known |-> scores[p] + IF p \in fetched THEN boosts[p] ELSE 0]

Matches == {p \in Known : scores[p] > 0}

WritesInit ==
    /\ meant \in Known
    /\ scores \in [Known -> NameScores] /\ boosts \in [Known -> Boosts]
    /\ request \in WriteKinds
    /\ fits \in [Known -> CASE request = "move" -> 0 .. 2 [] request \in OnAJob -> 0 .. 1 [] OTHER -> {1}]
    /\ fits[meant] > 0
    /\ step = "name" /\ fetched = {} /\ options = {} /\ failures = {}
    /\ written = Nobody

-----------------------------------------------------------------------------
\* resolvers.js

\* The sorts are stable: those of equal scores stay in the order of their names'
\* scores, and of the cache.
Before(p, q, score) ==
    \/ score[p] > score[q]
    \/ score[p] = score[q] /\ (scores[p] > scores[q] \/ (scores[p] = scores[q] /\ p < q))

FirstOf(S, n, score) == {p \in S : Cardinality({q \in S : Before(q, p, score)}) < n}

\* pickWinner
Wins(p, S, score) == p \in S /\ \A q \in S \ {p} : score[p] >= score[q] + UniqueGap

TruncateLongTail(S, score) ==
    {p \in S : \A q \in S : 100 * score[p] >= TruncationRatio * score[q]}

Ambiguous(S, score) == FirstOf(TruncateLongTail(S, score), MaxOptions, score)

\* Mutant: five are looked at, whoever ties with the fifth.
WidenTiedPool_Five(S) == FirstOf(S, Fanout, scores)

\* All that tie with the fifth, up to a cap.
WidenTiedPool(S) ==
    LET first == FirstOf(S, Fanout, scores)
    IN  first \cup {p \in FirstOf(S, WideCap, scores) : \E q \in first : scores[p] = scores[q]}

Confident(p, S) == Wins(p, S, scores) /\ scores[p] >= AutoFloor

\* A single name needs no rerank; nor does no name at all.
ScoreNames ==
    /\ step = "name"
    /\ \/ Matches = {} /\ step' = "no candidate" /\ UNCHANGED options
       \/ \E p \in Known : Confident(p, Matches) /\ step' = "resolved" /\ options' = {p}
       \/ /\ Matches # {} /\ \A p \in Known : ~Confident(p, Matches)
          /\ step' = "rerank" /\ options' = WidenTiedPool(Matches)
    /\ UNCHANGED <<meant, scores, boosts, fits, request, fetched, failures, written>>

MayFail(S) == failures' = failures \cup S /\ Cardinality(failures') <= MaxFailed

\* liveRerankCandidates: a failure leaves the score as it was.
FetchPool(failed) ==
    /\ step = "rerank"
    /\ failed \subseteq options /\ MayFail(failed)
    /\ fetched' = options \ failed
    /\ step' = "decide"
    /\ UNCHANGED <<meant, scores, boosts, fits, request, options, written>>

Decide ==
    /\ step = "decide"
    /\ \/ \E p \in options : Wins(p, options, Live) /\ step' = "resolved" /\ options' = {p}
       \/ /\ \A p \in options : ~Wins(p, options, Live)
          /\ step' = "ambiguous" /\ options' = Ambiguous(options, Live)
    /\ UNCHANGED <<meant, scores, boosts, fits, request, fetched, failures, written>>

-----------------------------------------------------------------------------
\* The handlers

\* resolveCandidate fetches the winner's record, if the rerank has not; that it
\* fails is answered as such.  A note's resolver does not need the record.
HydrateResolved(failed) ==
    /\ step = "resolved" /\ request = "move"
    /\ failed \subseteq options \ fetched /\ MayFail(failed)
    /\ step' = IF failed = {} THEN "narrow" ELSE "unavailable"
    /\ UNCHANGED <<meant, scores, boosts, fits, request, fetched, options, written>>

\* Whose record cannot be had is left out.
Hydrated(failed) == options \ failed

Hydrate(failed) ==
    /\ failed \subseteq options /\ MayFail(failed)
    /\ options' = Hydrated(failed)
    /\ step' = "narrow"
    /\ UNCHANGED <<meant, scores, boosts, fits, request, fetched, written>>

\* The winner of a move has its record already.
HydrateOptions(failed) == step = "ambiguous" /\ request = "move" /\ Hydrate(failed)

\* A job narrows a note and an interview, the winner's too.
HydrateNoted(failed) == step \in {"resolved", "ambiguous"} /\ request = "note on a job" /\ Hydrate(failed)

HydrateInterviewed(failed) ==
    step \in {"resolved", "ambiguous"} /\ request = "interview on a job" /\ Hydrate(failed)

\* Without a job the names of the cache are enough.
WithoutRecords ==
    /\ step \in {"resolved", "ambiguous"}
    /\ step' = "narrow"
    /\ UNCHANGED <<meant, scores, boosts, fits, request, fetched, options, failures, written>>

TakeNoted == request = "note" /\ WithoutRecords
TakeInterviewed == request = "interview" /\ WithoutRecords

\* Those with a job that suits the request and, for a move, a stage of it.
Survivors == {p \in options : fits[p] > 0}

\* Mutant: the first candidate is moved, to the first of its pairs.
OneLeft_First(p) == p \in Survivors

\* A note and an interview count candidates, a move the pairs of each.
OneLeft(p) ==
    /\ Survivors = {p}
    /\ request = "move" => fits[p] = 1

Write ==
    /\ step = "narrow"
    /\ \E p \in options :
         /\ OneLeft(p)
         /\ \/ written' = p /\ step' = "written"
            \/ step' = "unavailable" /\ UNCHANGED written
    /\ UNCHANGED <<meant, scores, boosts, fits, request, fetched, options, failures>>

WriteMove == request = "move" /\ Write
WriteNote == request \in {"note", "note on a job"} /\ Write
WriteInterview == request \in {"interview", "interview on a job"} /\ Write

DoesNotWrite ==
    /\ step = "narrow" /\ \A p \in options : ~OneLeft(p)
    /\ step' = IF Survivors = {} THEN "no combination" ELSE "ask"
    /\ options' = Survivors
    /\ UNCHANGED <<meant, scores, boosts, fits, request, fetched, failures, written>>

\* The user picks from the options and the request comes again with the ids,
\* which are looked up in Recruiterflow once more.
Picks ==
    /\ step = "ask" /\ meant \in options
    /\ \/ written' = meant /\ step' = "written"
       \/ step' = "unavailable" /\ UNCHANGED written
    /\ UNCHANGED <<meant, scores, boosts, fits, request, fetched, options, failures>>

WritesNext ==
    \/ ScoreNames \/ Decide \/ TakeNoted \/ TakeInterviewed \/ DoesNotWrite \/ Picks
    \/ WriteMove \/ WriteNote \/ WriteInterview
    \/ \E failed \in SUBSET Known :
         \/ FetchPool(failed) \/ HydrateResolved(failed) \/ HydrateOptions(failed)
         \/ HydrateNoted(failed) \/ HydrateInterviewed(failed)

WritesSpec == WritesInit /\ [][WritesNext]_writeVars

-----------------------------------------------------------------------------
WritesTypeOK ==
    /\ options \subseteq Known /\ fetched \cup failures \subseteq Known
    /\ written \in Known \cup {Nobody} /\ (written # Nobody <=> step = "written")
    /\ step \in {"ambiguous", "ask"} => options # {}

\* What the rerank would make of a candidate, were it reranked.
Due == [p \in Known |-> scores[p] + IF p \in failures \ fetched THEN 0 ELSE boosts[p]]
Likelier(p, q, score) == score[p] >= score[q] + UniqueGap

\* TRUNCATION_RATIO below the likeliest: where that one is itself unlikely,
\* this is less than UNIQUE_GAP.
LongTail(p) == \E q \in Known : 100 * Due[p] < TruncationRatio * Due[q]

\* As many as Fanout others are likelier by name, or more tie than are looked at.
Outside(p) ==
    \/ Cardinality({q \in Known : scores[q] > scores[p]}) >= Fanout
    \/ Cardinality({q \in Known \ {p} : scores[q] >= scores[p]}) >= WideCap
Outranked(p) == Cardinality({q \in Known \ {p} : Due[q] >= Due[p]}) >= MaxOptions

(***************************************************************************)
(* Another candidate than the one that is meant is written to only where   *)
(* that one was likelier by UNIQUE_GAP, by a name that is all but exact or *)
(* after the rerank, where a fetch of the one that is meant failed, or     *)
(* where the one that is meant was not among the likeliest; and because the*)
(* cache lists one before the other only where more tie by name than are   *)
(* looked at (resolvers.js:97-157, candidate-move-stage.js:224-250,        *)
(* candidate-add-note.js:140-180).                                         *)
(***************************************************************************)
WrittenIsMeant ==
    written \notin {Nobody, meant} =>
        \/ Likelier(written, meant, scores) /\ scores[written] >= AutoFloor
        \/ Likelier(written, meant, Due)
        \/ meant \in failures
        \/ LongTail(meant) \/ Outside(meant) \/ Outranked(meant)

-----------------------------------------------------------------------------
(***************************************************************************)
(* The assistant's other names: a job's, among all jobs or among the       *)
(* candidate's own, a stage's and a recruiter's, in the place of the       *)
(* candidates.  A job of the cache that the name does not decide is looked *)
(* up in Recruiterflow, for the cache does not know which are open.        *)
(***************************************************************************)

VARIABLES
    open,       \* [Known -> what RF says of the job: "yes", "no", or "unsaid"]
    exact       \* the stages named exactly so, and the users whose first name it is

nameVars == <<writeVars, open, exact>>

Jobs == {"a job", "an open job"}    \* include_closed, or not

NamesInit ==
    /\ meant \in Known /\ scores \in [Known -> NameScores]
    /\ request \in Jobs \cup {"one of the candidate's jobs", "a stage or an owner"}
    /\ open \in IF request \in Jobs THEN [Known -> {"yes", "no", "unsaid"}] ELSE {[j \in Known |-> "yes"]}
    /\ exact \in IF request = "a stage or an owner" THEN SUBSET Matches ELSE {{}}
    /\ boosts = [j \in Known |-> 0] /\ fits = [j \in Known |-> 1]
    /\ step = "name" /\ fetched = {} /\ options = {} /\ failures = {}
    /\ written = Nobody

-----------------------------------------------------------------------------
Settles(verdict, S) ==
    /\ step' = verdict /\ options' = S
    /\ UNCHANGED <<meant, scores, boosts, fits, request, fetched, failures, written, open, exact>>

\* pickWinner
Picked(S) ==
    \/ S = {} /\ Settles("no match", {})
    \/ \E j \in S : Wins(j, S, scores) /\ Settles("resolved", {j})
    \/ S # {} /\ (\A j \in S : ~Wins(j, S, scores)) /\ Settles("ambiguous", Ambiguous(S, scores))

\* An exact name wins outright, the first of two.
TakesExact ==
    /\ step = "name"
    /\ \E j \in exact : (\A o \in exact : j <= o) /\ Settles("resolved", {j})

\* Names that are decided among the candidate's jobs, the stages or the users.
ScoresFew == step = "name" /\ exact = {} /\ request \notin Jobs /\ Picked(Matches)

\* No widening here: of the jobs that tie with the fifth the cache's order decides.
ScoresJobs ==
    /\ step = "name" /\ request \in Jobs
    /\ \/ Matches = {} /\ Settles("no match", {})
       \/ \E j \in Known : Confident(j, Matches) /\ Settles("resolved", {j})
       \/ /\ Matches # {} /\ \A j \in Known : ~Confident(j, Matches)
          /\ Settles("rerank", FirstOf(Matches, Fanout, scores))

\* Mutant: a job that RF does not answer for is left out.
Stays_Answered(j, failed) == j \notin failed /\ (request = "a job" \/ open[j] # "no")

\* A job stays that RF does not answer for, or does not say is closed.
Stays(j, failed) == j \in failed \/ request = "a job" \/ open[j] # "no"

\* liveRerankJobs
LooksUp(failed) ==
    /\ step = "rerank"
    /\ failed \subseteq options /\ MayFail(failed)
    /\ options' = {j \in options : Stays(j, failed)}
    /\ step' = "pick"
    /\ UNCHANGED <<meant, scores, boosts, fits, request, fetched, written, open, exact>>

Picks2 == step = "pick" /\ Picked(options)

NamesNext ==
    \/ TakesExact \/ ScoresFew \/ ScoresJobs \/ Picks2
    \/ \E failed \in SUBSET Known : LooksUp(failed)

NamesSpec == NamesInit /\ [][NamesNext]_nameVars

-----------------------------------------------------------------------------
NamesTypeOK ==
    /\ options \subseteq Known /\ exact \subseteq Known
    /\ step \in {"name", "rerank", "pick", "resolved", "ambiguous", "no match"}
    /\ step = "resolved" => Cardinality(options) = 1

Resolved(j) == step = "resolved" /\ options = {j}

\* With as many others as likely, the job may not have been looked up.
Crowded(j) == Cardinality({o \in Known \ {j} : scores[o] >= scores[j]}) >= Fanout

(***************************************************************************)
(* What a name is resolved to is what is meant, unless the name is likelier*)
(* another's by UNIQUE_GAP, or exactly another's, or does not match; or    *)
(* the job that is meant is closed, or one of more ties than are looked up *)
(* (resolvers.js:355-487).                                                 *)
(***************************************************************************)
ResolvedIsMeant ==
    \A j \in Known \ {meant} : Resolved(j) =>
        \/ j \in exact \/ scores[meant] = 0 \/ Likelier(j, meant, scores)
        \/ request = "an open job" /\ open[meant] = "no"
        \/ request \in Jobs /\ Crowded(meant)

(***************************************************************************)
(* A closed job is resolved only where it was asked for, RF did not answer,*)
(* or the name alone decided (live-rerank.js:118-167).                     *)
(***************************************************************************)
ClosedIsAsked ==
    \A j \in Known : Resolved(j) /\ open[j] = "no" /\ request = "an open job" =>
        j \in failures \/ Confident(j, Matches)
=============================================================================

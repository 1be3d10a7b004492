------------------------------ MODULE StageBackfill ------------------------------
(***************************************************************************)
(* The operator's backfill of a past window of the stage log               *)
(* (src/stage-stats.js, handleBackfillRoute): batch after batch, each with *)
(* a search of its own, in the order of the candidates' ids and past the   *)
(* cursor that the last batch returned.                                    *)
(***************************************************************************)
EXTENDS Naturals, FiniteSets, FiniteSetsExt

CONSTANTS
    Ids,            \* candidate ids, positive integers
    BatchSize,      \* 1 .. MAX_BATCH_SIZE
    PageCap         \* how many candidates a search returns at most

ASSUME BackfillConstants ==
    /\ Ids \subseteq Nat \ {0} /\ IsFiniteSet(Ids)
    /\ {BatchSize, PageCap} \subseteq Nat \ {0}

VARIABLES
    active,     \* the candidates that RF lists as active since the window's start
    crossed,    \* those with moves inside the window
    held,       \* those whose moves the log has
    batch,      \* the batch under way, as a set of ids; what is left of it
    walk        \* the answers to the operator: the cursor, whether this batch is the last, and
                \* whether one was and whether any batch reported a failure or a cut search

backfillVars == <<active, crossed, held, batch, walk>>

\* The window is past: who moved in it is settled, and has been active since.
BackfillInit ==
    /\ active \in SUBSET Ids
    /\ crossed \in SUBSET active
    /\ held = {} /\ batch = {}
    /\ walk = [cursor |-> 0, asked |-> FALSE, last |-> FALSE, done |-> FALSE, doubt |-> FALSE]

Smallest(ids, n) == {i \in ids : Cardinality({j \in ids : j <= i}) <= n}

\* Mutant: the batch is taken in the search's order.
NextBatch_Unsorted(rest) == {b \in SUBSET rest : Cardinality(b) = Min({BatchSize, Cardinality(rest)})}

NextBatch(rest) == {Smallest(rest, BatchSize)}

\* The operator asks, with the cursor that he was given.  A search beyond the
\* page cap is cut, and the answer says so.  What one search gives when RF's list
\* moves between its pages is PagedSearch's matter.
Asks ==
    /\ ~walk.asked /\ ~walk.done
    /\ \E found \in SUBSET active :
         LET rest == {i \in found : i > walk.cursor}
         IN  /\ Cardinality(found) = Min({PageCap, Cardinality(active)})
             /\ \E b \in NextBatch(rest) :
                  /\ batch' = b
                  /\ walk' = [walk EXCEPT !.asked = TRUE, !.last = (Cardinality(b) = Cardinality(rest)),
                                !.cursor = IF b = {} THEN @ ELSE Max(b),
                                !.doubt = @ \/ found # active]
    /\ UNCHANGED <<active, crossed, held>>

\* ingestCandidate, which may fail: counted, and the batch goes on.
Ingests(i) ==
    /\ i \in batch
    /\ batch' = batch \ {i}
    /\ \/ held' = held \cup {i} /\ UNCHANGED walk
       \/ walk' = [walk EXCEPT !.doubt = TRUE] /\ UNCHANGED held
    /\ UNCHANGED <<active, crossed>>

Answers ==
    /\ walk.asked /\ batch = {}
    /\ walk' = [walk EXCEPT !.asked = FALSE, !.done = walk.last]
    /\ UNCHANGED <<active, crossed, held, batch>>

\* Someone not active before does something.
BecomesActive(i) == i \notin active /\ active' = active \cup {i} /\ UNCHANGED <<crossed, held, batch, walk>>

BackfillNext ==
    \/ Asks \/ Answers
    \/ \E i \in Ids : Ingests(i) \/ BecomesActive(i)

BackfillSpec == BackfillInit /\ [][BackfillNext]_backfillVars

-----------------------------------------------------------------------------
BackfillTypeOK ==
    /\ crossed \subseteq active /\ active \subseteq Ids
    /\ held \subseteq active /\ batch \subseteq active
    /\ walk.cursor \in {0} \cup Ids

(***************************************************************************)
(* When the backfill says that it is done, and no batch of it reported a   *)
(* failure or a cut search, the log holds every move of the window, also   *)
(* if candidates became active meanwhile (stage-stats.js:1191-1197).       *)
(***************************************************************************)
DoneIsComplete == walk.done /\ ~walk.doubt => crossed \subseteq held
=============================================================================

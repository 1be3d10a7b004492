---------------------------- MODULE CandidateSearch ----------------------------
(***************************************************************************)
(* The assistant's candidate search (src/mcp/candidate-search.js): names   *)
(* are looked up in a snapshot of candidates_v2 that an isolate keeps as   *)
(* long as the cron's cursor stands still (snapshot.js), what the cache    *)
(* cannot know is asked of Recruiterflow, and a filter that could not be   *)
(* applied is owned up to by a warning.  The cursor is a count of its      *)
(* moves; a read of D1 may be served by a replica that lags.              *)
(***************************************************************************)
EXTENDS Naturals, FiniteSets, Sequences

CONSTANTS
    Searched,       \* the candidates of Recruiterflow
    InitialRows,    \* those that are in the cache from the start
    Linked,         \* those with the LinkedIn profile that may be asked for
    NameScore(_),   \* of the query against a candidate's name; 0 below FUZZY_THRESHOLD
    Boost,          \* of a candidate that moved stage of late
    Limit,          \* of the matches shown
    PoolLimit,      \* TIER1_FUZZY_LIMIT
    PoolCap,        \* PHASE1_WIDE_CAP
    Profiles,       \* what meets may be: the filters of RF's that hold of each candidate
    MaxLog          \* bound on the commits to the database

VARIABLES
    meets,          \* one of Profiles
    hasField,       \* whether the account has the custom field
    d1,             \* the commits: the rows and the cursor after each
    held,           \* the isolate's snapshot, a set of one or none
    search          \* the search that runs

searchVars == <<meets, hasField, d1, held, search>>

Mutable == {"owner", "technology"}
Filters == Mutable \cup {"linkedin"}
Warnings == {"none", "filter_unverified", "custom_field_map_unavailable"}

ASSUME SearchConstants ==
    /\ IsFiniteSet(Searched) /\ InitialRows \subseteq Searched
    /\ Profiles \subseteq [Searched -> SUBSET Mutable]
    /\ {Limit, PoolLimit, PoolCap} \subseteq Nat

NoSearch == [step |-> "none"]
Asked(query, filters) ==
    [step |-> "fields", query |-> query, filters |-> filters, applied |-> filters,
     warning |-> "none", at |-> 0, rows |-> {}, shown |-> {}]

SearchInit ==
    /\ meets \in Profiles /\ hasField \in BOOLEAN
    /\ d1 = <<[rows |-> InitialRows, cursor |-> 0]>>
    /\ held = {} /\ search = NoSearch

LastCommit == d1[Len(d1)]

\* Rows are committed before the cursor that passes them, and a row that RF
\* lists late moves no cursor.
WriteRow(c) ==
    /\ Len(d1) < MaxLog /\ c \notin LastCommit.rows
    /\ d1' = Append(d1, [LastCommit EXCEPT !.rows = @ \cup {c}])
    /\ UNCHANGED <<meets, hasField, held, search>>

MoveCursor ==
    /\ Len(d1) > 1 /\ Len(d1) < MaxLog
    /\ d1[Len(d1) - 1].cursor = LastCommit.cursor
    /\ d1' = Append(d1, [LastCommit EXCEPT !.cursor = @ + 1])
    /\ UNCHANGED <<meets, hasField, held, search>>

\* Mutant: the cursor is read once more when the rows are there.
Snapshot_Latest(i, j) == [rows |-> d1[j].rows, cursor |-> LastCommit.cursor]

\* The cursor is read before the rows, in one session.
Snapshot(i, j) == [rows |-> d1[j].rows, cursor |-> d1[i].cursor]

\* Another request of the isolate, which may have read a good while ago.
OtherLoads(i, j) ==
    /\ held' = {Snapshot(i, j)}
    /\ UNCHANGED <<meets, hasField, d1, search>>

-----------------------------------------------------------------------------
Ask(query, filters) ==
    /\ search.step \in {"none", "answered"} /\ (query \/ filters # {})
    /\ search' = Asked(query, filters)
    /\ UNCHANGED <<meets, hasField, d1, held>>

At(step) == search.step = step /\ UNCHANGED <<meets, hasField, d1>>
Goes(changed) == search' = changed /\ UNCHANGED held

NeedsRF(applied) == applied \cap Mutable # {}

\* Where a search goes whose filters are settled.
Routed(s) ==
    [s EXCEPT !.step = IF s.query \/ (~NeedsRF(s.applied) /\ s.applied # {}) THEN "snapshot"
                       ELSE IF NeedsRF(s.applied) THEN "rf" ELSE "refused"]

NoField == At("fields") /\ "technology" \notin search.filters /\ Goes(Routed(search))

\* The map of custom fields, from RF or of the last five minutes: a field that
\* the account lacks is skipped.
FieldFound ==
    /\ At("fields") /\ "technology" \in search.filters
    /\ Goes(Routed([search EXCEPT !.applied = IF hasField THEN @ ELSE @ \ {"technology"}]))

\* Which of the field's options is meant is asked back.
FieldAmbiguous ==
    /\ At("fields") /\ "technology" \in search.filters /\ hasField
    /\ Goes([search EXCEPT !.step = "refused"])

FieldsUnavailable ==
    /\ At("fields") /\ "technology" \in search.filters
    /\ Goes(Routed([search EXCEPT !.applied = @ \ {"technology"},
                                  !.warning = "custom_field_map_unavailable"]))

RateLimited ==
    /\ \/ At("fields") /\ "technology" \in search.filters
       \/ At("rf")
    /\ Goes([search EXCEPT !.step = "refused"])

\* getSnapshot: what is held will do if the cursor has not moved.
ReadCursor(i) ==
    /\ At("snapshot")
    /\ \/ \E h \in held : /\ h.cursor = d1[i].cursor
                          /\ Goes([search EXCEPT !.at = i, !.step = "scan", !.rows = h.rows])
       \/ /\ \A h \in held : h.cursor # d1[i].cursor
          /\ Goes([search EXCEPT !.at = i, !.step = "load"])

LoadRows(j) ==
    /\ At("load") /\ j >= search.at
    /\ held' = {Snapshot(search.at, j)}
    /\ search' = [search EXCEPT !.step = "scan", !.rows = d1[j].rows]

ByName == [c \in Searched |-> NameScore(c)]

\* The sets of the first n by a score, those that tie in any order.
Tops(S, n, score) ==
    {T \in SUBSET S : /\ Cardinality(T) = IF Cardinality(S) < n THEN Cardinality(S) ELSE n
                      /\ \A c \in T, d \in S \ T : score[c] >= score[d]}

\* widenTiedPool: those that tie with the last, up to the cap.
Widened(S, T) ==
    {W \in SUBSET S :
        LET tied == {d \in S \ T : \E c \in T : NameScore(c) <= NameScore(d)}
            room == IF PoolCap > Cardinality(T) THEN PoolCap - Cardinality(T) ELSE 0
        IN  /\ T \subseteq W /\ W \ T \subseteq tied
            /\ Cardinality(W \ T) = IF Cardinality(tied) < room THEN Cardinality(tied) ELSE room}

Answer(s, shown) == [s EXCEPT !.step = "answered", !.rows = {}, !.shown = shown]

Scanned ==
    {c \in search.rows :
        (search.query => NameScore(c) > 0) /\ ("linkedin" \in search.applied => c \in Linked)}

Pools(n) == UNION {Widened(Scanned, T) : T \in Tops(Scanned, n, ByName)}

\* No filter for RF: the best names, once RF has said who moved of late.
ScanNames(warm) ==
    /\ At("scan") /\ search.query /\ ~NeedsRF(search.applied)
    /\ \E pool \in Pools(Limit) :
         \E shown \in Tops(pool, Limit, [c \in pool |-> ByName[c] + IF c \in warm THEN Boost ELSE 0]) :
            Goes(Answer(search, shown))

\* No query either: the latest, in the order of their numbers.
ScanFilters ==
    /\ At("scan") /\ ~search.query
    /\ \E shown \in Tops(Scanned, Limit, [c \in Searched |-> c]) : Goes(Answer(search, shown))

\* The ids of the names go to RF with the filters, unless there are none.
ScanForRF ==
    /\ At("scan") /\ search.query /\ NeedsRF(search.applied)
    /\ \E pool \in Pools(PoolLimit) :
         Goes(IF pool = {} THEN Answer(search, {}) ELSE [search EXCEPT !.step = "rf", !.shown = pool])

Holds(c, filters) == filters \cap Mutable \subseteq meets[c] /\ ("linkedin" \in filters => c \in Linked)

FromRF ==
    /\ At("rf")
    /\ LET ids == IF search.query THEN search.shown ELSE Searched
           found == {c \in ids : Holds(c, search.applied)}
       IN  \E shown \in Tops(found, Limit, [c \in found |-> IF search.query THEN ByName[c] ELSE 0]) :
              Goes(Answer(search, shown))

\* Mutant: the names are shown as if they had passed the filters.
Unverified_Silent(s) == s
Unverified(s) == [s EXCEPT !.warning = "filter_unverified"]

\* RF fails: the names are shown as they are, or nobody without a query.
RFFails ==
    /\ At("rf")
    /\ \E shown \in Tops(search.shown, Limit, ByName) : Goes(Answer(Unverified(search), shown))

SearchNext ==
    \/ \E c \in Searched : WriteRow(c)
    \/ MoveCursor
    \/ \E i \in DOMAIN d1 : \E j \in i .. Len(d1) : OtherLoads(i, j)
    \/ \E query \in BOOLEAN, filters \in SUBSET Filters : Ask(query, filters)
    \/ NoField \/ FieldFound \/ FieldAmbiguous \/ FieldsUnavailable \/ RateLimited
    \/ \E i \in DOMAIN d1 : ReadCursor(i) \/ LoadRows(i)
    \/ \E warm \in SUBSET Searched : ScanNames(warm)
    \/ ScanFilters \/ ScanForRF \/ FromRF \/ RFFails

SearchSpec == SearchInit /\ [][SearchNext]_searchVars

-----------------------------------------------------------------------------
\* The state is well formed.
SearchTypeOK ==
    /\ meets \in [Searched -> SUBSET Mutable] /\ hasField \in BOOLEAN
    /\ \A i \in DOMAIN d1 : d1[i].rows \subseteq Searched
    /\ Cardinality(held) <= 1
    /\ search # NoSearch => /\ search.applied \subseteq search.filters /\ search.filters \subseteq Filters
                        /\ search.warning \in Warnings /\ search.shown \cup search.rows \subseteq Searched
                        /\ search.at \in 0 .. Len(d1)

\* The rows that a move of the cursor has passed.
Passed(cursor) == d1[CHOOSE i \in DOMAIN d1 : /\ d1[i].cursor = cursor
                                              /\ \A k \in 1 .. i - 1 : d1[k].cursor # cursor].rows

\* The filters that a warning leaves in force; a field the account lacks is none.
InForce(s) ==
    (CASE s.warning = "none" -> s.filters
       [] s.warning = "filter_unverified" -> s.filters \ Mutable
       [] OTHER -> s.filters \ {"technology"}) \ (IF hasField THEN {} ELSE {"technology"})

(***************************************************************************)
(* Whom a search shows meets what was asked, up to what the warning says;  *)
(* and whom it leaves out although the cursor that it read has passed      *)
(* them, and although they meet all that was asked, it leaves out because  *)
(* it shows its limit of others or because the names that match are more   *)
(* than the pool holds.  candidate-search.js:14-32, snapshot.js:12-16 and  *)
(* custom-fields.js:14-18 say as much; a row that no move of the cursor    *)
(* has passed may be missing for as long as the cursor stands still.       *)
(***************************************************************************)
ShownIsAsked ==
    search.step = "answered" =>
        LET known == IF search.at = 0 THEN Searched ELSE Passed(d1[search.at].cursor)
            fit == {c \in known : (search.query => NameScore(c) > 0) /\ Holds(c, InForce(search))}
        IN  /\ \A c \in search.shown : Holds(c, InForce(search)) /\ (search.query => NameScore(c) > 0)
            /\ \/ fit \subseteq search.shown \/ Cardinality(search.shown) = Limit
               \/ search.warning = "filter_unverified" /\ ~search.query
               \/ Cardinality({c \in Searched : NameScore(c) > 0}) > PoolLimit /\ NeedsRF(search.applied)
=============================================================================

---------------------------- MODULE ScheduledProofs ----------------------------
(***************************************************************************)
(* What the scheduled subtasks promise, proved of each of them for every   *)
(* value of its constants, and lifted to the subtasks together.            *)
(*                                                                         *)
(*   CursorPassesNothing   the candidates sync (CacheCandidates)           *)
(*   BareRowsWereDenied    the jobs sync and the seed (CacheJobs)          *)
(*   OutagesLeaveBehind    the calls sync and the webhook (CacheCalls)     *)
(*   ScheduledHold         all of that, where they run side by side        *)
(***************************************************************************)
EXTENDS MCScheduled, WellFoundedInduction, TLAPS

-----------------------------------------------------------------------------
(* THE CANDIDATES.  A search is answered oldest first.  So what it leaves  *)
(* out, by the cap or because the index does not show it yet, was added no *)
(* earlier than anything on the page, and the cursor, which moves to a row *)
(* of the page, cannot pass it.  What it passes was on the page, and the   *)
(* cursor moves only after the page is written.                            *)

SearchShape ==
    /\ now \in 0 .. MaxTime
    /\ added \in [Candidates -> {NotYet} \cup 0 .. MaxTime]
    /\ \A c \in Candidates : added[c] <= now
    /\ shown \in 0 .. now /\ cursor \in 0 .. now
    /\ page \subseteq InRF

\* Whatever the page lacks, from the cursor's day on, is no older than the page.
OldestFirst ==
    pc \in {"write", "advance"} =>
        \A d \in page, c \in InRF \ page : Day(cursor) <= Day(added[c]) => added[d] <= added[c]

Written == pc = "advance" => \A c \in page : Settled(c)

SearchInv == SearchShape /\ OldestFirst /\ Written /\ NothingBehindCursor

-----------------------------------------------------------------------------
(* Days come in the order of their times. *)
LEMMA DayMonotone == ASSUME NEW s \in Nat, NEW t \in Nat, s <= t PROVE Day(s) <= Day(t)
<1> DEFINE p == s \div DayLength
           q == t \div DayLength
<1>1. DayLength \in Nat \ {0}
  BY CacheConstants
<1>2. p \in Int /\ q \in Int /\ DayLength * p <= s /\ t < DayLength * (q + 1)
  BY <1>1
<1>3. ASSUME q < p PROVE FALSE
  <2>1. DayLength * (q + 1) <= DayLength * p
    BY <1>1, <1>2, <1>3
  <2> QED BY <1>1, <1>2, <2>1
<1> QED BY <1>2, <1>3 DEF Day

(* A set of naturals has a first. *)
LEMMA FirstExists ==
  ASSUME NEW S, S \subseteq Nat, S # {}
  PROVE  \E x \in S : \A y \in S : x <= y
<1>1. \E x \in S : \A y \in S : ~(<<y, x>> \in OpToRel(<, Nat))
  BY NatLessThanWellFounded, WFMin
<1>2. \A x, y \in Nat : x < y => <<x, y>> \in OpToRel(<, Nat)
  BY DEF OpToRel
<1>3. \A x, y \in S : x \in Nat /\ y \in Nat /\ (~(y < x) => x <= y)
  OBVIOUS
<1> QED BY <1>1, <1>2, <1>3

(* A set of times has a last one, and a first one. *)
LEMMA TimesHaveEnds ==
  ASSUME NEW last \in Nat, NEW S \in SUBSET (0 .. last), S # {}
  PROVE  Max(S) \in S /\ Min(S) \in S
<1>1. \E x \in S : \A y \in S : x <= y
  <2>1. S \subseteq Nat
    OBVIOUS
  <2> QED BY <2>1, FirstExists
<1>2. \E x \in S : \A y \in S : x >= y
  <2> DEFINE T == {t \in 0 .. last : last - t \in S}
  <2>1. PICK s \in S : TRUE
    OBVIOUS
  <2>2. s \in Int /\ 0 <= s /\ s <= last
    OBVIOUS
  <2>3. last - s \in 0 .. last /\ last - (last - s) = s
    BY <2>2
  <2>4. T \subseteq Nat /\ T # {}
    <3>1. last - s \in T
      BY <2>3
    <3> QED BY <3>1
  <2> HIDE DEF T
  <2>5. PICK t \in T : \A u \in T : t <= u
    BY <2>4, FirstExists
  <2>6. last - t \in S /\ t \in Nat
    BY <2>5 DEF T
  <2>7. ASSUME NEW y \in S PROVE last - t >= y
    <3>1. y \in Int /\ 0 <= y /\ y <= last
      OBVIOUS
    <3>2. last - y \in 0 .. last /\ last - (last - y) = y
      BY <3>1
    <3>3. last - y \in T
      BY <3>2 DEF T
    <3> QED BY <2>5, <2>6, <3>1, <3>3
  <2> QED BY <2>6, <2>7
<1>3. Max(S) \in S
  BY <1>2 DEF Max
<1>4. Min(S) \in S
  BY <1>1 DEF Min
<1> QED BY <1>3, <1>4

(* The cursor stays, or moves to the time of a row it has fetched. *)
LEMMA CursorMoves ==
  ASSUME SearchShape
  PROVE  /\ cursor <= Advanced(page)
         /\ Advanced(page) = cursor \/ \E d \in page : Advanced(page) = added[d]
<1>1. Times(page) \subseteq 0 .. MaxTime
  BY DEF SearchShape, Times, InRF, NotYet
<1>2. CASE Times(page) = {}
  BY <1>2, CacheConstants DEF Advanced, SearchShape
<1>3. CASE Times(page) # {}
  <2> DEFINE next == IF Cardinality(page) >= Cap THEN Min(Times(page)) ELSE Max(Times(page))
             both == {cursor, next}
  <2>1. next \in Times(page)
    BY <1>1, <1>3, TimesHaveEnds, CacheConstants
  <2>2. Advanced(page) = Max(both)
    BY <1>3 DEF Advanced
  <2>3. cursor \in Int /\ next \in Int
    BY <1>1, <2>1, CacheConstants DEF SearchShape
  <2>4. \E x \in both : \A y \in both : x >= y
    BY <2>3
  <2>5. Max(both) \in both /\ \A y \in both : Max(both) >= y
    BY <2>4 DEF Max
  <2>6. PICK d \in page : next = added[d]
    BY <2>1 DEF Times
  <2> QED BY <2>2, <2>3, <2>5, <2>6
<1> QED BY <1>2, <1>3

(* What is settled stays so while the table grows. *)
LEMMA SettledStays ==
  ASSUME table \subseteq table', NEW c, Settled(c)
  PROVE  Settled(c)'
  BY DEF Settled, Taken

LEMMA InitSearchInv == Init => SearchInv
<1> SUFFICES ASSUME Init PROVE SearchInv
  OBVIOUS
<1>1. InRF = {}
  BY DEF Init, InRF
<1>2. MaxTime \in Nat
  BY CacheConstants
<1> QED BY <1>1, <1>2 DEF Init, SearchInv, SearchShape, OldestFirst, Written, NothingBehindCursor, NotYet

-----------------------------------------------------------------------------
(* A new candidate is younger than all that has been fetched. *)
LEMMA AddKeeps == ASSUME SearchInv, NEW c \in Candidates, Add(c) PROVE SearchInv'
<1> USE DEF SearchInv, SearchShape, Add
<1>0. MaxTime \in Nat /\ now \in Nat
  BY CacheConstants
<1>1. /\ added' = [added EXCEPT ![c] = now] /\ InRF' = InRF \cup {c}
      /\ \A d \in InRF : added'[d] = added[d]
  BY <1>0 DEF InRF, NotYet
<1>2. SearchShape'
  BY <1>0, <1>1
<1>3. OldestFirst'
  <2> SUFFICES ASSUME pc \in {"write", "advance"}, NEW d \in page, NEW e \in InRF' \ page,
                      Day(cursor) <= Day(added'[e])
               PROVE  added'[d] <= added'[e]
    BY DEF OldestFirst, Day
  <2>1. d \in InRF /\ d \in Candidates /\ added'[d] = added[d] /\ added[d] <= now
    BY <1>1 DEF InRF
  <2>2. CASE e = c
    BY <1>1, <2>1, <2>2
  <2>3. CASE e # c
    BY <1>1, <2>1, <2>3 DEF OldestFirst
  <2> QED BY <2>2, <2>3
<1>4. Written'
  BY SettledStays DEF Written
<1>5. NothingBehindCursor'
  <2> SUFFICES ASSUME NEW d \in InRF', Day(added'[d]) < Day(cursor) PROVE Settled(d)'
    BY DEF NothingBehindCursor, Day
  <2>1. d # c
    <3>1. Day(cursor) <= Day(now)
      BY <1>0, DayMonotone
    <3>2. Day(cursor) \in Int /\ Day(now) \in Int
      BY <1>0, CacheConstants DEF Day
    <3> QED BY <1>1, <3>1, <3>2
  <2> QED BY <1>1, <2>1, SettledStays DEF NothingBehindCursor
<1> QED BY <1>2, <1>3, <1>4, <1>5

LEMMA SearchKeeps == ASSUME SearchInv, SearchAnswers PROVE SearchInv'
<1> USE DEF SearchInv, SearchAnswers
<1> PICK found \in SUBSET Matches : Returned(found) /\ page' = found
  OBVIOUS
<1>1. SearchShape'
  BY DEF SearchShape, Matches, InRF
<1>2. OldestFirst'
  <2> SUFFICES ASSUME NEW d \in found, NEW c \in InRF \ found, Day(cursor) <= Day(added[c])
               PROVE  added[d] <= added[c]
    BY DEF OldestFirst, InRF, Day
  <2>1. CASE c \in Matches
    BY <2>1 DEF Returned
  <2>2. CASE c \notin Matches
    <3>1. added[d] < shown /\ ~(added[c] < shown)
      <4>1. Day(added[c]) >= Day(cursor)
        BY CacheConstants DEF Day, SearchShape, InRF, NotYet
      <4> QED BY <2>2, <4>1 DEF Matches
    <3>2. added[d] \in Int /\ added[c] \in Int /\ shown \in Int
      BY CacheConstants DEF SearchShape, InRF, NotYet, Matches
    <3> QED BY <3>1, <3>2
  <2> QED BY <2>1, <2>2
<1>3. Written' /\ NothingBehindCursor'
  BY SettledStays DEF Written, NothingBehindCursor, InRF, Day
<1> QED BY <1>1, <1>2, <1>3

(* A page that is written is settled. *)
LEMMA WritesKeeps == ASSUME SearchInv, Writes PROVE SearchInv'
<1> USE DEF SearchInv, Writes
<1> PICK T \in SUBSET (table \cup Built(page)) : Ignoring(T, Built(page)) /\ table' = T
  OBVIOUS
<1>1. SearchShape' /\ OldestFirst'
  BY DEF SearchShape, OldestFirst, InRF, Day
<1>2. Written'
  BY DEF Written, Ignoring, Built, Settled
<1>3. NothingBehindCursor'
  BY SettledStays DEF NothingBehindCursor, InRF, Day, Ignoring
<1> QED BY <1>1, <1>2, <1>3

(* The cursor passes only what was on the page. *)
LEMMA AdvancesKeeps == ASSUME SearchInv, Advances PROVE SearchInv'
<1> USE DEF SearchInv, Advances
<1>0. MaxTime \in Nat /\ now \in Nat
  BY CacheConstants DEF SearchShape
<1>1. /\ cursor <= cursor'
      /\ cursor' = cursor \/ \E d \in page : cursor' = added[d]
  BY CursorMoves
<1>2. cursor' \in 0 .. now
  BY <1>0, <1>1 DEF SearchShape, InRF, NotYet
<1>3. SearchShape' /\ OldestFirst' /\ Written'
  BY <1>2 DEF SearchShape, InRF, OldestFirst, Written
<1>4. NothingBehindCursor'
  <2> SUFFICES ASSUME NEW c \in InRF, Day(added[c]) < Day(cursor') PROVE Settled(c)
    BY SettledStays DEF NothingBehindCursor, InRF, Day
  <2>1. added[c] \in Nat /\ cursor \in Nat /\ cursor' \in Nat
    BY <1>0, <1>2 DEF SearchShape, InRF, NotYet
  <2>2. Day(added[c]) \in Int /\ Day(cursor) \in Int /\ Day(cursor') \in Int
    BY <2>1, CacheConstants DEF Day
  <2>3. CASE Day(added[c]) < Day(cursor)
    BY <2>3 DEF NothingBehindCursor
  <2>4. CASE Day(cursor) <= Day(added[c])
    <3>1. PICK d \in page : cursor' = added[d]
      BY <1>1, <2>2, <2>4
    <3>2. ~(added[d] <= added[c])
      BY <2>1, <2>2, <3>1, DayMonotone
    <3>3. c \in page
      BY <2>4, <3>2 DEF OldestFirst
    <3> QED BY <3>3 DEF Written
  <2> QED BY <2>2, <2>3, <2>4
<1> QED BY <1>3, <1>4

(* Steps that leave the cursor and the candidates alone, and end or begin a tick. *)
LEMMA OtherwiseKeeps ==
  ASSUME SearchInv, Starts \/ Fails \/ Releases \/ Dies PROVE SearchInv'
<1>1. /\ UNCHANGED <<now, added, shown, cursor>> /\ page' \in {page, {}} /\ table \subseteq table'
      /\ pc' \notin {"write", "advance"}
  BY DEF Starts, Fails, Releases, Dies, Ignoring
<1> QED BY <1>1, SettledStays
        DEF SearchInv, SearchShape, OldestFirst, Written, NothingBehindCursor, InRF, Day

LEMMA NextSearchInv == SearchInv /\ [Next]_vars => SearchInv'
<1> SUFFICES ASSUME SearchInv, [Next]_vars PROVE SearchInv'
  OBVIOUS
<1>1. CASE Tick \/ IndexCatchesUp
  <2>1. /\ UNCHANGED <<added, table, cursor, pc, page>> /\ now' \in 0 .. MaxTime /\ now <= now'
        /\ shown' \in 0 .. now'
    BY <1>1, CacheConstants DEF Tick, IndexCatchesUp, SearchInv, SearchShape
  <2>2. SearchShape'
    BY <2>1, CacheConstants DEF SearchInv, SearchShape, InRF, NotYet
  <2> QED BY <2>1, <2>2, SettledStays
          DEF SearchInv, OldestFirst, Written, NothingBehindCursor, InRF, Day
<1>2. CASE UNCHANGED vars
  BY <1>2, SettledStays
     DEF vars, SearchInv, SearchShape, OldestFirst, Written, NothingBehindCursor, InRF, Day
<1> QED BY <1>1, <1>2, AddKeeps, SearchKeeps, WritesKeeps, AdvancesKeeps, OtherwiseKeeps DEF Next, Runs

(***************************************************************************)
(* A candidate that no search will ask for again has been dealt with, for  *)
(* any number of candidates, any cap and whatever fails on the way         *)
(* (rf-list-client.js:231-258, index.js:219-284).                          *)
(***************************************************************************)
THEOREM CursorPassesNothing == Spec => []NothingBehindCursor
<1>1. SearchInv => NothingBehindCursor
  BY DEF SearchInv
<1> QED BY <1>1, InitSearchInv, NextSearchInv, PTL DEF Spec

LEMMA SearchTypeKept == ASSUME SearchInv, TypeOK, [Next]_vars PROVE TypeOK'
<1>0. /\ now \in Int /\ MaxCrashes \in Int /\ crashes \in Int
      /\ SearchShape /\ SearchInv' /\ now <= now' /\ table \in SUBSET Candidates
  <2>1. SearchInv' /\ SearchShape
    BY NextSearchInv DEF SearchInv
  <2>2. now' = now \/ now' = now + 1
    BY DEF Next, Runs, Starts, SearchAnswers, Writes, Advances, Releases, Fails, Dies, Tick,
           IndexCatchesUp, Add, vars
  <2> QED BY <2>1, <2>2, CacheConstants DEF TypeOK, InRF
<1>1. SearchShape'
  BY <1>0 DEF SearchInv
<1>2. InRF \subseteq InRF'
  BY <1>0, CacheConstants
     DEF SearchShape, InRF, NotYet, Next, Runs, Starts, SearchAnswers, Writes, Advances, Releases, Fails,
         Dies, Tick, IndexCatchesUp, Add, vars
<1>3. table' \subseteq InRF' \ Malformed
  <2>1. table' \subseteq table \cup Built(page)
    BY DEF Built, Ignoring, Next, Runs, Starts, SearchAnswers, Writes, Advances, Releases, Fails,
           Dies, Tick, IndexCatchesUp, Add, vars
  <2> QED BY <1>0, <1>2, <2>1 DEF TypeOK, Built
<1>4. /\ lease' \in {Free} \cup 0 .. now' /\ pc' \in {"idle", "search", "write", "advance", "release"}
      /\ pc' # "idle" => lease' # Free
  BY <1>0, <1>1
     DEF TypeOK, SearchShape, Free, Next, Runs, Starts, SearchAnswers, Writes, Advances, Releases, Fails,
         Dies, Tick, IndexCatchesUp, Add, vars
<1>5. crashes' \in 0 .. MaxCrashes
  BY <1>0 DEF TypeOK, Next, Runs, Starts, SearchAnswers, Writes, Advances, Releases, Fails,
              Dies, Tick, IndexCatchesUp, Add, vars
<1> QED BY <1>1, <1>3, <1>4, <1>5 DEF TypeOK, SearchShape

(* The states of the candidates sync are well formed (index.js:219-284).   *)
THEOREM CandidateTypes == Spec => []TypeOK
<1>1. Init => TypeOK
  BY CacheConstants DEF Init, TypeOK, InRF, NotYet, Free
<1> QED BY <1>1, InitSearchInv, NextSearchInv, SearchTypeKept, PTL DEF Spec

-----------------------------------------------------------------------------
(* THE JOBS.                                                               *)

(***************************************************************************)
(* What makes BareMeansDenied inductive: a job a writer is about to insert *)
(* has its pipeline, still waits for it, was denied it, or has a row that  *)
(* the insert will leave alone.                                            *)
(***************************************************************************)
Accounted(w) ==
    \A j \in seen[w] : jobPc[w] = "fetch" =>
        j \in wanted[w] \cup piped[w] \cup denied \/ rows[j] # "absent"

JobShape ==
    /\ rows \in [Jobs -> {"absent", "bare", "full"}]
    /\ jobPc \in [Writers -> {"idle", "select", "fetch"}]
    /\ listed \subseteq Jobs
    /\ seen \in [Writers -> SUBSET Jobs]
    /\ wanted \in [Writers -> SUBSET Jobs]
    /\ piped \in [Writers -> SUBSET Jobs]

JobInv == JobShape /\ BareMeansDenied /\ \A w \in Writers : Accounted(w)

LEMMA InitJobInv == JobsInit => JobInv
  BY DEF JobsInit, JobInv, JobShape, BareMeansDenied, Accounted, Writers

\* An insert never takes a row away and never strips a row of its pipeline.
LEMMA InsertKeeps ==
  ASSUME JobInv, NEW w \in Writers, NEW js \in SUBSET Jobs,
         jobPc[w] = "fetch", wanted[w] = {}, js \subseteq seen[w],
         rows' = [j \in Jobs |-> IF j \in js THEN Inserted(w, j) ELSE rows[j]]
  PROVE  /\ rows' \in [Jobs -> {"absent", "bare", "full"}]
         /\ \A j \in Jobs : rows[j] # "absent" => rows'[j] # "absent"
         /\ \A j \in Jobs : rows'[j] = "bare" => j \in denied
<1>1. rows' \in [Jobs -> {"absent", "bare", "full"}]
  BY DEF JobInv, JobShape, Inserted, Content
<1>2. \A j \in Jobs : rows[j] # "absent" => rows'[j] # "absent"
  BY DEF JobInv, JobShape, Inserted, Content
<1>3. ASSUME NEW j \in Jobs, rows'[j] = "bare" PROVE j \in denied
  <2>1. CASE rows[j] = "bare"
    BY <2>1 DEF JobInv, BareMeansDenied
  <2>2. CASE rows[j] # "bare"
    <3>1. j \in js /\ rows[j] = "absent" /\ j \notin piped[w]
      BY <1>3, <2>2 DEF JobInv, JobShape, Inserted, Content
    <3>2. j \in wanted[w] \cup piped[w] \cup denied
      BY <3>1 DEF JobInv, Accounted
    <3> QED
      BY <3>1, <3>2
  <2> QED
    BY <2>1, <2>2
<1> QED
  BY <1>1, <1>2, <1>3

LEMMA NextJobInv == JobInv /\ [JobsNext]_jobVars => JobInv'
<1> SUFFICES ASSUME JobInv, [JobsNext]_jobVars PROVE JobInv'
  OBVIOUS
<1> USE DEF Writers
<1>1. ASSUME NEW j \in Jobs, Opens(j) PROVE JobInv'
  BY <1>1 DEF Opens, JobInv, JobShape, BareMeansDenied, Accounted
<1>2. ASSUME NEW w \in Writers, Lists(w) PROVE JobInv'
  BY <1>2 DEF Lists, JobInv, JobShape, BareMeansDenied, Accounted
<1>3. ASSUME NEW w \in Writers, Selects(w) PROVE JobInv'
  BY <1>3 DEF Selects, JobInv, JobShape, BareMeansDenied, Accounted
<1>4. ASSUME NEW w \in Writers, NEW j \in Jobs, Fetches(w, j) PROVE JobInv'
  BY <1>4 DEF Fetches, JobInv, JobShape, BareMeansDenied, Accounted
<1>5. ASSUME NEW w \in Writers, NEW j \in Jobs, FetchFails(w, j) PROVE JobInv'
  BY <1>5 DEF FetchFails, JobInv, JobShape, BareMeansDenied, Accounted
<1>6. ASSUME NEW w \in Writers, WritesJobs(w) PROVE JobInv'
  <2>1. JobsBuilt(seen[w]) \in SUBSET Jobs /\ JobsBuilt(seen[w]) \subseteq seen[w]
    BY <1>6 DEF JobsBuilt, JobInv, JobShape
  <2>2. /\ rows' \in [Jobs -> {"absent", "bare", "full"}]
        /\ \A j \in Jobs : rows[j] # "absent" => rows'[j] # "absent"
        /\ \A j \in Jobs : rows'[j] = "bare" => j \in denied
    BY <1>6, <2>1, InsertKeeps DEF WritesJobs
  <2> QED
    BY <1>6, <2>2 DEF WritesJobs, JobInv, JobShape, BareMeansDenied, Accounted
<1>7. ASSUME NEW w \in Writers, Stops(w) PROVE JobInv'
  <2>1. PICK part \in {{}} \cup {js \in SUBSET JobsBuilt(seen[w]) : wanted[w] = {} /\ jobPc[w] = "fetch"} :
          rows' = [j \in Jobs |-> IF j \in part THEN Inserted(w, j) ELSE rows[j]]
    BY <1>7 DEF Stops
  <2>2. /\ rows' \in [Jobs -> {"absent", "bare", "full"}]
        /\ \A j \in Jobs : rows[j] # "absent" => rows'[j] # "absent"
        /\ \A j \in Jobs : rows'[j] = "bare" => j \in denied
    <3>1. CASE part = {}
      BY <2>1, <3>1 DEF JobInv, JobShape, BareMeansDenied
    <3>2. CASE part # {}
      <4>1. part \in SUBSET Jobs /\ part \subseteq seen[w] /\ wanted[w] = {} /\ jobPc[w] = "fetch"
        BY <3>2 DEF JobsBuilt, JobInv, JobShape
      <4> QED
        BY <2>1, <4>1, InsertKeeps
    <3> QED
      BY <3>1, <3>2
  <2> QED
    BY <1>7, <2>2 DEF Stops, JobInv, JobShape, BareMeansDenied, Accounted
<1>8. CASE UNCHANGED jobVars
  BY <1>8 DEF jobVars, JobInv, JobShape, BareMeansDenied, Accounted
<1> QED
  BY <1>1, <1>2, <1>3, <1>4, <1>5, <1>6, <1>7, <1>8 DEF JobsNext, Step

\* A row without a pipeline is a job RF once denied it to (index.js:305-318).
THEOREM BareRowsWereDenied == JobsSpec => []BareMeansDenied
<1>1. JobInv => BareMeansDenied
  BY DEF JobInv
<1> QED
  BY <1>1, InitJobInv, NextJobInv, PTL DEF JobsSpec

\* A writer wants the pipelines of what it was listed, and has some only while it fetches.
WriterKnows(w) ==
    /\ seen[w] \subseteq listed /\ wanted[w] \subseteq seen[w] /\ wanted[w] \cap piped[w] = {}
    /\ jobPc[w] # "fetch" => wanted[w] = {} /\ piped[w] = {}

JobTypeInv ==
    /\ JobsTypeOK /\ JobShape
    /\ \A w \in Writers : WriterKnows(w)

(* What is inserted is not malformed.                                      *)
LEMMA InsertTypes ==
  ASSUME JobTypeInv, NEW w \in Writers, NEW js \in SUBSET Jobs, js \cap MalformedJobs = {},
         rows' = [j \in Jobs |-> IF j \in js THEN Inserted(w, j) ELSE rows[j]]
  PROVE  /\ rows' \in [Jobs -> {"absent", "bare", "full"}]
         /\ \A j \in MalformedJobs : rows'[j] = "absent"
  BY JobConstants DEF JobTypeInv, JobShape, JobsTypeOK, Inserted, Content

LEMMA NextJobTypes == JobTypeInv /\ [JobsNext]_jobVars => JobTypeInv'
<1> SUFFICES ASSUME JobTypeInv, [JobsNext]_jobVars PROVE JobTypeInv'
  OBVIOUS
<1> USE DEF Writers
<1>0. MaxFailedJobs \in Nat /\ failures \in 0 .. MaxFailedJobs
  BY JobConstants DEF JobTypeInv, JobsTypeOK
<1>1. ASSUME NEW j \in Jobs, Opens(j) PROVE JobTypeInv'
  BY <1>1 DEF Opens, JobTypeInv, JobsTypeOK, JobShape, WriterKnows
<1>2. ASSUME NEW w \in Writers, Lists(w) PROVE JobTypeInv'
  <2>1. wanted[w] = {}
    BY <1>2 DEF Lists, JobTypeInv, WriterKnows
  <2> QED BY <1>2, <2>1 DEF Lists, JobTypeInv, JobsTypeOK, JobShape, WriterKnows
<1>3. ASSUME NEW w \in Writers, Selects(w) PROVE JobTypeInv'
  BY <1>3 DEF Selects, JobTypeInv, JobsTypeOK, JobShape, WriterKnows
<1>4. ASSUME NEW w \in Writers, NEW j \in Jobs, Fetches(w, j) PROVE JobTypeInv'
  BY <1>4 DEF Fetches, JobTypeInv, JobsTypeOK, JobShape, WriterKnows
<1>5. ASSUME NEW w \in Writers, NEW j \in Jobs, FetchFails(w, j) PROVE JobTypeInv'
  BY <1>0, <1>5 DEF FetchFails, JobTypeInv, JobsTypeOK, JobShape, WriterKnows
<1>6. ASSUME NEW w \in Writers, WritesJobs(w) PROVE JobTypeInv'
  <2>1. JobsBuilt(seen[w]) \in SUBSET Jobs /\ JobsBuilt(seen[w]) \cap MalformedJobs = {}
    BY DEF JobsBuilt, JobTypeInv, JobShape
  <2>2. /\ rows' \in [Jobs -> {"absent", "bare", "full"}]
        /\ \A j \in MalformedJobs : rows'[j] = "absent"
    BY <1>6, <2>1, InsertTypes DEF WritesJobs
  <2> QED BY <1>6, <2>2 DEF WritesJobs, JobTypeInv, JobsTypeOK, JobShape, WriterKnows
<1>7. ASSUME NEW w \in Writers, Stops(w) PROVE JobTypeInv'
  <2>1. PICK part \in {{}} \cup {js \in SUBSET JobsBuilt(seen[w]) : wanted[w] = {} /\ jobPc[w] = "fetch"} :
          rows' = [j \in Jobs |-> IF j \in part THEN Inserted(w, j) ELSE rows[j]]
    BY <1>7 DEF Stops
  <2>2. part \in SUBSET Jobs /\ part \cap MalformedJobs = {}
    BY DEF JobsBuilt, JobTypeInv, JobShape
  <2>3. /\ rows' \in [Jobs -> {"absent", "bare", "full"}]
        /\ \A j \in MalformedJobs : rows'[j] = "absent"
    BY <2>1, <2>2, InsertTypes
  <2> QED BY <1>0, <1>7, <2>3 DEF Stops, JobTypeInv, JobsTypeOK, JobShape, WriterKnows
<1>8. CASE UNCHANGED jobVars
  BY <1>8 DEF jobVars, JobTypeInv, JobsTypeOK, JobShape, WriterKnows
<1> QED BY <1>1, <1>2, <1>3, <1>4, <1>5, <1>6, <1>7, <1>8 DEF JobsNext, Step

(* The states of the jobs sync are well formed: a malformed job never gets *)
(* a row (d1-write.js:242-257).                                            *)
THEOREM JobTypes == JobsSpec => []JobsTypeOK
<1>1. JobsInit => JobTypeInv
  BY JobConstants DEF JobsInit, JobTypeInv, JobsTypeOK, JobShape, WriterKnows, Writers
<1>2. JobTypeInv => JobsTypeOK
  BY DEF JobTypeInv
<1> QED BY <1>1, <1>2, NextJobTypes, PTL DEF JobsSpec

-----------------------------------------------------------------------------
(* THE CALLS.  A call is concluded at most MaxDuration after it began, and *)
(* the tick of the next unit lists it, or fails.  So while no tick has     *)
(* died, a concluded call without a row is not older than its duration,    *)
(* the ticks that failed, and the one that is to come; and the next tick's *)
(* window reaches back at least by the overlap, however far the webhook    *)
(* has moved it.                                                           *)

\* The tick of this unit may still write the call.
Awaited(c) == \/ ~fired \/ callPc = "list"
              \/ callPc = "write" /\ c \in callsListed

Age(c) == callNow - began[c]

OpenCallsAreYoung == \A c \in Calls \ ended : began[c] # NotBegun => Age(c) <= MaxDuration

OutageIsShort == deaths = 0 /\ MaxDuration + callFailures + 1 < Overlap

UnwrittenAreYoung ==
    OutageIsShort => \A c \in ended \ calls :
        /\ Age(c) <= MaxDuration + callFailures + 1
        /\ ~Awaited(c) => Age(c) <= MaxDuration + callFailures

CallShape ==
    /\ callFailures \in Nat /\ deaths \in Nat
    /\ deaths = 0 /\ callPc = "idle" => callLease = Lease!Free
    /\ callPc = "list" => after <= callNow - Overlap

CallInv == CallsTypeOK /\ CallShape /\ OpenCallsAreYoung /\ UnwrittenAreYoung

CallRange ==
    /\ callNow \in Int /\ callNow \in Nat /\ Overlap \in Nat /\ MaxDuration \in Nat
    /\ MaxCallTime \in Nat /\ callFailures \in Nat /\ deaths \in Nat /\ after \in Int
    /\ \A c \in Calls : began[c] \in Int /\ began[c] <= callNow /\ (began[c] = NotBegun \/ began[c] >= 0)

LEMMA CallsInRange == ASSUME CallsTypeOK, CallShape PROVE CallRange
  BY CallConstants DEF CallsTypeOK, CallShape, CallRange, NotBegun, LongAgo

LEMMA InitCallInv == CallsInit => CallInv
<1> SUFFICES ASSUME CallsInit PROVE CallInv
  OBVIOUS
<1>1. CallsTypeOK
  <2>1. MaxCallTime \in Nat /\ Overlap \in Nat
    BY CallConstants
  <2>2. callNow \in 0 .. MaxCallTime /\ after \in LongAgo .. callNow
    BY <2>1 DEF CallsInit, LongAgo
  <2>3. began \in [Calls -> {NotBegun} \cup 0 .. callNow]
    BY DEF CallsInit
  <2> QED BY <2>2, <2>3 DEF CallsInit, CallsTypeOK
<1>2. CallShape /\ OpenCallsAreYoung /\ UnwrittenAreYoung
  BY DEF CallsInit, CallShape, OpenCallsAreYoung, UnwrittenAreYoung
<1> QED BY <1>1, <1>2 DEF CallInv

(* The window never starts later than the overlap before now.              *)
LEMMA WindowReachesBack ==
  ASSUME CallsTypeOK, CallRange
  PROVE  /\ Latest \in Int /\ NotBegun <= Latest /\ Latest <= callNow
         /\ StartedAfter \in LongAgo .. callNow /\ StartedAfter <= callNow - Overlap
<1> DEFINE S == {began[c] : c \in calls}
<1>1. Latest \in Int /\ NotBegun <= Latest /\ Latest <= callNow
  <2>1. CASE calls = {}
    BY <2>1 DEF Latest, NotBegun, CallRange
  <2>2. CASE calls # {}
    <3>1. S \subseteq 0 .. callNow /\ S # {}
      BY <2>2 DEF CallsTypeOK, CallRange
    <3>2. Max(S) \in S
      BY <3>1, TimesHaveEnds DEF CallRange
    <3>3. Latest = Max(S)
      BY <2>2 DEF Latest
    <3> QED BY <3>1, <3>2, <3>3 DEF CallRange, NotBegun
  <2> QED BY <2>1, <2>2
<1> QED BY <1>1 DEF StartedAfter, LongAgo, NotBegun, CallRange

LEMMA CallsTypeKept == ASSUME CallInv, [CallsNext]_callVars PROVE CallsTypeOK' /\ CallShape'
<1> USE DEF CallInv, CallsTypeOK, CallShape, dialpad, Lease!Free
<1>0. CallRange
  BY CallsInRange
<1>1. ASSUME NEW c \in Calls, Begins(c) \/ HangsUp(c) \/ Forwarded(c) PROVE CallsTypeOK' /\ CallShape'
  BY <1>0, <1>1 DEF Begins, HangsUp, Forwarded, CallRange, NotBegun
<1>2. CASE CallsTick
  <2>1. callNow' \in 0 .. MaxCallTime /\ callNow' = callNow + 1
    BY <1>0, <1>2 DEF CallsTick, CallRange
  <2>2. began' \in [Calls -> {NotBegun} \cup 0 .. callNow']
    BY <1>0, <1>2, <2>1 DEF CallsTick, CallRange
  <2>3. callLease' \in {Lease!Free} \cup 0 .. callNow' /\ after' \in LongAgo .. callNow'
    BY <1>0, <1>2, <2>1, CallConstants DEF CallsTick, CallRange, LongAgo, NotBegun
  <2> QED BY <1>2, <2>1, <2>2, <2>3 DEF CallsTick
<1>3. CASE CallsStart
  BY <1>0, <1>3, WindowReachesBack DEF CallsStart, CallRange
<1>4. CASE CallsSkip \/ CallsListing \/ CallsWrite \/ CallsRelease
  BY <1>0, <1>4 DEF CallsSkip, CallsListing, CallsWrite, CallsRelease, CallRange
<1>5. CASE CallsFail \/ CallsDie
  BY <1>0, <1>5 DEF CallsFail, CallsDie, CallRange
<1>6. CASE UNCHANGED callVars
  BY <1>6 DEF callVars
<1> QED BY <1>1, <1>2, <1>3, <1>4, <1>5, <1>6 DEF CallsNext, CallsRun

LEMMA CallsYoungKept ==
  ASSUME CallInv, [CallsNext]_callVars PROVE OpenCallsAreYoung' /\ UnwrittenAreYoung'
<1> USE DEF OpenCallsAreYoung, UnwrittenAreYoung, Age, Awaited, OutageIsShort, dialpad
<1>0. CallRange /\ CallsTypeOK /\ CallShape
  BY CallsInRange DEF CallInv
<1>u. OpenCallsAreYoung /\ UnwrittenAreYoung
  BY DEF CallInv
<1>1. ASSUME NEW c \in Calls, Begins(c) PROVE OpenCallsAreYoung' /\ UnwrittenAreYoung'
  BY <1>0, <1>1, <1>u DEF Begins, CallRange, CallsTypeOK, NotBegun
<1>2. ASSUME NEW c \in Calls, HangsUp(c) PROVE OpenCallsAreYoung' /\ UnwrittenAreYoung'
  BY <1>0, <1>2, <1>u DEF HangsUp, CallRange, CallsTypeOK, NotBegun
<1>3. ASSUME NEW c \in Calls, Forwarded(c) PROVE OpenCallsAreYoung' /\ UnwrittenAreYoung'
  BY <1>0, <1>3, <1>u DEF Forwarded, CallRange, CallsTypeOK, NotBegun
<1>4. CASE CallsTick
  BY <1>0, <1>4, <1>u DEF CallsTick, CallRange, CallsTypeOK, NotBegun
<1>5. CASE CallsStart
  BY <1>0, <1>5, <1>u DEF CallsStart, CallRange, CallsTypeOK
<1>6. CASE CallsSkip
  BY <1>0, <1>6, <1>u DEF CallsSkip, CallRange, CallsTypeOK, CallShape, Lease!MayClaim
<1>7. CASE CallsListing
  BY <1>0, <1>7, <1>u DEF CallsListing, CallRange, CallsTypeOK, CallShape
<1>8. CASE CallsWrite
  BY <1>0, <1>8, <1>u DEF CallsWrite, CallRange, CallsTypeOK
<1>9. CASE CallsFail
  BY <1>0, <1>9, <1>u DEF CallsFail, CallRange, CallsTypeOK
<1>10. CASE CallsRelease
  BY <1>0, <1>10, <1>u DEF CallsRelease, CallRange, CallsTypeOK
<1>11. CASE CallsDie
  BY <1>0, <1>11, <1>u DEF CallsDie, CallRange, CallsTypeOK
<1>12. CASE UNCHANGED callVars
  BY <1>0, <1>12, <1>u DEF callVars
<1> QED BY <1>1, <1>2, <1>3, <1>4, <1>5, <1>6, <1>7, <1>8, <1>9, <1>10, <1>11, <1>12
        DEF CallsNext, CallsRun

LEMMA NextCallInv == CallInv /\ [CallsNext]_callVars => CallInv'
  BY CallsTypeKept, CallsYoungKept DEF CallInv

(***************************************************************************)
(* For any calls, however the webhook loses or reorders them: while no     *)
(* tick has died and the failed ticks together are shorter than the        *)
(* overlap, cron can still find every concluded call that has no row       *)
(* (index.js:361-371, security.md:124).                                    *)
(***************************************************************************)
THEOREM OutagesLeaveBehind == CallsSpec => [](CallsTypeOK /\ OnlyOutageLeavesBehind)
<1>1. CallInv => CallsTypeOK /\ OnlyOutageLeavesBehind
  <2> SUFFICES ASSUME CallInv, OutageIsShort, NEW c \in ended \ calls PROVE Findable(c)
    BY DEF CallInv, OnlyOutageLeavesBehind, NoneLeftBehind, OutageIsShort
  <2>1. CallRange /\ StartedAfter <= callNow - Overlap /\ StartedAfter \in LongAgo .. callNow
    BY CallsInRange, WindowReachesBack DEF CallInv
  <2>2. c \in Calls /\ callNow - began[c] < Overlap
    BY <2>1 DEF CallInv, UnwrittenAreYoung, Age, OutageIsShort, CallRange, CallsTypeOK
  <2>3. began[c] > StartedAfter
    BY <2>1, <2>2 DEF CallRange, LongAgo
  <2> QED BY <2>3 DEF Findable
<1> QED BY <1>1, InitCallInv, NextCallInv, PTL DEF CallsSpec

-----------------------------------------------------------------------------
(* TOGETHER.  A step of the subtasks is a step of one, and the others      *)
(* stand still.                                                            *)
LEMMA SubtasksStep ==
  ASSUME [SyncNext]_syncVars
  PROVE  [Next]_vars /\ [JobsNext]_jobVars /\ [CallsNext]_callVars
<1>1. CASE UNCHANGED syncVars
  BY <1>1 DEF syncVars
<1>2. CASE Candidate(Next)
  BY <1>2 DEF Candidate
<1>3. CASE Job(JobsNext)
  BY <1>3 DEF Job
<1>4. CASE Call(CallsNext)
  BY <1>4 DEF Call
<1>5. CASE Sweep(Log!Next)
  BY <1>5 DEF Sweep
<1> QED BY <1>1, <1>2, <1>3, <1>4, <1>5 DEF SyncNext

(* What is proved of the syncs holds where they run together.              *)
THEOREM ScheduledHold ==
  SyncSpec => [](TypesOK /\ NothingBehindCursor /\ BareMeansDenied /\ OnlyOutageLeavesBehind)
<1>1. SyncSpec => SyncInit /\ [][SyncNext]_syncVars
  BY PTL DEF SyncSpec
<1>2. SyncInit => Init /\ JobsInit /\ CallsInit
  BY DEF SyncInit
<1>3. SyncSpec => Spec /\ JobsSpec /\ CallsSpec
  BY <1>1, <1>2, SubtasksStep, PTL DEF Spec, JobsSpec, CallsSpec
<1>4. TypeOK /\ JobsTypeOK /\ CallsTypeOK => TypesOK
  BY DEF TypesOK
<1> QED BY <1>3, <1>4, CursorPassesNothing, BareRowsWereDenied, OutagesLeaveBehind, CandidateTypes,
           JobTypes, PTL
================================================================================

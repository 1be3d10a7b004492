---------------------------- MODULE AssistantProofs ----------------------------
(***************************************************************************)
(* What the assistant's tools hold for any cache, any scores of a name and *)
(* any limits, whichever fetches fail and however the database moves: the  *)
(* names of a write and of jobs (NamedWrites), and the candidate search.   *)
(***************************************************************************)
EXTENDS NamedWrites, CandidateSearch, FiniteSetTheorems, WellFoundedInduction, SequenceTheorems, TLAPS

(* Any natural numbers have a least. *)
LEMMA FirstExists ==
  ASSUME NEW S, S \subseteq Nat, S # {}
  PROVE  \E x \in S : \A y \in S : x <= y
<1>1. \E x \in S : \A y \in S : ~(<<y, x>> \in OpToRel(<, Nat))
  BY NatLessThanWellFounded, WFMin
<1>2. \A x, y \in Nat : x < y => <<x, y>> \in OpToRel(<, Nat)
  BY DEF OpToRel
<1>3. \A x, y \in S : x \in Nat /\ y \in Nat /\ (~(y < x) => x <= y)
  OBVIOUS
<1> QED BY <1>1, <1>2, <1>3

-----------------------------------------------------------------------------
(***************************************************************************)
(* Names.  Whatever order the likeliest are cut to a number in, one that   *)
(* is cut has as many before it, and one of several that tie is cut only   *)
(* where the first of those is, or where more tie than are looked at.      *)
(***************************************************************************)

Scoring == [Known -> Nat]

(* The candidates are finitely many. *)
LEMMA KnownAreFinite ==
  ASSUME NEW S, S \subseteq Known
  PROVE  IsFiniteSet(S) /\ Cardinality(S) \in Nat
BY NameConstants, FS_Subset, FS_CardinalityType

LEMMA FewerKnown ==
  ASSUME NEW S, NEW T, S \subseteq T, T \subseteq Known
  PROVE  Cardinality(S) <= Cardinality(T)
BY KnownAreFinite, FS_Subset

(* Of different candidates, one is before the other. *)
LEMMA BeforeIsAnOrder ==
  ASSUME scores \in Scoring, NEW score \in Scoring
  PROVE  /\ \A p \in Known : ~Before(p, p, score)
         /\ \A p, q, r \in Known : Before(p, q, score) /\ Before(q, r, score) => Before(p, r, score)
<1>1. ASSUME NEW p \in Known PROVE p \in Nat /\ score[p] \in Nat /\ scores[p] \in Nat
  BY NameConstants DEF Scoring
<1> QED BY <1>1 DEF Before

(* Some are before which there is nobody. *)
LEMMA SomeAreFirst ==
  ASSUME scores \in Scoring, NEW score \in Scoring, NEW S, S \subseteq Known, S # {}
  PROVE  \E p \in S : \A q \in S : ~Before(q, p, score)
<1> DEFINE above(p) == {q \in S : Before(q, p, score)}
<1> DEFINE sizes == {Cardinality(above(p)) : p \in S}
<1>1. \A p \in S : Cardinality(above(p)) \in Nat
  BY KnownAreFinite
<1>2. PICK n \in sizes : \A k \in sizes : n <= k
  <2>1. sizes \subseteq Nat /\ sizes # {}
    BY <1>1
  <2> HIDE DEF sizes
  <2> QED BY <2>1, FirstExists
<1>3. PICK p \in S : n = Cardinality(above(p))
  BY <1>2
<1>4. ASSUME NEW q \in S, Before(q, p, score) PROVE FALSE
  <2>1. above(q) \subseteq above(p) /\ q \in above(p) /\ q \notin above(q)
    BY <1>4, BeforeIsAnOrder
  <2>2. Cardinality(above(p)) <= Cardinality(above(q))
    BY <1>2, <1>3
  <2>3. IsFiniteSet(above(p)) /\ Cardinality(above(p)) \in Nat /\ Cardinality(above(q)) \in Nat
    BY KnownAreFinite
  <2>4. Cardinality(above(q)) <= Cardinality(above(p))
    BY <2>1, <2>3, FS_Subset
  <2>5. Cardinality(above(p)) = Cardinality(above(q))
    BY <2>2, <2>3, <2>4
  <2> HIDE DEF above
  <2>6. above(p) = above(q)
    BY <2>1, <2>3, <2>5, FS_Subset
  <2> QED BY <2>1, <2>6
<1> QED BY <1>4

(* So of any candidates some are taken, if any may be. *)
LEMMA SomeAreTaken ==
  ASSUME scores \in Scoring, NEW score \in Scoring, NEW S, S \subseteq Known, S # {}, NEW n \in Nat \ {0}
  PROVE  FirstOf(S, n, score) # {}
<1>1. PICK p \in S : \A q \in S : ~Before(q, p, score)
  BY SomeAreFirst
<1>2. {q \in S : Before(q, p, score)} = {}
  BY <1>1
<1>3. p \in FirstOf(S, n, score)
  BY <1>2, FS_EmptySet DEF FirstOf
<1> QED BY <1>3

(* Before one that is cut there are as many as are taken. *)
LEMMA CutAfter ==
  ASSUME NEW score \in Scoring, scores \in Scoring, NEW S, S \subseteq Known, NEW n \in Nat,
         NEW p \in S, p \notin FirstOf(S, n, score)
  PROVE  Cardinality({q \in S \ {p} : score[q] >= score[p]}) >= n
<1> DEFINE B == {q \in S : Before(q, p, score)}
<1> DEFINE A == {q \in S \ {p} : score[q] >= score[p]}
<1>1. \A q \in Known : score[q] \in Nat
  BY DEF Scoring
<1>2. Cardinality(B) >= n
  BY KnownAreFinite DEF FirstOf
<1>3. B \subseteq A
  BY <1>1, BeforeIsAnOrder DEF Before
<1>4. Cardinality(B) <= Cardinality(A) /\ Cardinality(A) \in Nat /\ Cardinality(B) \in Nat
  BY <1>3, KnownAreFinite, FewerKnown
<1> QED BY <1>2, <1>4

(* Of those that match, who is not looked at is outside. *)
LEMMA WidenedTakesTies ==
  ASSUME scores \in Scoring, NEW p \in Matches, p \notin WidenTiedPool(Matches)
  PROVE  Outside(p)
<1> DEFINE first == FirstOf(Matches, Fanout, scores)
<1> DEFINE likelier == {q \in Known : scores[q] > scores[p]}
<1> DEFINE B == {q \in Matches : Before(q, p, scores)}
<1>1. Matches \subseteq Known /\ (\A q \in Known : scores[q] \in Nat /\ q \in Nat) /\ Fanout \in Nat /\ WideCap \in Nat
  BY NameConstants DEF Scoring, Matches
<1>2. p \notin first /\ \/ p \notin FirstOf(Matches, WideCap, scores)
                        \/ \A q \in first : scores[p] # scores[q]
  BY DEF WidenTiedPool
<1>3. CASE p \notin FirstOf(Matches, WideCap, scores)
  <2>1. Cardinality({q \in Matches \ {p} : scores[q] >= scores[p]}) >= WideCap
    BY <1>1, <1>3, CutAfter
  <2>2. {q \in Matches \ {p} : scores[q] >= scores[p]} \subseteq {q \in Known \ {p} : scores[q] >= scores[p]}
    BY <1>1
  <2>3. Cardinality({q \in Known \ {p} : scores[q] >= scores[p]}) >= WideCap
    BY <1>1, <2>1, <2>2, FewerKnown, KnownAreFinite
  <2> QED BY <2>3 DEF Outside
<1>4. CASE \A q \in first : scores[p] # scores[q]
  <2> SUFFICES ASSUME ~(Cardinality(likelier) >= Fanout) PROVE FALSE
    BY DEF Outside
  <2>1. Cardinality(B) >= Fanout
    BY <1>1, <1>2, KnownAreFinite DEF FirstOf
  <2>2. ~(B \subseteq likelier)
    BY <1>1, <2>1, KnownAreFinite, FewerKnown
  <2> DEFINE ties == {q \in Matches : scores[q] = scores[p]}
  <2>3. ties # {} /\ ties \subseteq Nat
    BY <1>1
  <2> HIDE DEF ties
  <2>4. PICK t \in ties : \A q \in ties : t <= q
    BY <2>3, FirstExists
  <2> USE DEF ties
  <2>5. {q \in Matches : Before(q, t, scores)} \subseteq likelier
    BY <1>1, <2>4 DEF Before
  <2>6. Cardinality({q \in Matches : Before(q, t, scores)}) < Fanout
    BY <1>1, <2>5, KnownAreFinite, FewerKnown
  <2>7. t \in first
    BY <2>4, <2>6 DEF FirstOf
  <2> QED BY <1>4, <2>4, <2>7
<1> QED BY <1>2, <1>3, <1>4

(* The likeliest is not of the long tail. *)
LEMMA AmbiguousAreSome ==
  ASSUME scores \in Scoring, NEW score \in Scoring, NEW S, S \subseteq Known, S # {}
  PROVE  Ambiguous(S, score) # {}
<1> DEFINE T == TruncateLongTail(S, score)
<1>1. PICK p \in S : \A q \in S : ~Before(q, p, score)
  BY SomeAreFirst
<1>2. \A q \in S : score[q] \in Nat /\ score[p] \in Nat /\ score[q] <= score[p]
  BY <1>1 DEF Scoring, Before
<1>3. \A q \in S : 100 * score[p] >= TruncationRatio * score[q]
  <2>1. \A t \in 0 .. 100, x, y \in Nat : x <= y => 100 * y >= t * x
    <3> TAKE t \in 0 .. 100, x, y \in Nat
    <3> HAVE x <= y
    <3>1. t * x \in Nat /\ t * x <= 100 * x
      OBVIOUS
    <3> QED BY <3>1
  <2> QED BY <1>2, <2>1, NameConstants
<1>4. p \in T /\ T \subseteq Known
  BY <1>3 DEF TruncateLongTail
<1> HIDE DEF T
<1>5. FirstOf(T, MaxOptions, score) # {}
  BY <1>4, SomeAreTaken, NameConstants
<1> QED BY <1>5 DEF Ambiguous, T

-----------------------------------------------------------------------------
(***************************************************************************)
(* Writes.  Whoever is left while the one that is meant is not, has an     *)
(* excuse from the step that dropped the latter: the name, the rerank or a *)
(* fetch.  The excuse lasts, for what fails later had no boost to lose: a  *)
(* confident name was not reranked and stands alone, and of a reranked     *)
(* pool only those that failed have not been fetched.                      *)
(***************************************************************************)

WriteSteps ==
    {"name", "rerank", "decide", "resolved", "ambiguous", "narrow", "ask", "written",
     "no candidate", "no combination", "unavailable"}

WritesShape ==
    /\ meant \in Known /\ scores \in [Known -> NameScores] /\ boosts \in [Known -> Boosts]
    /\ fits \in [Known -> Nat] /\ fits[meant] > 0
    /\ request \in WriteKinds /\ step \in WriteSteps
    /\ options \subseteq Known /\ fetched \subseteq Known /\ failures \subseteq Known
    /\ written \in Known \cup {Nobody} /\ (written # Nobody <=> step = "written")
    /\ step \in {"ambiguous", "ask"} => options # {}

\* Why another, w, may be written to.
SurelyNamed(w) == Confident(w, Matches)
Excused(w) ==
    \/ SurelyNamed(w) \/ Likelier(w, meant, Due)
    \/ meant \in failures
    \/ LongTail(meant) \/ Outside(meant) \/ Outranked(meant)

OthersExcused == \A w \in options \ {meant} : meant \in options \/ Excused(w)

\* An excuse from the rerank lasts as long as there is nothing left to fail it by.
ExcusesLast == (options \subseteq fetched \cup failures) \/ \E w \in Known : SurelyNamed(w) /\ options \subseteq {w}

Left == {"resolved", "ambiguous", "narrow", "ask"}

WritesInv ==
    /\ WritesShape
    /\ step = "name" => failures = {} /\ fetched = {}
    /\ step = "rerank" => Matches # {} /\ options = WidenTiedPool(Matches) /\ failures = {} /\ fetched = {}
    /\ step = "decide" => /\ Matches # {} /\ options = WidenTiedPool(Matches)
                          /\ failures \subseteq options /\ fetched = options \ failures
    /\ step \in Left => OthersExcused /\ ExcusesLast
    /\ WrittenIsMeant

LEMMA ScoresAreNat ==
  ASSUME WritesShape
  PROVE  /\ \A p \in Known : scores[p] \in NameScores /\ scores[p] \in Nat /\ boosts[p] \in Boosts /\ boosts[p] \in Nat
         /\ \A p \in Known : Due[p] \in Nat /\ Live[p] \in Nat
         /\ scores \in Scoring /\ Due \in Scoring /\ Live \in Scoring
         /\ meant \in Known /\ Matches \subseteq Known /\ UniqueGap \in Nat \ {0} /\ AutoFloor \in Nat
<1>1. \A p \in Known : scores[p] \in NameScores /\ scores[p] \in Nat /\ boosts[p] \in Boosts /\ boosts[p] \in Nat
  BY NameConstants DEF WritesShape
<1>2. \A p \in Known : Due[p] \in Nat /\ Live[p] \in Nat
  BY <1>1 DEF Due, Live
<1> QED BY <1>1, <1>2, NameConstants DEF WritesShape, Scoring, Due, Live, Matches

(* One whose name does not match is in the long tail of any that does. *)
LEMMA UnmatchedIsLong ==
  ASSUME WritesShape, meant \notin Matches, NEW w \in Matches
  PROVE  LongTail(meant)
<1>1. w \in Known /\ scores[w] \in NameScores \ {0} /\ scores[meant] = 0
  BY ScoresAreNat DEF Matches
<1>2. 100 * boosts[meant] < TruncationRatio * scores[w]
  BY <1>1, ScoresAreNat, NameConstants
<1>3. TruncationRatio \in Nat /\ Due[meant] <= boosts[meant] /\ Due[w] >= scores[w]
  <2>1. TruncationRatio \in Nat
    BY NameConstants
  <2>2. boosts[meant] \in Nat /\ boosts[w] \in Nat /\ scores[w] \in Nat /\ meant \in Known
    BY <1>1, ScoresAreNat
  <2> QED BY <1>1, <2>1, <2>2 DEF Due
<1>4. \A t, a, b, c, d \in Nat : 100 * b < t * c /\ a <= b /\ d >= c => 100 * a < t * d
  <2> TAKE t, a, b, c, d \in Nat
  <2> HAVE 100 * b < t * c /\ a <= b /\ d >= c
  <2>1. t * c <= t * d
    OBVIOUS
  <2>2. t * c \in Nat /\ t * d \in Nat
    OBVIOUS
  <2> QED BY <2>1, <2>2
<1>5. 100 * Due[meant] < TruncationRatio * Due[w]
  BY <1>1, <1>2, <1>3, <1>4, ScoresAreNat
<1> QED BY <1>1, <1>5 DEF LongTail

(* What excuses another is what the property allows. *)
LEMMA ExcusedIsAllowed ==
  ASSUME WritesShape, NEW w \in Known \ {meant}, Excused(w)
  PROVE  \/ Likelier(w, meant, scores) /\ scores[w] >= AutoFloor
         \/ Likelier(w, meant, Due)
         \/ meant \in failures
         \/ LongTail(meant) \/ Outside(meant) \/ Outranked(meant)
<1>1. CASE SurelyNamed(w)
  <2>1. w \in Matches /\ scores[w] >= AutoFloor /\ \A q \in Matches \ {w} : Likelier(w, q, scores)
    BY <1>1 DEF SurelyNamed, Confident, Wins, Likelier
  <2>2. CASE meant \in Matches
    BY <2>1, <2>2
  <2>3. CASE meant \notin Matches
    BY <2>1, <2>3, UnmatchedIsLong
  <2> QED BY <2>2, <2>3
<1> QED BY <1>1 DEF Excused

(* A fetch that fails leaves the excuses as they are. *)
LEMMA ExcusesStay ==
  ASSUME WritesShape, ExcusesLast, NEW w \in options, Excused(w),
         UNCHANGED <<meant, scores, boosts, fetched>>,
         failures \subseteq failures', failures' \subseteq failures \cup options
  PROVE  Excused(w)'
<1>1. UNCHANGED <<Matches, scores, meant>>
  BY DEF Matches
<1>2. CASE SurelyNamed(w)
  BY <1>1, <1>2 DEF Excused, SurelyNamed, Confident, Wins
<1>3. CASE options \subseteq fetched \cup failures
  <2>1. failures' \ fetched' = failures \ fetched
    BY <1>3
  <2>2. Due' = Due
    BY <2>1 DEF Due
  <2>3. Likelier(w, meant, Due)' = Likelier(w, meant, Due)
    BY <1>1, <2>2 DEF Likelier
  <2>4. LongTail(meant)' = LongTail(meant)
    BY <1>1, <2>2 DEF LongTail
  <2>5. Outside(meant)' = Outside(meant)
    BY <1>1 DEF Outside
  <2>6. Outranked(meant)' = Outranked(meant)
    BY <1>1, <2>2 DEF Outranked
  <2>7. meant \in failures => (meant \in failures)'
    BY <1>1
  <2> QED BY <1>2, <2>3, <2>4, <2>5, <2>6, <2>7 DEF Excused
<1>4. ASSUME NEW v \in Known, SurelyNamed(v), options \subseteq {v} PROVE Excused(w)'
  <2>1. w = v
    BY <1>4
  <2> QED BY <1>2, <1>4, <2>1
<1> QED BY <1>3, <1>4 DEF ExcusesLast

LEMMA WritesInvInit == WritesInit => WritesInv
<1> SUFFICES ASSUME WritesInit PROVE WritesInv
  OBVIOUS
<1>1. \A p \in Known : fits[p] \in Nat /\ fits \in [Known -> Nat]
  <2> DEFINE pairs == CASE request = "move" -> 0 .. 2 [] request \in OnAJob -> 0 .. 1 [] OTHER -> {1}
  <2>1. pairs \subseteq Nat
    OBVIOUS
  <2>2. fits \in [Known -> pairs]
    BY DEF WritesInit
  <2> HIDE DEF pairs
  <2> QED BY <2>1, <2>2
<1>2. step = "name" /\ Nobody \notin Known
  BY NameConstants DEF WritesInit, Nobody
<1> QED BY <1>1, <1>2 DEF WritesInit, WritesInv, WritesShape, WriteSteps, Left, WrittenIsMeant, Nobody

-----------------------------------------------------------------------------
(* Who is meant, and what may be known of the candidates, stay as they are. *)
WritesFixed == UNCHANGED <<meant, scores, boosts, fits, request>>

LEMMA ScoresKeep == ASSUME WritesInv, ScoreNames PROVE WritesInv'
<1>1. WritesShape /\ step = "name" /\ failures = {} /\ fetched = {} /\ written = Nobody
  BY DEF ScoreNames, WritesInv, WritesShape
<1>2. WritesFixed /\ UNCHANGED <<failures, fetched, written>> /\ UNCHANGED Matches
  BY DEF ScoreNames, WritesFixed, Matches
<1>3. options' \subseteq Known /\ step' \in {"no candidate", "resolved", "rerank"}
  BY <1>1 DEF ScoreNames, WidenTiedPool, FirstOf, Matches, WritesShape
<1>4. WritesShape'
  BY <1>1, <1>2, <1>3 DEF WritesShape, WritesFixed, WriteSteps
<1>5. WrittenIsMeant'
  BY <1>1, <1>2 DEF WrittenIsMeant
<1>6. CASE step' = "no candidate"
  BY <1>4, <1>5, <1>6 DEF WritesInv, Left
<1>7. CASE step' = "rerank"
  <2>1. Matches # {} /\ options' = WidenTiedPool(Matches)
    BY <1>7 DEF ScoreNames
  <2>2. Matches' # {} /\ options' = WidenTiedPool(Matches)'
    BY <1>2, <2>1 DEF WidenTiedPool, FirstOf, Before, WritesFixed
  <2> QED BY <1>1, <1>2, <1>4, <1>5, <1>7, <2>2 DEF WritesInv, Left
<1>8. CASE step' = "resolved"
  <2>1. PICK p \in Known : Confident(p, Matches) /\ options' = {p}
    BY <1>8 DEF ScoreNames
  <2>2. SurelyNamed(p)'
    BY <1>2, <2>1 DEF SurelyNamed, Confident, Wins, WritesFixed
  <2>3. OthersExcused' /\ ExcusesLast'
    BY <2>1, <2>2 DEF OthersExcused, ExcusesLast, Excused
  <2> QED BY <1>4, <1>5, <1>8, <2>3 DEF WritesInv
<1> QED BY <1>3, <1>6, <1>7, <1>8

LEMMA FetchKeeps ==
  ASSUME WritesInv, NEW failed \in SUBSET Known, FetchPool(failed)
  PROVE  WritesInv'
<1>1. /\ WritesShape /\ step = "rerank" /\ failures = {} /\ fetched = {} /\ written = Nobody
      /\ Matches # {} /\ options = WidenTiedPool(Matches)
  BY DEF FetchPool, WritesInv, WritesShape
<1>2. WritesFixed /\ UNCHANGED <<options, written>> /\ UNCHANGED Matches /\ step' = "decide"
  BY DEF FetchPool, WritesFixed, Matches
<1>3. failures' = failed /\ failed \subseteq options /\ fetched' = options \ failed
  BY <1>1 DEF FetchPool, MayFail
<1>4. WritesShape'
  BY <1>1, <1>2, <1>3 DEF WritesShape, WritesFixed, WriteSteps
<1>5. WrittenIsMeant'
  BY <1>1, <1>2 DEF WrittenIsMeant
<1>6. Matches' # {} /\ options' = WidenTiedPool(Matches)'
  BY <1>1, <1>2 DEF WidenTiedPool, FirstOf, Before, WritesFixed
<1> QED BY <1>2, <1>3, <1>4, <1>5, <1>6 DEF WritesInv, Left

(* Of the pool everybody's score is as the rerank has it, or could not have it. *)
LEMMA DecideKeeps == ASSUME WritesInv, Decide PROVE WritesInv'
<1> DEFINE pool == options
<1>1. /\ WritesShape /\ step = "decide" /\ written = Nobody
      /\ Matches # {} /\ pool = WidenTiedPool(Matches)
      /\ failures \subseteq pool /\ fetched = pool \ failures
  BY DEF Decide, WritesInv, WritesShape
<1>2. WritesFixed /\ UNCHANGED <<failures, fetched, written>> /\ UNCHANGED Matches
  BY DEF Decide, WritesFixed, Matches
<1>3. pool \subseteq Matches /\ Matches \subseteq Known
  BY <1>1 DEF WidenTiedPool, FirstOf, Matches
<1>4. pool # {}
  <2>1. FirstOf(Matches, Fanout, scores) # {}
    BY <1>1, <1>3, SomeAreTaken, ScoresAreNat, NameConstants
  <2> QED BY <1>1, <2>1 DEF WidenTiedPool
<1>5. \A p \in pool : Live[p] = Due[p]
  BY <1>1, <1>3 DEF Live, Due
<1>6. /\ step' \in {"resolved", "ambiguous"} /\ options' \subseteq pool
      /\ step' = "ambiguous" => options' # {}
  <2>1. Ambiguous(pool, Live) # {}
    BY <1>1, <1>3, <1>4, AmbiguousAreSome, ScoresAreNat
  <2> QED BY <2>1 DEF Decide, Ambiguous, FirstOf, TruncateLongTail
<1>7. WritesShape'
  BY <1>1, <1>2, <1>3, <1>6 DEF WritesShape, WritesFixed, WriteSteps
<1>8. WrittenIsMeant'
  BY <1>1, <1>2 DEF WrittenIsMeant
<1>9. ExcusesLast'
  BY <1>1, <1>2, <1>6 DEF ExcusesLast
<1>10. ASSUME NEW w \in options' \ {meant}, meant \notin options' PROVE Excused(w)
  <2>1. w \in pool /\ w \in Matches /\ w \in Known
    BY <1>3, <1>6, <1>10
  <2>2. CASE meant \notin Matches
    BY <1>1, <2>1, <2>2, UnmatchedIsLong DEF Excused
  <2>3. CASE meant \in Matches /\ meant \notin pool
    BY <1>1, <2>3, WidenedTakesTies, ScoresAreNat DEF Excused
  <2>4. CASE meant \in pool
    <3>1. CASE \E p \in pool : Wins(p, pool, Live) /\ options' = {p}
      <4>1. Wins(w, pool, Live)
        BY <1>10, <3>1
      <4>2. Live[w] >= Live[meant] + UniqueGap
        BY <1>10, <2>4, <4>1 DEF Wins
      <4> QED BY <1>5, <2>1, <2>4, <4>2 DEF Excused, Likelier
    <3>2. CASE options' = Ambiguous(pool, Live) /\ meant \notin TruncateLongTail(pool, Live)
      <4>1. PICK q \in pool : ~(100 * Live[meant] >= TruncationRatio * Live[q])
        BY <2>4, <3>2 DEF TruncateLongTail
      <4>2. 100 * Due[meant] < TruncationRatio * Due[q] /\ q \in Known
        <5>1. Due[meant] \in Nat /\ Due[q] \in Nat /\ TruncationRatio \in Nat /\ q \in Known
          BY <1>1, <1>3, <2>4, <4>1, ScoresAreNat, NameConstants
        <5>2. TruncationRatio * Due[q] \in Nat
          BY <5>1
        <5> QED BY <1>5, <2>4, <4>1, <5>1, <5>2
      <4> QED BY <4>2 DEF LongTail, Excused
    <3>3. CASE options' = Ambiguous(pool, Live) /\ meant \in TruncateLongTail(pool, Live)
      <4> DEFINE T == TruncateLongTail(pool, Live)
      <4>1. T \subseteq pool /\ T \subseteq Known
        BY <1>3 DEF TruncateLongTail
      <4>2. meant \notin FirstOf(T, MaxOptions, Live)
        BY <1>10, <3>3 DEF Ambiguous
      <4>3. MaxOptions \in Nat /\ meant \in T
        BY <3>3, NameConstants
      <4>4. Cardinality({q \in T \ {meant} : Live[q] >= Live[meant]}) >= MaxOptions
        <5> HIDE DEF T
        <5> QED BY <1>1, <4>1, <4>2, <4>3, CutAfter, ScoresAreNat
      <4>5. {q \in T \ {meant} : Live[q] >= Live[meant]} \subseteq {q \in Known \ {meant} : Due[q] >= Due[meant]}
        BY <1>5, <2>4, <4>1
      <4>6. Cardinality({q \in Known \ {meant} : Due[q] >= Due[meant]}) >= MaxOptions
        <5> HIDE DEF T
        <5> QED BY <4>1, <4>3, <4>4, <4>5, FewerKnown, KnownAreFinite
      <4> QED BY <4>6 DEF Outranked, Excused
    <3> QED BY <3>1, <3>2, <3>3 DEF Decide
  <2> QED BY <2>2, <2>3, <2>4
<1>11. ASSUME NEW w, Excused(w) PROVE Excused(w)'
  <2>1. Due' = Due
    BY <1>2 DEF Due, WritesFixed
  <2> QED BY <1>2, <1>11, <2>1 DEF Excused, SurelyNamed, Confident, Wins, Likelier, LongTail, Outside,
             Outranked, WritesFixed
<1>12. OthersExcused'
  BY <1>2, <1>10, <1>11 DEF OthersExcused, WritesFixed
<1> QED BY <1>6, <1>7, <1>8, <1>9, <1>12 DEF WritesInv

(* Those that are left after a fetch are the ones that it did not fail. *)
LEMMA LeftKeeps ==
  ASSUME WritesInv, step \in Left, WritesFixed, UNCHANGED <<fetched, written>>, written = Nobody,
         NEW failed \in SUBSET options, failures' = failures \cup failed,
         options' \subseteq options, meant \in options \ failed => meant \in options',
         step' \in Left \cup {"unavailable", "no combination"},
         step' \in {"ambiguous", "ask"} => options' # {}
  PROVE  WritesInv'
<1>1. WritesShape /\ OthersExcused /\ ExcusesLast
  BY DEF WritesInv
<1>2. WritesShape'
  BY <1>1 DEF WritesShape, WritesFixed, WriteSteps, Left
<1>3. WrittenIsMeant'
  BY DEF WrittenIsMeant
<1>4. ExcusesLast'
  <2>1. UNCHANGED Matches
    BY DEF Matches, WritesFixed
  <2> QED BY <1>1, <2>1 DEF ExcusesLast, SurelyNamed, Confident, Wins, WritesFixed
<1>5. ASSUME NEW w \in options' \ {meant}, meant \notin options' PROVE Excused(w)'
  <2>1. CASE meant \in failed
    BY <2>1 DEF Excused, WritesFixed
  <2>2. CASE meant \notin failed
    <3>1. Excused(w)
      BY <1>1, <1>5, <2>2 DEF OthersExcused
    <3> QED BY <1>1, <1>5, <3>1, ExcusesStay DEF WritesFixed
  <2> QED BY <2>1, <2>2
<1>6. OthersExcused'
  BY <1>5 DEF OthersExcused, WritesFixed
<1> QED BY <1>2, <1>3, <1>4, <1>6 DEF WritesInv, Left

LEMMA HydrateKeeps ==
  ASSUME WritesInv, NEW failed \in SUBSET Known,
         HydrateResolved(failed) \/ HydrateOptions(failed) \/ HydrateNoted(failed) \/ HydrateInterviewed(failed)
  PROVE  WritesInv'
<1>1. /\ step \in {"resolved", "ambiguous"} /\ WritesFixed /\ UNCHANGED <<fetched, written>>
      /\ failed \subseteq options /\ failures' = failures \cup failed
      /\ options' \subseteq options /\ (meant \in options \ failed => meant \in options')
      /\ step' \in {"narrow", "unavailable"}
  BY DEF HydrateResolved, HydrateOptions, HydrateNoted, HydrateInterviewed, Hydrate, Hydrated, MayFail, WritesFixed
<1>2. written = Nobody /\ step \in Left
  BY <1>1 DEF WritesInv, WritesShape, Left
<1> QED BY <1>1, <1>2, LeftKeeps DEF Left

LEMMA UnhydratedKeep ==
  ASSUME WritesInv, TakeNoted \/ TakeInterviewed \/ DoesNotWrite
  PROVE  WritesInv'
<1>1. /\ step \in {"resolved", "ambiguous", "narrow"} /\ WritesFixed /\ UNCHANGED <<fetched, failures, written>>
      /\ step' \in {"narrow", "no combination", "ask"}
      /\ options' = options \/ options' = Survivors
      /\ step' = "ask" => options' # {}
  BY DEF TakeNoted, TakeInterviewed, WithoutRecords, DoesNotWrite, WritesFixed
<1>2. WritesShape /\ written = Nobody /\ step \in Left
  BY <1>1 DEF WritesInv, WritesShape, Left
<1>3. options' \subseteq options /\ (meant \in options => meant \in options')
  BY <1>1, <1>2 DEF Survivors, WritesShape
<1>4. failures' = failures \cup {} /\ {} \in SUBSET options
  BY <1>1
<1> QED BY <1>1, <1>2, <1>3, <1>4, LeftKeeps DEF Left

LEMMA WriteKeeps ==
  ASSUME WritesInv, WriteMove \/ WriteNote \/ WriteInterview
  PROVE  WritesInv'
<1>1. Write
  BY DEF WriteMove, WriteNote, WriteInterview
<1>2. WritesFixed /\ UNCHANGED <<fetched, options, failures>> /\ step = "narrow" /\ step' \in {"written", "unavailable"}
  BY <1>1 DEF Write, WritesFixed
<1>3. WritesShape /\ OthersExcused /\ written = Nobody /\ Nobody \notin Known
  BY <1>2, NameConstants DEF WritesInv, Left, WritesShape, Nobody
<1>4. PICK p \in options : /\ OneLeft(p)
                           /\ \/ written' = p /\ step' = "written"
                              \/ step' = "unavailable" /\ UNCHANGED written
  BY <1>1 DEF Write
<1>5. WritesShape'
  BY <1>2, <1>3, <1>4 DEF WritesShape, WritesFixed, WriteSteps
<1>6. p = meant \/ Excused(p)
  <2>1. meant \in options => meant \in Survivors
    BY <1>3 DEF WritesShape, Survivors
  <2>2. Survivors = {p}
    BY <1>4 DEF OneLeft
  <2> QED BY <1>3, <2>1, <2>2 DEF OthersExcused
<1>7. WrittenIsMeant'
  <2>1. CASE written' = p /\ p # meant
    <3>1. p \in Known \ {meant}
      BY <1>3, <1>4, <2>1 DEF WritesShape
    <3>2. \/ Likelier(p, meant, scores) /\ scores[p] >= AutoFloor
          \/ Likelier(p, meant, Due)
          \/ meant \in failures
          \/ LongTail(meant) \/ Outside(meant) \/ Outranked(meant)
      BY <1>3, <1>6, <2>1, <3>1, ExcusedIsAllowed
    <3>3. Due' = Due
      BY <1>2 DEF Due, WritesFixed
    <3> QED BY <1>2, <2>1, <3>2, <3>3 DEF WrittenIsMeant, Likelier, LongTail, Outside, Outranked, WritesFixed
  <2>2. CASE written' = meant \/ UNCHANGED written
    BY <1>2, <1>3, <2>2 DEF WrittenIsMeant, WritesFixed
  <2> QED BY <1>4, <2>1, <2>2
<1> QED BY <1>2, <1>5, <1>7 DEF WritesInv, Left

LEMMA PicksKeep == ASSUME WritesInv, Picks PROVE WritesInv'
<1>1. /\ WritesFixed /\ UNCHANGED <<fetched, options, failures>> /\ step' \in {"written", "unavailable"}
      /\ \/ written' = meant /\ step' = "written"
         \/ step' = "unavailable" /\ UNCHANGED written
  BY DEF Picks, WritesFixed
<1>2. WritesShape /\ written = Nobody /\ Nobody \notin Known
  BY NameConstants DEF Picks, WritesInv, WritesShape, Nobody
<1>3. WritesShape'
  BY <1>1, <1>2 DEF WritesShape, WritesFixed, WriteSteps
<1>4. WrittenIsMeant'
  BY <1>1, <1>2 DEF WrittenIsMeant, WritesFixed
<1> QED BY <1>1, <1>3, <1>4 DEF WritesInv, Left

LEMMA WritesInvNext == ASSUME WritesInv, [WritesNext]_writeVars PROVE WritesInv'
<1>1. CASE UNCHANGED writeVars
  <2>1. /\ UNCHANGED <<meant, scores, boosts, fits, request, step>>
        /\ UNCHANGED <<fetched, options, failures, written>>
    BY <1>1 DEF writeVars
  <2>2. Due' = Due /\ Matches' = Matches
    BY <2>1 DEF Due, Matches
  <2>3. WidenTiedPool(Matches)' = WidenTiedPool(Matches)
    BY <2>1, <2>2 DEF WidenTiedPool, FirstOf, Before
  <2>4. /\ LongTail(meant)' = LongTail(meant) /\ Outside(meant)' = Outside(meant)
        /\ Outranked(meant)' = Outranked(meant)
    BY <2>1, <2>2 DEF LongTail, Outside, Outranked
  <2>5. ASSUME NEW w PROVE SurelyNamed(w)' = SurelyNamed(w) /\ Excused(w)' = Excused(w)
    BY <2>1, <2>2, <2>4 DEF Excused, SurelyNamed, Confident, Wins, Likelier
  <2>6. OthersExcused' = OthersExcused /\ ExcusesLast' = ExcusesLast
    BY <2>1, <2>5 DEF OthersExcused, ExcusesLast
  <2>7. WrittenIsMeant' = WrittenIsMeant
    BY <2>1, <2>2, <2>4 DEF WrittenIsMeant, Likelier
  <2> QED BY <2>1, <2>2, <2>3, <2>6, <2>7 DEF WritesInv, WritesShape
<1>2. ASSUME NEW failed \in SUBSET Known,
             \/ FetchPool(failed) \/ HydrateResolved(failed) \/ HydrateOptions(failed)
             \/ HydrateNoted(failed) \/ HydrateInterviewed(failed)
      PROVE  WritesInv'
  BY <1>2, FetchKeeps, HydrateKeeps
<1> QED BY <1>1, <1>2, ScoresKeep, DecideKeeps, UnhydratedKeep, WriteKeeps, PicksKeep DEF WritesNext

LEMMA WritesInvSays == WritesInv => WritesTypeOK /\ WrittenIsMeant
BY DEF WritesInv, WritesShape, WritesTypeOK

(* For any candidates, scores and limits, whichever fetches fail: another  *)
(* is written to only where the one that is meant was beaten by the gap,   *)
(* failed, or was not among those that the code looks at                   *)
(* (resolvers.js:97-157, candidate-move-stage.js:224-250).                 *)
THEOREM WritesAreMeant == WritesSpec => [](WritesTypeOK /\ WrittenIsMeant)
BY WritesInvInit, WritesInvNext, WritesInvSays, PTL DEF WritesSpec

-----------------------------------------------------------------------------
(***************************************************************************)
(* Other names.  A job that is not looked up has as many others as likely; *)
(* one that is looked up is dropped only by an answer that it is closed.   *)
(***************************************************************************)

NameSteps == {"name", "rerank", "pick", "resolved", "ambiguous", "no match"}

NamesShape ==
    /\ meant \in Known /\ scores \in [Known -> NameScores]
    /\ options \subseteq Known /\ exact \subseteq Known /\ step \in NameSteps
    /\ request \in Jobs => exact = {}

\* The one that is meant has not been dropped without a reason.
MeantIsThere(S) ==
    \/ meant \in S \/ scores[meant] = 0
    \/ request = "an open job" /\ open[meant] = "no"
    \/ request \in Jobs /\ Crowded(meant)

NamesInv ==
    /\ NamesShape
    /\ step = "rerank" => request \in Jobs /\ options = FirstOf(Matches, Fanout, scores)
    /\ step = "pick" => /\ request \in Jobs /\ MeantIsThere(options)
                        /\ \A j \in options : j \in failures \/ request = "a job" \/ open[j] # "no"
    /\ step = "resolved" => Cardinality(options) = 1
    /\ ResolvedIsMeant /\ ClosedIsAsked

LEMMA NamesInvInit == NamesInit => NamesInv
BY DEF NamesInit, NamesInv, NamesShape, NameSteps, Matches, ResolvedIsMeant, ClosedIsAsked, Resolved, Jobs

\* What the names are and what is said of the jobs stays as it is.
NamesFixed == UNCHANGED <<meant, scores, request, open, exact>>

LEMMA MatchesAreThere ==
  ASSUME NamesShape
  PROVE  /\ MeantIsThere(Matches) /\ scores \in Scoring
         /\ meant \notin Matches => scores[meant] = 0
<1>1. NameScores \subseteq Nat
  BY NameConstants
<1>2. scores \in Scoring /\ meant \in Known /\ scores[meant] \in Nat
  BY <1>1 DEF NamesShape, Scoring
<1>3. scores[meant] = 0 \/ scores[meant] > 0
  BY <1>2
<1> QED BY <1>2, <1>3 DEF MeantIsThere, Matches

(* A name is settled on one of the candidates that are left. *)
LEMMA SettlesOn ==
  ASSUME NamesShape, NamesFixed, UNCHANGED failures, NEW j \in Known, step' = "resolved", options' = {j},
         \/ j \in exact
         \/ Confident(j, Matches)
         \/ \E S \in SUBSET Known :
              /\ Wins(j, S, scores) /\ MeantIsThere(S)
              /\ request = "an open job" /\ open[j] = "no" => j \in failures
  PROVE  NamesInv'
<1>1. NamesShape'
  BY DEF NamesShape, NamesFixed, NameSteps
<1>2. Cardinality(options') = 1
  BY FS_Singleton
<1>3. Confident(j, Matches)' = Confident(j, Matches)
  BY DEF NamesFixed, Confident, Wins, Matches
<1>4. Likelier(j, meant, scores)' = Likelier(j, meant, scores) /\ Crowded(meant)' = Crowded(meant)
  BY DEF NamesFixed, Likelier, Crowded
<1>5. CASE j \in exact
  <2>1. request \notin Jobs
    BY <1>5 DEF NamesShape
  <2> QED BY <1>1, <1>2, <1>5, <2>1 DEF NamesInv, ResolvedIsMeant, ClosedIsAsked, Resolved, NamesFixed, Jobs
<1>6. CASE Confident(j, Matches)
  <2>1. meant \in Matches /\ meant # j => Likelier(j, meant, scores)
    BY <1>6 DEF Confident, Wins, Likelier
  <2>2. meant \notin Matches => scores[meant] = 0
    BY MatchesAreThere
  <2> QED BY <1>1, <1>2, <1>3, <1>4, <1>6, <2>1, <2>2 DEF NamesInv, ResolvedIsMeant, ClosedIsAsked, Resolved, NamesFixed
<1>7. ASSUME NEW S \in SUBSET Known, Wins(j, S, scores), MeantIsThere(S),
             request = "an open job" /\ open[j] = "no" => j \in failures
      PROVE  NamesInv'
  <2>1. meant \in S /\ meant # j => Likelier(j, meant, scores)
    BY <1>7 DEF Wins, Likelier
  <2> QED BY <1>1, <1>2, <1>4, <1>7, <2>1
          DEF NamesInv, ResolvedIsMeant, ClosedIsAsked, Resolved, NamesFixed, MeantIsThere
<1> QED BY <1>5, <1>6, <1>7

(* Of no name, or of too many, nothing more is promised. *)
LEMMA SettlesNot ==
  ASSUME NamesShape, NamesFixed, options' \subseteq Known, step' \in {"no match", "ambiguous"}
  PROVE  NamesInv'
BY DEF NamesInv, NamesShape, NamesFixed, NameSteps, ResolvedIsMeant, ClosedIsAsked, Resolved

LEMMA PickedKeeps ==
  ASSUME NamesInv, NEW S \in SUBSET Known, Picked(S), MeantIsThere(S),
         \A j \in S : request = "an open job" /\ open[j] = "no" => j \in failures
  PROVE  NamesInv'
<1>1. NamesShape
  BY DEF NamesInv
<1>2. NamesFixed /\ UNCHANGED failures
  BY DEF Picked, Settles, NamesFixed
<1>3. CASE \E j \in S : Wins(j, S, scores) /\ Settles("resolved", {j})
  BY <1>1, <1>2, <1>3, SettlesOn DEF Settles
<1>4. CASE Settles("no match", {}) \/ Settles("ambiguous", Ambiguous(S, scores))
  <2>1. options' \subseteq Known /\ step' \in {"no match", "ambiguous"}
    BY <1>4 DEF Settles, Ambiguous, FirstOf, TruncateLongTail
  <2> QED BY <1>1, <1>2, <2>1, SettlesNot
<1> QED BY <1>3, <1>4 DEF Picked

LEMMA NamesInvNext == ASSUME NamesInv, [NamesNext]_nameVars PROVE NamesInv'
<1>1. NamesShape /\ Matches \in SUBSET Known
  BY DEF NamesInv, Matches
<1>2. CASE UNCHANGED nameVars
  <2>1. NamesFixed /\ UNCHANGED <<step, options, failures>>
    BY <1>2 DEF nameVars, writeVars, NamesFixed
  <2>2. Matches' = Matches /\ Crowded(meant)' = Crowded(meant)
    BY <2>1 DEF NamesFixed, Matches, Crowded
  <2>3. FirstOf(Matches, Fanout, scores)' = FirstOf(Matches, Fanout, scores)
    BY <2>1, <2>2 DEF FirstOf, Before, NamesFixed
  <2>4. MeantIsThere(options)' = MeantIsThere(options)
    BY <2>1, <2>2 DEF MeantIsThere, NamesFixed
  <2>5. ResolvedIsMeant' = ResolvedIsMeant /\ ClosedIsAsked' = ClosedIsAsked
    BY <2>1, <2>2 DEF ResolvedIsMeant, ClosedIsAsked, Resolved, Likelier, Confident, Wins, NamesFixed
  <2> QED BY <2>1, <2>3, <2>4, <2>5 DEF NamesInv, NamesShape, NamesFixed
<1>3. CASE TakesExact
  <2>1. PICK j \in exact : Settles("resolved", {j})
    BY <1>3 DEF TakesExact
  <2> QED BY <1>1, <2>1, SettlesOn DEF Settles, NamesFixed, NamesShape
<1>4. CASE ScoresFew
  <2>1. request \notin Jobs /\ Picked(Matches)
    BY <1>4 DEF ScoresFew
  <2> QED BY <1>1, <2>1, PickedKeeps, MatchesAreThere DEF Jobs
<1>5. CASE ScoresJobs
  <2>1. request \in Jobs /\ NamesFixed /\ UNCHANGED failures
    BY <1>5 DEF ScoresJobs, Settles, NamesFixed
  <2>2. CASE Settles("no match", {})
    BY <1>1, <2>1, <2>2, SettlesNot DEF Settles
  <2>3. ASSUME NEW j \in Known, Confident(j, Matches), Settles("resolved", {j}) PROVE NamesInv'
    BY <1>1, <2>1, <2>3, SettlesOn DEF Settles
  <2>4. CASE Settles("rerank", FirstOf(Matches, Fanout, scores))
    <3>1. step' = "rerank" /\ options' = FirstOf(Matches, Fanout, scores) /\ options' \subseteq Known
      BY <1>1, <2>4 DEF Settles, FirstOf
    <3>2. FirstOf(Matches, Fanout, scores)' = FirstOf(Matches, Fanout, scores)
      BY <2>1 DEF FirstOf, Before, NamesFixed, Matches
    <3> QED BY <1>1, <2>1, <3>1, <3>2
            DEF NamesInv, NamesShape, NameSteps, NamesFixed, ResolvedIsMeant, ClosedIsAsked, Resolved
  <2> QED BY <1>5, <2>2, <2>3, <2>4 DEF ScoresJobs
<1>6. CASE Picks2
  <2>1. options \in SUBSET Known /\ Picked(options) /\ MeantIsThere(options)
    BY <1>6 DEF Picks2, NamesInv, NamesShape
  <2>2. \A j \in options : request = "an open job" /\ open[j] = "no" => j \in failures
    BY <1>6 DEF Picks2, NamesInv
  <2> QED BY <2>1, <2>2, PickedKeeps
<1>7. ASSUME NEW failed \in SUBSET Known, LooksUp(failed) PROVE NamesInv'
  <2>1. request \in Jobs /\ options = FirstOf(Matches, Fanout, scores)
    BY <1>7 DEF LooksUp, NamesInv
  <2>2. NamesFixed /\ step' = "pick" /\ options' = {j \in options : Stays(j, failed)} /\ failed \subseteq failures'
    BY <1>7 DEF LooksUp, NamesFixed, MayFail
  <2>3. MeantIsThere(options')
    <3>1. CASE meant \in options
      BY <2>1, <2>2, <3>1 DEF MeantIsThere, Stays, Jobs
    <3>2. CASE meant \in Matches /\ meant \notin options
      <4>1. Cardinality({o \in Matches \ {meant} : scores[o] >= scores[meant]}) >= Fanout
        BY <1>1, <2>1, <3>2, CutAfter, MatchesAreThere, NameConstants
      <4>2. {o \in Matches \ {meant} : scores[o] >= scores[meant]} \subseteq
              {o \in Known \ {meant} : scores[o] >= scores[meant]}
        BY <1>1
      <4>3. Crowded(meant)
        BY <4>1, <4>2, FewerKnown, KnownAreFinite, NameConstants DEF Crowded
      <4> QED BY <2>1, <4>3 DEF MeantIsThere
    <3>3. CASE meant \notin Matches
      BY <1>1, <3>3, MatchesAreThere DEF MeantIsThere
    <3> QED BY <3>1, <3>2, <3>3
  <2>4. \A j \in options' : j \in failures' \/ request' = "a job" \/ open'[j] # "no"
    BY <2>2 DEF Stays, NamesFixed
  <2>5. Crowded(meant)' = Crowded(meant)
    BY <2>2 DEF Crowded, NamesFixed
  <2>6. MeantIsThere(options)'
    BY <2>2, <2>3, <2>5 DEF MeantIsThere, NamesFixed
  <2> QED BY <1>1, <2>1, <2>2, <2>4, <2>6
          DEF NamesInv, NamesShape, NameSteps, NamesFixed, ResolvedIsMeant, ClosedIsAsked, Resolved
<1> QED BY <1>2, <1>3, <1>4, <1>5, <1>6, <1>7 DEF NamesNext

LEMMA NamesInvSays == NamesInv => NamesTypeOK /\ ResolvedIsMeant /\ ClosedIsAsked
BY DEF NamesInv, NamesShape, NameSteps, NamesTypeOK

(* For any jobs, stages and users: a name is resolved to another than the  *)
(* one that is meant only where that one lost by the gap, was closed or    *)
(* was one of too many; and to a closed job only where RF was not heard    *)
(* (resolvers.js:355-487, live-rerank.js:118-167).                         *)
THEOREM NamesAreMeant == NamesSpec => [](NamesTypeOK /\ ResolvedIsMeant /\ ClosedIsAsked)
BY NamesInvInit, NamesInvNext, NamesInvSays, PTL DEF NamesSpec

-----------------------------------------------------------------------------
(***************************************************************************)
(* The search.  What an isolate holds are the rows of a commit no earlier  *)
(* than its cursor, so it has all that the cursor has passed; the filters  *)
(* in force are those applied, until RF fails; and the names that go to RF *)
(* are all that match, or fill the pool.                                   *)
(***************************************************************************)

Commits == [rows : SUBSET Searched, cursor : Nat]
Searches ==
    [step : {"fields", "snapshot", "load", "scan", "rf", "refused", "answered"},
     query : BOOLEAN, filters : SUBSET Filters, applied : SUBSET Filters, warning : Warnings,
     at : Nat, rows : SUBSET Searched, shown : SUBSET Searched]

DatabaseInv ==
    /\ d1 \in Seq(Commits) /\ d1 # <<>>
    /\ \A i, j \in DOMAIN d1 : i <= j => d1[i].rows \subseteq d1[j].rows

\* Rows read no earlier than the cursor.
TrueTo(h) == \E i, j \in DOMAIN d1 : i <= j /\ h = Snapshot(i, j)

HeldInv == held = {} \/ \E h : held = {h} /\ TrueTo(h)

\* The candidates that a search knows of.
KnownTo(s) == IF s.at = 0 THEN Searched ELSE Passed(d1[s.at].cursor)

Named(c, s) == s.query => NameScore(c) > 0
\* Of those in the cache, a search of names may show some.
Suits(c, s) == Named(c, s) /\ ("linkedin" \in s.applied => c \in Linked)

Overfull == Cardinality({c \in Searched : NameScore(c) > 0}) > PoolLimit

\* Filters are settled, and RF has not failed.
FiltersSettled == {"snapshot", "load", "scan", "rf"}

StepInv(s) ==
    /\ s.at \in 0 .. Len(d1) /\ s.applied \subseteq s.filters
    /\ s.step = "fields" => s.applied = s.filters /\ s.warning = "none"
    /\ s.step \in {"fields", "snapshot"} => s.at = 0
    /\ s.step \in FiltersSettled => s.applied = InForce(s) /\ s.warning # "filter_unverified"
    /\ s.step \in {"snapshot", "load", "scan"} => s.query \/ ~NeedsRF(s.applied)
    /\ s.step \in {"fields", "snapshot", "load", "scan"} => s.shown = {}
    /\ s.step \in {"load", "scan"} => s.at # 0
    /\ s.step = "scan" => KnownTo(s) \subseteq s.rows
    /\ s.step = "rf" => NeedsRF(s.applied)
    /\ s.step = "rf" /\ ~s.query => s.at = 0 /\ s.shown = {}
    /\ s.step = "rf" /\ s.query =>
         /\ \A c \in s.shown : Suits(c, s)
         /\ {c \in KnownTo(s) : Suits(c, s)} \subseteq s.shown \/ Overfull

\* What ShownIsAsked says of an answer.
ShownRight(s) ==
    /\ \A c \in s.shown : Holds(c, InForce(s)) /\ Named(c, s)
    /\ \/ {c \in KnownTo(s) : Named(c, s) /\ Holds(c, InForce(s))} \subseteq s.shown
       \/ Cardinality(s.shown) = Limit
       \/ s.warning = "filter_unverified" /\ ~s.query
       \/ Overfull /\ NeedsRF(s.applied)

SearchInv ==
    /\ meets \in [Searched -> SUBSET Mutable] /\ hasField \in BOOLEAN
    /\ DatabaseInv /\ HeldInv
    /\ \/ search = NoSearch
       \/ search \in Searches /\ StepInv(search) /\ (search.step = "answered" => ShownRight(search))

\* The commit of D that moved the cursor to c.
Passes(D, k, c) == k \in DOMAIN D /\ D[k].cursor = c /\ \A n \in 1 .. k - 1 : D[n].cursor # c

(* There is at most one.                                                   *)
LEMMA OnePasses ==
  ASSUME NEW D \in Seq(Commits), NEW c, NEW k, Passes(D, k, c)
  PROVE  (CHOOSE i \in DOMAIN D : D[i].cursor = c /\ \A n \in 1 .. i - 1 : D[n].cursor # c) = k
<1> DEFINE first(i) == D[i].cursor = c /\ \A n \in 1 .. i - 1 : D[n].cursor # c
<1>1. DOMAIN D = 1 .. Len(D) /\ Len(D) \in Nat
  OBVIOUS
<1>2. k \in DOMAIN D /\ first(k)
  BY DEF Passes
<1>3. ASSUME NEW n \in DOMAIN D, first(n), n # k PROVE FALSE
  <2>1. n < k \/ k < n
    BY <1>1, <1>2, <1>3
  <2> QED BY <1>1, <1>2, <1>3, <2>1
<1>4. (CHOOSE i \in DOMAIN D : first(i)) = k
  <2> HIDE DEF first
  <2> QED BY <1>2, <1>3
<1> QED BY <1>4

(* There is one, at the latest the one that has the cursor.                *)
LEMMA SomePasses ==
  ASSUME NEW D \in Seq(Commits), NEW i \in DOMAIN D
  PROVE  \E k \in 1 .. i : Passes(D, k, D[i].cursor)
<1>1. DOMAIN D = 1 .. Len(D) /\ Len(D) \in Nat
  OBVIOUS
<1> DEFINE same == {k \in DOMAIN D : D[k].cursor = D[i].cursor}
<1>2. PICK k \in same : \A n \in same : k <= n
  <2>1. same \subseteq Nat /\ same # {}
    BY <1>1
  <2> HIDE DEF same
  <2> QED BY <2>1, FirstExists
<1>3. k \in 1 .. i /\ Passes(D, k, D[i].cursor)
  BY <1>1, <1>2 DEF Passes
<1> QED BY <1>3

(* What a cursor has passed was there before any commit that has it.       *)
LEMMA PassedIsThere ==
  ASSUME DatabaseInv, NEW i \in DOMAIN d1
  PROVE  Passed(d1[i].cursor) \subseteq d1[i].rows /\ Passed(d1[i].cursor) \subseteq Searched
<1>1. d1 \in Seq(Commits) /\ DOMAIN d1 = 1 .. Len(d1) /\ d1[i] \in Commits
  BY DEF DatabaseInv
<1>2. PICK k \in 1 .. i : Passes(d1, k, d1[i].cursor)
  BY <1>1, SomePasses
<1>3. Passed(d1[i].cursor) = d1[k].rows
  BY <1>1, <1>2, OnePasses DEF Passed
<1>4. d1[k].rows \subseteq d1[i].rows
  BY <1>2 DEF DatabaseInv, Passes
<1> QED BY <1>1, <1>3, <1>4 DEF Commits

(* A commit leaves what was passed as it is. *)
LEMMA PassedStays ==
  ASSUME DatabaseInv, NEW e \in Commits, d1' = Append(d1, e), LastCommit.rows \subseteq e.rows
  PROVE  /\ DatabaseInv' /\ Len(d1') = Len(d1) + 1
         /\ DOMAIN d1 \subseteq DOMAIN d1' /\ \A i \in DOMAIN d1 : d1'[i] = d1[i]
         /\ \A i \in DOMAIN d1 : Passed(d1[i].cursor)' = Passed(d1[i].cursor)
<1>1. Len(d1) \in Nat \ {0} /\ DOMAIN d1 = 1 .. Len(d1) /\ \A k \in DOMAIN d1 : d1[k] \in Commits
  BY DEF DatabaseInv
<1>2. /\ d1' \in Seq(Commits) /\ d1' # <<>> /\ Len(d1') = Len(d1) + 1 /\ DOMAIN d1' = 1 .. Len(d1) + 1
      /\ d1'[Len(d1) + 1] = e /\ \A i \in DOMAIN d1 : d1'[i] = d1[i]
  BY <1>1 DEF DatabaseInv
<1>3. \A i \in DOMAIN d1 : d1[i].rows \subseteq e.rows
  BY <1>1 DEF DatabaseInv, LastCommit
<1>4. DatabaseInv'
  <2> SUFFICES ASSUME NEW i \in DOMAIN d1', NEW j \in DOMAIN d1', i <= j PROVE d1'[i].rows \subseteq d1'[j].rows
    BY <1>2 DEF DatabaseInv
  <2>1. CASE j \in DOMAIN d1
    BY <1>1, <1>2, <2>1 DEF DatabaseInv
  <2>2. CASE j = Len(d1) + 1
    <3>1. i \in DOMAIN d1 \/ i = Len(d1) + 1
      BY <1>1, <1>2
    <3> QED BY <1>1, <1>2, <1>3, <2>2, <3>1
  <2> QED BY <1>1, <1>2, <2>1, <2>2
<1>5. ASSUME NEW i \in DOMAIN d1 PROVE Passed(d1[i].cursor)' = Passed(d1[i].cursor)
  <2>1. PICK k \in 1 .. i : Passes(d1, k, d1[i].cursor)
    BY SomePasses DEF DatabaseInv
  <2>2. i \in DOMAIN d1' /\ d1'[i] = d1[i] /\ k \in DOMAIN d1' /\ d1'[k] = d1[k]
    BY <1>1, <1>2, <2>1 DEF Passes
  <2>3. Passes(d1', k, d1'[i].cursor)
    BY <1>1, <1>2, <2>1, <2>2 DEF Passes
  <2>4. Passed(d1[i].cursor)' = d1'[k].rows
    BY <1>2, <2>3, OnePasses DEF Passed
  <2>5. Passed(d1[i].cursor) = d1[k].rows
    BY <2>1, OnePasses DEF Passed, DatabaseInv
  <2> QED BY <2>2, <2>4, <2>5
<1> QED BY <1>1, <1>2, <1>4, <1>5

LEMMA SearchInvInit == SearchInit => SearchInv
<1> SUFFICES ASSUME SearchInit PROVE SearchInv
  OBVIOUS
<1>1. [rows |-> InitialRows, cursor |-> 0] \in Commits
  BY SearchConstants DEF Commits
<1>2. d1 \in Seq(Commits) /\ d1 # <<>> /\ DOMAIN d1 = {1}
  BY <1>1 DEF SearchInit
<1>3. DatabaseInv
  BY <1>2 DEF DatabaseInv
<1> QED BY <1>3, SearchConstants DEF SearchInit, SearchInv, HeldInv

(* What a search knows of stays while others move the database.            *)
LEMMA CommitKeeps ==
  ASSUME SearchInv, NEW e \in Commits, d1' = Append(d1, e), LastCommit.rows \subseteq e.rows,
         UNCHANGED <<meets, hasField, held, search>>
  PROVE  SearchInv'
<1>1. DatabaseInv /\ HeldInv /\ Len(d1) \in Nat /\ DOMAIN d1 = 1 .. Len(d1)
  BY DEF SearchInv, DatabaseInv
<1>2. /\ DatabaseInv' /\ Len(d1') = Len(d1) + 1
      /\ DOMAIN d1 \subseteq DOMAIN d1' /\ \A i \in DOMAIN d1 : d1'[i] = d1[i]
      /\ \A i \in DOMAIN d1 : Passed(d1[i].cursor)' = Passed(d1[i].cursor)
  BY <1>1, PassedStays
<1>3. ASSUME NEW h, TrueTo(h) PROVE TrueTo(h)'
  <2>1. PICK i, j \in DOMAIN d1 : i <= j /\ h = Snapshot(i, j)
    BY <1>3 DEF TrueTo
  <2>2. Snapshot(i, j)' = Snapshot(i, j) /\ i \in DOMAIN d1' /\ j \in DOMAIN d1'
    BY <1>2 DEF Snapshot
  <2> QED BY <2>1, <2>2 DEF TrueTo
<1>4. HeldInv'
  BY <1>1, <1>3 DEF HeldInv
<1>5. CASE search = NoSearch
  BY <1>2, <1>4, <1>5 DEF SearchInv
<1>6. CASE search \in Searches /\ StepInv(search) /\ (search.step = "answered" => ShownRight(search))
  <2>1. search.at \in 0 .. Len(d1)
    BY <1>6 DEF StepInv
  <2>2. KnownTo(search)' = KnownTo(search)
    <3>1. search.at = 0 \/ search.at \in DOMAIN d1
      BY <1>1, <2>1
    <3>2. CASE search.at = 0
      BY <3>2 DEF KnownTo
    <3>3. CASE search.at \in DOMAIN d1
      <4>1. Passed(d1[search.at].cursor)' = Passed(d1[search.at].cursor)
        BY <1>2, <3>3
      <4> QED BY <4>1 DEF KnownTo
    <3> QED BY <3>1, <3>2, <3>3
  <2>3. InForce(search)' = InForce(search)
    BY DEF InForce
  <2>4. \A c : \A f : Holds(c, f)' = Holds(c, f)
    BY DEF Holds
  <2>5. search.at \in 0 .. Len(d1')
    BY <1>1, <1>2, <2>1
  <2>6. StepInv(search)'
    BY <1>6, <2>2, <2>3, <2>5 DEF StepInv, Suits, Named
  <2>7. search.step = "answered" => ShownRight(search)'
    BY <1>6, <2>2, <2>3, <2>4 DEF ShownRight, Named
  <2> QED BY <1>2, <1>4, <1>6, <2>6, <2>7 DEF SearchInv
<1> QED BY <1>5, <1>6 DEF SearchInv

(* A search goes from step to step while the rest stands still.            *)
LEMMA SearchGoes ==
  ASSUME SearchInv, UNCHANGED <<meets, hasField, d1>>, HeldInv',
         NEW s \in Searches, StepInv(s), s.step = "answered" => ShownRight(s), search' = s
  PROVE  SearchInv'
<1>1. \A c : Passed(c)' = Passed(c)
  BY DEF Passed
<1>2. KnownTo(s)' = KnownTo(s) /\ InForce(s)' = InForce(s)
  BY <1>1 DEF KnownTo, InForce
<1>3. \A c, f : Holds(c, f)' = Holds(c, f)
  BY DEF Holds
<1>4. StepInv(s)' = StepInv(s)
  BY <1>2 DEF StepInv, Suits, Named
<1>5. ShownRight(s)' = ShownRight(s)
  BY <1>2, <1>3 DEF ShownRight, Named
<1>6. DatabaseInv' = DatabaseInv
  BY DEF DatabaseInv
<1> QED BY <1>4, <1>5, <1>6 DEF SearchInv

LEMMA HeldStays == ASSUME SearchInv, UNCHANGED <<d1, held>> PROVE HeldInv'
BY DEF SearchInv, HeldInv, TrueTo, Snapshot

LEMMA SearchedAreFinite ==
  ASSUME NEW S, S \subseteq Searched
  PROVE  IsFiniteSet(S) /\ Cardinality(S) \in Nat
BY SearchConstants, FS_Subset, FS_CardinalityType

(* The first n are all, or n.                                              *)
LEMMA TopsAreFull ==
  ASSUME NEW S, S \subseteq Searched, NEW n \in Nat, NEW score, NEW T \in Tops(S, n, score)
  PROVE  T \subseteq S /\ (Cardinality(T) = n \/ (T = S /\ Cardinality(S) < n))
<1>1. T \subseteq S /\ Cardinality(T) = IF Cardinality(S) < n THEN Cardinality(S) ELSE n
  BY DEF Tops
<1>2. CASE Cardinality(S) < n
  BY <1>1, <1>2, SearchedAreFinite, FS_Subset
<1> QED BY <1>1, <1>2

(* A pool has all that match, or as many as were asked for and more match. *)
LEMMA PoolsAreFull ==
  ASSUME Scanned \subseteq Searched, NEW n \in Nat, NEW pool \in Pools(n)
  PROVE  pool \subseteq Scanned /\ (pool = Scanned \/ (Cardinality(pool) >= n /\ Cardinality(Scanned) > n))
<1>1. PICK T \in Tops(Scanned, n, ByName) : pool \in Widened(Scanned, T)
  BY DEF Pools
<1>2. T \subseteq pool /\ pool \subseteq Scanned
  BY <1>1 DEF Widened
<1>3. T \subseteq Scanned /\ (Cardinality(T) = n \/ T = Scanned)
  BY <1>1, TopsAreFull
<1>4. CASE pool # Scanned /\ Cardinality(T) = n
  <2>1. Cardinality(T) <= Cardinality(pool) /\ Cardinality(pool) <= Cardinality(Scanned)
    BY <1>2, SearchedAreFinite, FS_Subset
  <2>2. Cardinality(pool) # Cardinality(Scanned)
    BY <1>2, <1>4, SearchedAreFinite, FS_Subset
  <2>3. /\ Cardinality(T) \in Nat /\ Cardinality(pool) \in Nat /\ Cardinality(Scanned) \in Nat
    BY <1>2, SearchedAreFinite
  <2> QED BY <1>2, <1>4, <2>1, <2>2, <2>3
<1> QED BY <1>2, <1>3, <1>4

(* Where a search goes once its filters are settled.                       *)
LEMMA RoutedIsRight ==
  ASSUME SearchInv, NEW s \in Searches, s.at = 0, s.shown = {}, s.applied = InForce(s),
         s.applied \subseteq s.filters, s.warning # "filter_unverified"
  PROVE  Routed(s) \in Searches /\ StepInv(Routed(s)) /\ Routed(s).step # "answered"
<1> DEFINE to == IF s.query \/ (~NeedsRF(s.applied) /\ s.applied # {}) THEN "snapshot"
                 ELSE IF NeedsRF(s.applied) THEN "rf" ELSE "refused"
<1>1. Routed(s) = [s EXCEPT !.step = to]
  BY DEF Routed
<1>2. to \in {"snapshot", "rf", "refused"}
  OBVIOUS
<1>3. /\ Routed(s) \in Searches /\ Routed(s).step = to
      /\ Routed(s).query = s.query /\ Routed(s).filters = s.filters /\ Routed(s).applied = s.applied
      /\ Routed(s).warning = s.warning /\ Routed(s).at = s.at /\ Routed(s).shown = s.shown
  BY <1>1, <1>2 DEF Searches
<1>4. InForce(Routed(s)) = InForce(s)
  BY <1>3 DEF InForce
<1>5. Len(d1) \in Nat
  BY DEF SearchInv, DatabaseInv
<1>6. to = "snapshot" => s.query \/ ~NeedsRF(s.applied)
  OBVIOUS
<1>7. to = "rf" => NeedsRF(s.applied) /\ ~s.query
  OBVIOUS
<1> HIDE DEF to
<1> QED BY <1>2, <1>3, <1>4, <1>5, <1>6, <1>7 DEF StepInv

LEMMA Refuses ==
  ASSUME SearchInv, NEW x \in Searches, StepInv(x)
  PROVE  LET s == [x EXCEPT !.step = "refused"]
         IN  s \in Searches /\ StepInv(s) /\ s.step # "answered"
<1> DEFINE s == [x EXCEPT !.step = "refused"]
<1>1. s \in Searches /\ s.step = "refused" /\ s.at = x.at /\ s.applied = x.applied /\ s.filters = x.filters
  BY DEF Searches
<1> HIDE DEF s
<1>2. StepInv(s)
  BY <1>1 DEF StepInv, FiltersSettled
<1> QED BY <1>1, <1>2 DEF s

(* A search that is on is one of Searches.                                 *)
LEMMA SearchIsOn ==
  ASSUME SearchInv, NEW x \in {"fields", "snapshot", "load", "scan", "rf"}, At(x)
  PROVE  /\ search \in Searches /\ StepInv(search) /\ search.step = x /\ UNCHANGED <<meets, hasField, d1>>
         /\ DatabaseInv /\ HeldInv /\ hasField \in BOOLEAN
         /\ DOMAIN d1 = 1 .. Len(d1) /\ Len(d1) \in Nat
<1>1. search # NoSearch
  BY DEF At, NoSearch
<1> QED BY <1>1 DEF SearchInv, At, DatabaseInv

LEMMA FieldsKeep ==
  ASSUME SearchInv, NoField \/ FieldFound \/ FieldAmbiguous \/ FieldsUnavailable \/ RateLimited
  PROVE  SearchInv'
<1>1. At("fields") \/ At("rf")
  BY DEF NoField, FieldFound, FieldAmbiguous, FieldsUnavailable, RateLimited
<1>2. search \in Searches /\ StepInv(search) /\ UNCHANGED <<meets, hasField, d1>> /\ hasField \in BOOLEAN
  BY <1>1, SearchIsOn
<1>3. UNCHANGED held
  BY DEF NoField, FieldFound, FieldAmbiguous, FieldsUnavailable, RateLimited, Goes
<1>4. HeldInv'
  BY <1>2, <1>3, HeldStays
<1>5. CASE FieldAmbiguous \/ RateLimited
  <2>1. search' = [search EXCEPT !.step = "refused"]
    BY <1>5 DEF FieldAmbiguous, RateLimited, Goes
  <2> QED BY <1>2, <1>4, <2>1, Refuses, SearchGoes
<1>6. ASSUME At("fields"),
             NEW s \in Searches, s.query = search.query, s.filters = search.filters, s.at = search.at,
             s.shown = search.shown, s.applied = InForce(s), s.warning # "filter_unverified",
             s.applied \subseteq s.filters, search' = Routed(s)
      PROVE  SearchInv'
  <2>1. s.at = 0 /\ s.shown = {}
    BY <1>2, <1>6, SearchIsOn DEF StepInv
  <2>2. Routed(s) \in Searches /\ StepInv(Routed(s)) /\ Routed(s).step # "answered"
    BY <1>6, <2>1, RoutedIsRight
  <2> QED BY <1>2, <1>4, <1>6, <2>2, SearchGoes
<1>7. ASSUME At("fields") PROVE search.applied = search.filters /\ search.warning = "none"
  BY <1>7, SearchIsOn DEF StepInv
<1>8. CASE NoField
  <2>1. At("fields") /\ "technology" \notin search.filters /\ search' = Routed(search)
    BY <1>8 DEF NoField, Goes
  <2>2. search.applied = InForce(search)
    BY <1>7, <2>1 DEF InForce
  <2> QED BY <1>2, <1>6, <1>7, <2>1, <2>2
<1>9. CASE FieldFound
  <2> DEFINE s == [search EXCEPT !.applied = IF hasField THEN @ ELSE @ \ {"technology"}]
  <2>1. At("fields") /\ search' = Routed(s)
    BY <1>9 DEF FieldFound, Goes
  <2>2. /\ s \in Searches /\ s.query = search.query /\ s.filters = search.filters /\ s.at = search.at
        /\ s.shown = search.shown /\ s.warning = search.warning
        /\ s.applied = IF hasField THEN search.applied ELSE search.applied \ {"technology"}
    BY <1>2 DEF Searches
  <2> HIDE DEF s
  <2>3. s.applied = InForce(s) /\ s.applied \subseteq s.filters
    BY <1>7, <2>1, <2>2 DEF InForce
  <2> QED BY <1>6, <1>7, <2>1, <2>2, <2>3
<1>10. CASE FieldsUnavailable
  <2> DEFINE s == [search EXCEPT !.applied = @ \ {"technology"}, !.warning = "custom_field_map_unavailable"]
  <2>1. At("fields") /\ search' = Routed(s)
    BY <1>10 DEF FieldsUnavailable, Goes
  <2>2. /\ s \in Searches /\ s.query = search.query /\ s.filters = search.filters /\ s.at = search.at
        /\ s.shown = search.shown /\ s.warning = "custom_field_map_unavailable"
        /\ s.applied = search.applied \ {"technology"}
    BY <1>2 DEF Searches, Warnings
  <2> HIDE DEF s
  <2>3. s.applied = InForce(s) /\ s.applied \subseteq s.filters
    BY <1>7, <2>1, <2>2 DEF InForce
  <2> QED BY <1>6, <2>1, <2>2, <2>3
<1> QED BY <1>5, <1>8, <1>9, <1>10

(* What is held with the cursor has all that the cursor has passed.        *)
LEMMA HeldHasPassed ==
  ASSUME DatabaseInv, NEW h, TrueTo(h), NEW i \in DOMAIN d1, h.cursor = d1[i].cursor
  PROVE  Passed(d1[i].cursor) \subseteq h.rows /\ h.rows \subseteq Searched
<1>1. PICK a, b \in DOMAIN d1 : a <= b /\ h = Snapshot(a, b)
  BY DEF TrueTo
<1>2. h.rows = d1[b].rows /\ h.cursor = d1[a].cursor
  BY <1>1 DEF Snapshot
<1>3. Passed(d1[a].cursor) \subseteq d1[a].rows
  BY PassedIsThere
<1>4. d1[a].rows \subseteq d1[b].rows /\ d1[b] \in Commits
  BY <1>1 DEF DatabaseInv
<1> QED BY <1>2, <1>3, <1>4 DEF Commits

LEMMA SnapshotKeeps ==
  ASSUME SearchInv, NEW i \in DOMAIN d1, ReadCursor(i) \/ LoadRows(i)
  PROVE  SearchInv'
<1>1. CASE ReadCursor(i)
  <2>1. At("snapshot")
    BY <1>1 DEF ReadCursor
  <2>2. /\ search \in Searches /\ StepInv(search) /\ search.step = "snapshot" /\ UNCHANGED <<meets, hasField, d1>>
        /\ DatabaseInv /\ HeldInv /\ DOMAIN d1 = 1 .. Len(d1) /\ Len(d1) \in Nat
    BY <2>1, SearchIsOn
  <2>3. HeldInv' /\ i \in Nat
    <3>1. UNCHANGED <<d1, held>>
      BY <1>1, <2>2 DEF ReadCursor, Goes
    <3>2. HeldInv'
      BY <3>1, HeldStays
    <3> QED BY <2>2, <3>2
  <2>4. ASSUME NEW s \in Searches, s.step \in {"scan", "load"}, s.query = search.query, s.filters = search.filters,
               s.applied = search.applied, s.warning = search.warning, s.at = i, s.shown = search.shown,
               s.step = "scan" => Passed(d1[i].cursor) \subseteq s.rows
        PROVE  StepInv(s) /\ s.step # "answered"
    <3>1. InForce(s) = InForce(search)
      BY <2>4 DEF InForce
    <3>2. i # 0 /\ i \in 0 .. Len(d1)
      BY <2>2
    <3>3. KnownTo(s) = Passed(d1[i].cursor)
      BY <2>4, <3>2 DEF KnownTo
    <3> QED BY <2>2, <2>4, <3>1, <3>2, <3>3 DEF StepInv, FiltersSettled
  <2>5. ASSUME NEW h \in held, h.cursor = d1[i].cursor,
               search' = [search EXCEPT !.at = i, !.step = "scan", !.rows = h.rows]
        PROVE  SearchInv'
    <3> DEFINE s == [search EXCEPT !.at = i, !.step = "scan", !.rows = h.rows]
    <3>1. TrueTo(h)
      BY <2>2, <2>5 DEF HeldInv
    <3>2. Passed(d1[i].cursor) \subseteq h.rows /\ h.rows \subseteq Searched
      BY <2>2, <2>5, <3>1, HeldHasPassed
    <3>3. /\ s \in Searches /\ s.step = "scan" /\ s.query = search.query /\ s.filters = search.filters
          /\ s.applied = search.applied /\ s.warning = search.warning /\ s.at = i /\ s.shown = search.shown
          /\ s.rows = h.rows
      BY <2>2, <2>3, <3>2 DEF Searches
    <3>4. search' = s
      BY <2>5
    <3> HIDE DEF s
    <3> QED BY <2>2, <2>3, <2>4, <3>2, <3>3, <3>4, SearchGoes
  <2>6. CASE search' = [search EXCEPT !.at = i, !.step = "load"]
    <3> DEFINE s == [search EXCEPT !.at = i, !.step = "load"]
    <3>1. /\ s \in Searches /\ s.step = "load" /\ s.query = search.query /\ s.filters = search.filters
          /\ s.applied = search.applied /\ s.warning = search.warning /\ s.at = i /\ s.shown = search.shown
      BY <2>2, <2>3 DEF Searches
    <3>2. search' = s
      BY <2>6
    <3> HIDE DEF s
    <3> QED BY <2>2, <2>3, <2>4, <3>1, <3>2, SearchGoes
  <2> QED BY <1>1, <2>5, <2>6 DEF ReadCursor, Goes
<1>2. CASE LoadRows(i)
  <2>1. At("load") /\ i >= search.at /\ held' = {Snapshot(search.at, i)}
    BY <1>2 DEF LoadRows
  <2>2. /\ search \in Searches /\ StepInv(search) /\ search.step = "load" /\ UNCHANGED <<meets, hasField, d1>>
        /\ DatabaseInv /\ DOMAIN d1 = 1 .. Len(d1) /\ Len(d1) \in Nat
    BY <2>1, SearchIsOn
  <2>3. search.at \in DOMAIN d1 /\ search.at # 0
    BY <2>2 DEF StepInv
  <2>4. TrueTo(Snapshot(search.at, i))
    BY <2>1, <2>3 DEF TrueTo
  <2>5. HeldInv'
    BY <2>1, <2>2, <2>4 DEF HeldInv, TrueTo, Snapshot
  <2> DEFINE s == [search EXCEPT !.step = "scan", !.rows = d1[i].rows]
  <2>6. Passed(d1[search.at].cursor) \subseteq d1[i].rows /\ d1[i].rows \subseteq Searched
    <3>1. Passed(d1[search.at].cursor) \subseteq d1[search.at].rows
      BY <2>2, <2>3, PassedIsThere
    <3>2. d1[search.at].rows \subseteq d1[i].rows /\ d1[i] \in Commits
      BY <2>1, <2>2, <2>3 DEF DatabaseInv
    <3> QED BY <3>1, <3>2 DEF Commits
  <2>7. /\ s \in Searches /\ s.step = "scan" /\ s.query = search.query /\ s.filters = search.filters
        /\ s.applied = search.applied /\ s.warning = search.warning /\ s.at = search.at /\ s.shown = search.shown
        /\ s.rows = d1[i].rows
    BY <2>2, <2>6 DEF Searches
  <2>8. search' = s
    BY <1>2 DEF LoadRows
  <2> HIDE DEF s
  <2>9. InForce(s) = InForce(search) /\ KnownTo(s) = Passed(d1[search.at].cursor)
    BY <2>3, <2>7 DEF InForce, KnownTo
  <2>10. StepInv(s)
    BY <2>2, <2>3, <2>6, <2>7, <2>9 DEF StepInv, FiltersSettled
  <2> QED BY <2>2, <2>5, <2>7, <2>8, <2>10, SearchGoes
<1> QED BY <1>1, <1>2

(* Who matches is in the pool, unless it is full.                          *)
LEMMA ScannedMatch ==
  ASSUME SearchInv, search \in Searches, StepInv(search), search.step = "scan"
  PROVE  /\ Scanned \subseteq Searched
         /\ \A c \in Scanned : Suits(c, search)
         /\ {c \in KnownTo(search) : Suits(c, search)} \subseteq Scanned
         /\ search.query /\ Cardinality(Scanned) > PoolLimit => Overfull
<1>1. /\ Scanned \subseteq Searched
      /\ \A c \in Scanned : Suits(c, search)
      /\ {c \in KnownTo(search) : Suits(c, search)} \subseteq Scanned
  BY DEF Scanned, Suits, Named, StepInv, Searches
<1>2. ASSUME search.query, Cardinality(Scanned) > PoolLimit PROVE Overfull
  <2>1. Scanned \subseteq {c \in Searched : NameScore(c) > 0}
    BY <1>1, <1>2 DEF Suits, Named
  <2> DEFINE named == {c \in Searched : NameScore(c) > 0}
  <2>2. Cardinality(Scanned) <= Cardinality(named) /\ Cardinality(named) \in Nat /\ Cardinality(Scanned) \in Nat
    BY <2>1, SearchedAreFinite, FS_Subset
  <2>3. PoolLimit \in Nat
    BY SearchConstants
  <2> HIDE DEF named
  <2>4. Cardinality(named) > PoolLimit
    BY <1>2, <2>2, <2>3
  <2> QED BY <2>4 DEF named, Overfull
<1> QED BY <1>1, <1>2

(* An answer from a search whose warning is settled.                       *)
LEMMA AnswerKeeps ==
  ASSUME SearchInv, search \in Searches, StepInv(search), UNCHANGED <<meets, hasField, d1, held>>,
         NEW s \in Searches, s.query = search.query, s.filters = search.filters, s.applied = search.applied,
         s.at = search.at, NEW shown \in SUBSET Searched, search' = Answer(s, shown),
         \A c \in shown : Holds(c, InForce(s)) /\ Named(c, s),
         \/ {c \in KnownTo(s) : Named(c, s) /\ Holds(c, InForce(s))} \subseteq shown
         \/ Cardinality(shown) = Limit
         \/ s.warning = "filter_unverified" /\ ~s.query
         \/ Overfull /\ NeedsRF(s.applied)
  PROVE  SearchInv'
<1> DEFINE a == Answer(s, shown)
<1>1. /\ a \in Searches /\ a.step = "answered" /\ a.query = s.query /\ a.filters = s.filters
      /\ a.applied = s.applied /\ a.warning = s.warning /\ a.at = s.at /\ a.shown = shown
  BY DEF Answer, Searches
<1> HIDE DEF a
<1>2. InForce(a) = InForce(s) /\ KnownTo(a) = KnownTo(s)
  BY <1>1 DEF InForce, KnownTo
<1>3. StepInv(a)
  BY <1>1 DEF StepInv, FiltersSettled
<1>4. ShownRight(a)
  BY <1>1, <1>2 DEF ShownRight, Named
<1>5. HeldInv' /\ search' = a
  BY HeldStays DEF a
<1> QED BY <1>1, <1>3, <1>4, <1>5, SearchGoes

(* Without filters for RF, those of the cache are all that is asked.       *)
LEMMA HoldsInCache ==
  ASSUME SearchInv, search \in Searches, StepInv(search), search.step = "scan", ~NeedsRF(search.applied), NEW c
  PROVE  Named(c, search) /\ Holds(c, InForce(search)) <=> Suits(c, search)
<1>1. InForce(search) = search.applied /\ search.applied \cap Mutable = {}
  BY DEF StepInv, FiltersSettled, NeedsRF
<1> QED BY <1>1 DEF Holds, Suits

LEMMA ScansKeep ==
  ASSUME SearchInv, (\E warm \in SUBSET Searched : ScanNames(warm)) \/ ScanFilters
  PROVE  SearchInv'
<1>1. At("scan") /\ UNCHANGED held
  BY DEF ScanNames, ScanFilters, Goes
<1>2. /\ search \in Searches /\ StepInv(search) /\ search.step = "scan" /\ UNCHANGED <<meets, hasField, d1>>
  BY <1>1, SearchIsOn
<1>3. /\ Scanned \subseteq Searched /\ \A c \in Scanned : Suits(c, search)
      /\ {c \in KnownTo(search) : Suits(c, search)} \subseteq Scanned
  BY <1>2, ScannedMatch
<1>4. ~NeedsRF(search.applied)
  BY <1>2 DEF ScanNames, ScanFilters, StepInv
<1>5. PICK shown : /\ search' = Answer(search, shown)
                  /\ shown \subseteq Scanned /\ (shown = Scanned \/ Cardinality(shown) = Limit)
  <2>1. Limit \in Nat
    BY SearchConstants
  <2>2. ASSUME NEW warm \in SUBSET Searched, ScanNames(warm)
        PROVE  \E shown : /\ search' = Answer(search, shown)
                          /\ shown \subseteq Scanned /\ (shown = Scanned \/ Cardinality(shown) = Limit)
    <3>1. PICK pool \in Pools(Limit) :
            \E shown \in Tops(pool, Limit, [c \in pool |-> ByName[c] + IF c \in warm THEN Boost ELSE 0]) :
               Goes(Answer(search, shown))
      BY <2>2 DEF ScanNames
    <3>2. PICK shown \in Tops(pool, Limit, [c \in pool |-> ByName[c] + IF c \in warm THEN Boost ELSE 0]) :
             search' = Answer(search, shown)
      BY <3>1 DEF Goes
    <3>3. pool \subseteq Scanned /\ (pool = Scanned \/ (Cardinality(pool) >= Limit /\ Cardinality(Scanned) > Limit))
      BY <1>3, <2>1, PoolsAreFull
    <3>4. shown \subseteq pool /\ (Cardinality(shown) = Limit \/ (shown = pool /\ Cardinality(pool) < Limit))
      BY <1>3, <2>1, <3>3, TopsAreFull
    <3>5. Cardinality(pool) \in Nat
      BY <1>3, <3>3, SearchedAreFinite
    <3>6. shown \subseteq Scanned /\ (shown = Scanned \/ Cardinality(shown) = Limit)
      BY <2>1, <3>3, <3>4, <3>5
    <3> QED BY <3>2, <3>6
  <2>3. ASSUME ScanFilters
        PROVE  \E shown : /\ search' = Answer(search, shown)
                          /\ shown \subseteq Scanned /\ (shown = Scanned \/ Cardinality(shown) = Limit)
    <3>1. PICK shown \in Tops(Scanned, Limit, [c \in Searched |-> c]) : search' = Answer(search, shown)
      BY <2>3 DEF ScanFilters, Goes
    <3>2. shown \subseteq Scanned /\ (shown = Scanned \/ Cardinality(shown) = Limit)
      BY <1>3, <2>1, TopsAreFull
    <3> QED BY <3>1, <3>2
  <2> QED BY <2>2, <2>3
<1>6. shown \in SUBSET Searched
  BY <1>3, <1>5
<1>7. \A c \in shown : Holds(c, InForce(search)) /\ Named(c, search)
  BY <1>2, <1>3, <1>4, <1>5, HoldsInCache
<1>8. \/ {c \in KnownTo(search) : Named(c, search) /\ Holds(c, InForce(search))} \subseteq shown
      \/ Cardinality(shown) = Limit
  BY <1>2, <1>3, <1>4, <1>5, HoldsInCache
<1> QED BY <1>1, <1>2, <1>5, <1>6, <1>7, <1>8, AnswerKeeps

LEMMA ScanForRFKeeps == ASSUME SearchInv, ScanForRF PROVE SearchInv'
<1>1. At("scan") /\ search.query /\ NeedsRF(search.applied)
  BY DEF ScanForRF
<1>2. search \in Searches /\ StepInv(search) /\ search.step = "scan" /\ UNCHANGED <<meets, hasField, d1>>
  BY <1>1, SearchIsOn
<1>3. /\ Scanned \subseteq Searched /\ \A c \in Scanned : Suits(c, search)
      /\ {c \in KnownTo(search) : Suits(c, search)} \subseteq Scanned
      /\ Cardinality(Scanned) > PoolLimit => Overfull
  BY <1>1, <1>2, ScannedMatch
<1>4. UNCHANGED held
  BY DEF ScanForRF, Goes
<1>5. PICK pool \in Pools(PoolLimit) :
         search' = IF pool = {} THEN Answer(search, {}) ELSE [search EXCEPT !.step = "rf", !.shown = pool]
  BY DEF ScanForRF, Goes
<1>6. pool \subseteq Scanned /\ ({c \in KnownTo(search) : Suits(c, search)} \subseteq pool \/ Overfull)
  <2>1. PoolLimit \in Nat
    BY SearchConstants
  <2>2. pool \subseteq Scanned /\ (pool = Scanned \/ Cardinality(Scanned) > PoolLimit)
    BY <1>3, <2>1, PoolsAreFull
  <2> QED BY <1>3, <2>2
<1>7. InForce(search) = search.applied
  BY <1>2 DEF StepInv, FiltersSettled
<1>8. CASE pool = {}
  <2>1. \A c : Named(c, search) /\ Holds(c, InForce(search)) => Suits(c, search)
    BY <1>7 DEF Holds, Suits
  <2>2. \/ {c \in KnownTo(search) : Named(c, search) /\ Holds(c, InForce(search))} \subseteq {}
        \/ Overfull /\ NeedsRF(search.applied)
    BY <1>1, <1>6, <1>8, <2>1
  <2>3. search' = Answer(search, {})
    BY <1>5, <1>8
  <2> QED BY <1>2, <1>4, <2>2, <2>3, AnswerKeeps
<1>9. CASE pool # {}
  <2> DEFINE s == [search EXCEPT !.step = "rf", !.shown = pool]
  <2>1. /\ s \in Searches /\ s.step = "rf" /\ s.query = search.query /\ s.filters = search.filters
        /\ s.applied = search.applied /\ s.warning = search.warning /\ s.at = search.at /\ s.shown = pool
    BY <1>2, <1>3, <1>6 DEF Searches
  <2>2. search' = s
    BY <1>5, <1>9
  <2> HIDE DEF s
  <2>3. InForce(s) = InForce(search) /\ KnownTo(s) = KnownTo(search) /\ \A c : Suits(c, s) <=> Suits(c, search)
    BY <2>1 DEF InForce, KnownTo, Suits, Named
  <2>4. StepInv(s)
    BY <1>1, <1>2, <1>3, <1>6, <2>1, <2>3 DEF StepInv, FiltersSettled
  <2>5. HeldInv'
    BY <1>2, <1>4, HeldStays
  <2> QED BY <1>2, <2>1, <2>2, <2>4, <2>5, SearchGoes
<1> QED BY <1>8, <1>9

(* RF's answer is of all whom it was asked about, or of all it has.        *)
LEMMA FromRFKeeps == ASSUME SearchInv, FromRF PROVE SearchInv'
<1> DEFINE ids == IF search.query THEN search.shown ELSE Searched
<1> DEFINE found == {c \in ids : Holds(c, search.applied)}
<1>1. At("rf") /\ UNCHANGED held
  BY DEF FromRF, Goes
<1>2. search \in Searches /\ StepInv(search) /\ search.step = "rf" /\ UNCHANGED <<meets, hasField, d1>>
  BY <1>1, SearchIsOn
<1>3. PICK shown \in Tops(found, Limit, [c \in found |-> IF search.query THEN ByName[c] ELSE 0]) :
         search' = Answer(search, shown)
  BY DEF FromRF, Goes
<1>4. found \subseteq Searched /\ Limit \in Nat
  BY <1>2, SearchConstants DEF Searches
<1>5. shown \subseteq found /\ (Cardinality(shown) = Limit \/ shown = found)
  <2> HIDE DEF found
  <2> QED BY <1>4, TopsAreFull
<1>6. InForce(search) = search.applied /\ NeedsRF(search.applied)
  BY <1>2 DEF StepInv, FiltersSettled
<1>7. \A c \in found : Holds(c, InForce(search)) /\ Named(c, search)
  BY <1>2, <1>6 DEF StepInv, Suits, Named
<1>8. {c \in KnownTo(search) : Named(c, search) /\ Holds(c, InForce(search))} \subseteq found \/ Overfull
  <2>1. CASE search.query
    <3>1. \A c : Named(c, search) /\ Holds(c, InForce(search)) => Suits(c, search)
      BY <1>6 DEF Holds, Suits
    <3>2. {c \in KnownTo(search) : Suits(c, search)} \subseteq search.shown \/ Overfull
      BY <1>2, <2>1 DEF StepInv
    <3> QED BY <1>6, <2>1, <3>1, <3>2
  <2>2. CASE ~search.query
    <3>1. KnownTo(search) = Searched
      BY <1>2, <2>2 DEF StepInv, KnownTo
    <3> QED BY <1>6, <2>2, <3>1
  <2> QED BY <2>1, <2>2
<1> HIDE DEF found
<1> QED BY <1>1, <1>2, <1>3, <1>4, <1>5, <1>6, <1>7, <1>8, AnswerKeeps

LEMMA RFFailsKeeps == ASSUME SearchInv, RFFails PROVE SearchInv'
<1> DEFINE s == Unverified(search)
<1>1. At("rf") /\ UNCHANGED held
  BY DEF RFFails, Goes
<1>2. search \in Searches /\ StepInv(search) /\ search.step = "rf" /\ UNCHANGED <<meets, hasField, d1>>
  BY <1>1, SearchIsOn
<1>3. PICK shown \in Tops(search.shown, Limit, ByName) : search' = Answer(s, shown)
  BY DEF RFFails, Goes
<1>4. shown \subseteq search.shown /\ (Cardinality(shown) = Limit \/ shown = search.shown) /\ search.shown \subseteq Searched
  <2>1. search.shown \subseteq Searched /\ Limit \in Nat
    BY <1>2, SearchConstants DEF Searches
  <2> QED BY <2>1, TopsAreFull
<1>5. /\ s \in Searches /\ s.query = search.query /\ s.filters = search.filters /\ s.applied = search.applied
      /\ s.warning = "filter_unverified" /\ s.at = search.at
  BY <1>2 DEF Unverified, Searches, Warnings
<1> HIDE DEF s
<1>6. InForce(s) \cap Mutable = {} /\ ("linkedin" \in InForce(s) <=> "linkedin" \in search.applied)
  <2>1. search.applied = InForce(search) /\ search.warning \in {"none", "custom_field_map_unavailable"}
    BY <1>2 DEF StepInv, FiltersSettled, Searches, Warnings
  <2> QED BY <1>5, <2>1 DEF InForce, Mutable
<1>7. \A c : Named(c, s) /\ Holds(c, InForce(s)) <=> Suits(c, search)
  BY <1>5, <1>6 DEF Holds, Suits, Named
<1>8. search.query => \/ {c \in KnownTo(s) : Named(c, s) /\ Holds(c, InForce(s))} \subseteq search.shown
                      \/ Overfull /\ NeedsRF(s.applied)
  <2>1. KnownTo(s) = KnownTo(search)
    BY <1>5 DEF KnownTo
  <2> QED BY <1>2, <1>5, <1>7, <2>1 DEF StepInv
<1>9. \A c \in shown : Holds(c, InForce(s)) /\ Named(c, s)
  <2>1. ~search.query => search.shown = {}
    BY <1>2 DEF StepInv
  <2>2. search.query => \A c \in search.shown : Suits(c, search)
    BY <1>2 DEF StepInv
  <2> QED BY <1>4, <1>7, <2>1, <2>2
<1>10. \/ {c \in KnownTo(s) : Named(c, s) /\ Holds(c, InForce(s))} \subseteq shown
       \/ Cardinality(shown) = Limit
       \/ s.warning = "filter_unverified" /\ ~s.query
       \/ Overfull /\ NeedsRF(s.applied)
  BY <1>4, <1>5, <1>8
<1> QED BY <1>1, <1>2, <1>3, <1>4, <1>5, <1>9, <1>10, AnswerKeeps

LEMMA SearchInvNext == ASSUME SearchInv, [SearchNext]_searchVars PROVE SearchInv'
<1>1. CASE UNCHANGED searchVars
  <2>1. UNCHANGED <<meets, hasField, d1, held, search>>
    BY <1>1 DEF searchVars
  <2>2. HeldInv'
    BY <2>1, HeldStays
  <2>3. CASE search = NoSearch
    BY <2>1, <2>2, <2>3 DEF SearchInv, DatabaseInv
  <2>4. CASE search # NoSearch
    BY <2>1, <2>2, <2>4, SearchGoes DEF SearchInv
  <2> QED BY <2>3, <2>4
<1>2. ASSUME NEW c \in Searched, WriteRow(c) PROVE SearchInv'
  <2> DEFINE e == [LastCommit EXCEPT !.rows = @ \cup {c}]
  <2>1. LastCommit \in Commits
    BY DEF SearchInv, DatabaseInv, LastCommit
  <2>2. e \in Commits /\ LastCommit.rows \subseteq e.rows
    BY <2>1 DEF Commits
  <2>3. d1' = Append(d1, e) /\ UNCHANGED <<meets, hasField, held, search>>
    BY <1>2 DEF WriteRow
  <2> HIDE DEF e
  <2> QED BY <2>2, <2>3, CommitKeeps
<1>3. CASE MoveCursor
  <2> DEFINE e == [LastCommit EXCEPT !.cursor = @ + 1]
  <2>1. LastCommit \in Commits
    BY DEF SearchInv, DatabaseInv, LastCommit
  <2>2. e \in Commits /\ LastCommit.rows \subseteq e.rows
    BY <2>1 DEF Commits
  <2>3. d1' = Append(d1, e) /\ UNCHANGED <<meets, hasField, held, search>>
    BY <1>3 DEF MoveCursor
  <2> HIDE DEF e
  <2> QED BY <2>2, <2>3, CommitKeeps
<1>4. ASSUME NEW i \in DOMAIN d1, NEW j \in i .. Len(d1), OtherLoads(i, j) PROVE SearchInv'
  <2>1. j \in DOMAIN d1 /\ i <= j
    BY <1>4 DEF SearchInv, DatabaseInv
  <2>2. UNCHANGED <<meets, hasField, d1, search>> /\ held' = {Snapshot(i, j)}
    BY <1>4 DEF OtherLoads
  <2>3. HeldInv'
    BY <2>1, <2>2 DEF HeldInv, TrueTo, Snapshot
  <2>4. CASE search = NoSearch
    BY <2>2, <2>3, <2>4 DEF SearchInv, DatabaseInv
  <2>5. CASE search # NoSearch
    BY <2>2, <2>3, <2>5, SearchGoes DEF SearchInv
  <2> QED BY <2>4, <2>5
<1>5. ASSUME NEW query \in BOOLEAN, NEW filters \in SUBSET Filters, Ask(query, filters) PROVE SearchInv'
  <2>1. UNCHANGED <<meets, hasField, d1, held>> /\ search' = Asked(query, filters)
    BY <1>5 DEF Ask
  <2> DEFINE s == Asked(query, filters)
  <2>2. /\ s \in Searches /\ s.step = "fields" /\ s.applied = filters /\ s.filters = filters
        /\ s.warning = "none" /\ s.at = 0 /\ s.shown = {}
    BY DEF Asked, Searches, Warnings
  <2>3. search' = s
    BY <2>1
  <2> HIDE DEF s
  <2>4. StepInv(s)
    BY <2>2 DEF StepInv, FiltersSettled, SearchInv, DatabaseInv
  <2>5. HeldInv'
    BY <2>1, HeldStays
  <2> QED BY <2>1, <2>2, <2>3, <2>4, <2>5, SearchGoes
<1> QED BY <1>1, <1>2, <1>3, <1>4, <1>5, FieldsKeep, SnapshotKeeps, ScansKeep, ScanForRFKeeps, FromRFKeeps,
           RFFailsKeeps DEF SearchNext

LEMMA SearchStays == SearchSpec => []SearchInv
BY SearchInvInit, SearchInvNext, PTL DEF SearchSpec

(* The search, the database and what is held of it are well formed.        *)
THEOREM SearchTyped == SearchSpec => []SearchTypeOK
<1>1. ASSUME SearchInv PROVE SearchTypeOK
  <2>1. \A i \in DOMAIN d1 : d1[i].rows \subseteq Searched
    <3>1. \A i \in DOMAIN d1 : d1[i] \in Commits
      BY <1>1 DEF SearchInv, DatabaseInv
    <3> QED BY <3>1 DEF Commits
  <2>2. Cardinality(held) <= 1
    <3>1. held = {} \/ \E h : held = {h}
      BY <1>1 DEF SearchInv, HeldInv
    <3>2. CASE held = {}
      BY <3>2, FS_EmptySet
    <3>3. ASSUME NEW h, held = {h} PROVE Cardinality(held) <= 1
      <4>1. Cardinality({h}) = 1
        BY FS_Singleton
      <4> QED BY <3>3, <4>1
    <3> QED BY <3>1, <3>2, <3>3
  <2> QED BY <1>1, <2>1, <2>2 DEF SearchInv, SearchTypeOK, Searches, StepInv
<1> QED BY <1>1, SearchStays, PTL

(* For any candidates, pools and limits, however far the replicas lag: an  *)
(* answer shows whom was asked for, up to what its warning says, and       *)
(* leaves out only whom the cursor has not passed or there was no room for *)
(* (candidate-search.js:14-32, snapshot.js:12-16).                         *)
THEOREM ShownAreAsked == SearchSpec => []ShownIsAsked
<1>1. ASSUME SearchInv PROVE ShownIsAsked
  BY <1>1 DEF SearchInv, ShownIsAsked, ShownRight, KnownTo, Named, Overfull, NoSearch
<1> QED BY <1>1, SearchStays, PTL
=============================================================================

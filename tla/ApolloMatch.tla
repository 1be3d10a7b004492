------------------------------ MODULE ApolloMatch ------------------------------
(***************************************************************************)
(* Who is the candidate at Apollo?  enrichCandidate (src/enrichment.js)    *)
(* asks for the LinkedIn profile and verifies the answer; for a stranger   *)
(* it searches, buys the details of a few results one by one, and takes    *)
(* the best of those that pass the gates (src/apollo-client.js); with no   *)
(* answer at all it asks for the name and the organization.  The person's  *)
(* number is then bought, and the LinkedIn profile of a person that was    *)
(* searched for replaces the candidate's in RF and Dialpad.                *)
(***************************************************************************)
EXTENDS Integers, SequencesExt

CONSTANTS
    People,         \* Apollo's, by id
    FirstName(_), LastName(_), Org(_),      \* "": Apollo has none
    Same(_),        \* the fields in which it has what RF has of the candidate
    Stripped(_),    \* a last name without a leading initial
    Letter(_),      \* the first letter of a last name
    IsLetter(_),    \* a last name of one letter only
    Normalized(_),  \* an organization without "inc" and the like
    Profiles,       \* the candidates RF may have, [first, last, org, linkedin, fields]
    SearchCap,      \* results whose details are bought, 5
    MaxResults      \* bound on the search

ASSUME MatchConstants ==
    "no_person" \notin People /\ SearchCap \in Nat /\ MaxResults \in Nat

VARIABLES
    candidate,
    phase,          \* where enrichCandidate is
    results,        \* what is left of the search's results
    scored,         \* those whose details passed, in the order they came
    person,         \* Apollo's person, or NoPerson
    via             \* the lookup that found it

matchVars == <<candidate, phase, results, scored, person, via>>

NoPerson == "no_person"

MatchInit ==
    /\ candidate \in Profiles
    /\ phase = "linkedin"
    /\ results = <<>> /\ scored = <<>>
    /\ person = NoPerson /\ via = "none"

-----------------------------------------------------------------------------
\* apollo-client.js

LastNamesMatch(a, b) == a = b \/ Stripped(a) = Stripped(b)

VerifyApolloMatch(p) ==
    /\ FirstName(p) = candidate.first
    /\ IsLetter(candidate.last) \/ LastNamesMatch(LastName(p), candidate.last)
    /\ Normalized(Org(p)) = Normalized(candidate.org)

\* A search result shows the first letter of the last name only.
FilterSearchResults(found) ==
    LET kept == {i \in DOMAIN found :
                   /\ FirstName(found[i]) = candidate.first
                   /\ IsLetter(candidate.last) => Letter(LastName(found[i])) = Letter(candidate.last)}
        Place(i) == Cardinality(kept \cap 1 .. i)
    IN [k \in 1 .. Min({Cardinality(kept), SearchCap}) |-> found[CHOOSE i \in kept : Place(i) = k]]

Gates(p) ==
    /\ FirstName(p) = candidate.first
    /\ Normalized(Org(p)) # "" /\ Normalized(Org(p)) = Normalized(candidate.org)
    /\ IsLetter(candidate.last) \/ candidate.last = "" \/ LastNamesMatch(LastName(p), candidate.last)

Points == [title |-> 30, state |-> 20, city |-> 10, country |-> 5, education |-> 15]

PointsFor(f, fields) == IF f \in fields THEN Points[f] ELSE 0

Weight(fields) ==
    PointsFor("title", fields) + PointsFor("state", fields) + PointsFor("city", fields)
      + PointsFor("country", fields) + PointsFor("education", fields)

\* In per cent, rounded; the title counts whether RF has one or not.
Confidence(p) ==
    LET max == Weight(candidate.fields \cup {"title"})
        score == Weight(Same(p) \cap candidate.fields)
    IN (200 * score + max) \div (2 * max)

\* Where the sort by confidence puts first: the first of the best.
Best(s, I) == Min({i \in I : \A j \in I : Confidence(s[j]) <= Confidence(s[i])})

\* Mutant: the first of two equals.
Winner_First(s) ==
    IF s = <<>> THEN NoPerson
    ELSE LET top == s[Best(s, DOMAIN s)] IN
         IF Len(s) = 1 \/ Confidence(top) >= 60 THEN top ELSE NoPerson

\* One is enough; of several, the best must be better than the next.
Winner(s) ==
    IF s = <<>> THEN NoPerson
    ELSE LET first == Best(s, DOMAIN s)
             next == Best(s, DOMAIN s \ {first})
         IN CASE Len(s) = 1 -> s[first]
              [] Len(s) > 1 /\ Confidence(s[first]) # Confidence(s[next]) /\ Confidence(s[first]) >= 60
                   -> s[first]
              [] OTHER -> NoPerson

-----------------------------------------------------------------------------
\* enrichCandidate.  A call that fails is one that finds nobody.

Answers == People \cup {NoPerson}

EnrichByLinkedIn(p) ==
    /\ phase = "linkedin"
    /\ ~candidate.linkedin => p = NoPerson
    /\ IF p # NoPerson /\ VerifyApolloMatch(p)
         THEN phase' = "reveal" /\ person' = p /\ via' = "profile"
         ELSE /\ phase' = IF p # NoPerson THEN "search" ELSE "name"
              /\ UNCHANGED <<person, via>>
    /\ UNCHANGED <<candidate, results, scored>>

EnrichByName(p) ==
    /\ phase = "name"
    /\ (candidate.last = "" \/ candidate.org = "") => p = NoPerson
    /\ IF p # NoPerson THEN phase' = "reveal" /\ person' = p /\ via' = "name"
                       ELSE phase' = "nobody" /\ UNCHANGED <<person, via>>
    /\ UNCHANGED <<candidate, results, scored>>

SearchPeople(found) ==
    /\ phase = "search"
    /\ results' = FilterSearchResults(found)
    /\ phase' = "score"
    /\ UNCHANGED <<candidate, scored, person, via>>

ScoreNext(answered) ==
    /\ phase = "score" /\ results # <<>>
    /\ results' = Tail(results)
    /\ scored' = IF answered /\ Gates(Head(results)) THEN Append(scored, Head(results)) ELSE scored
    /\ UNCHANGED <<candidate, phase, person, via>>

PickWinner ==
    /\ phase = "score" /\ results = <<>>
    /\ person' = Winner(scored)
    /\ phase' = IF Winner(scored) = NoPerson THEN "nobody" ELSE "reveal"
    /\ via' = IF Winner(scored) = NoPerson THEN via ELSE "search"
    /\ UNCHANGED <<candidate, results, scored>>

\* The profile that was looked up is not corrected.
CorrectedLinkedIn == IF via \in {"search", "name"} THEN person ELSE NoPerson

MatchNext ==
    \/ \E p \in Answers : EnrichByLinkedIn(p) \/ EnrichByName(p)
    \/ \E found \in SeqOf(People, MaxResults) : IsInjective(found) /\ SearchPeople(found)
    \/ \E answered \in BOOLEAN : ScoreNext(answered)
    \/ PickWinner

MatchSpec == MatchInit /\ [][MatchNext]_matchVars

-----------------------------------------------------------------------------
MatchTypeOK ==
    /\ phase \in {"linkedin", "name", "search", "score", "reveal", "nobody"}
    /\ person \in Answers /\ (phase = "reveal" <=> person # NoPerson)
    /\ Len(scored) <= SearchCap

(***************************************************************************)
(* A number that is bought, and a profile that replaces the candidate's,   *)
(* are those of a person of the candidate's first name and organization,   *)
(* and strictly the likeliest of all that were looked at, however Apollo   *)
(* sorts them; the one exception is the lookup by name and organization,   *)
(* whose answer nobody verifies (enrichment.js:130-160).                   *)
(***************************************************************************)
NoStrangerRevealed ==
    phase = "reveal" =>
        /\ via # "name" =>
             FirstName(person) = candidate.first /\ Normalized(Org(person)) = Normalized(candidate.org)
        /\ via = "search" => \A q \in Range(scored) \ {person} : Confidence(q) < Confidence(person)
        /\ CorrectedLinkedIn # NoPerson => ~candidate.linkedin \/ via = "name" \/ Gates(person)
=============================================================================

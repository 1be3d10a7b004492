-------------------------------- MODULE MCRecords -------------------------------
(***************************************************************************)
(* What the workers write of a candidate: contacts, numbers, keys, notes   *)
(* and the legacy cache of whole rows.  No state that the parts modelled   *)
(* here keep is shared by two of them: a behaviour runs the one that part  *)
(* names, so that their state spaces are added, not multiplied.            *)
(***************************************************************************)
EXTENDS ContactConflict, PhoneReveal, CandidateIndex, CandidateIntake, ApolloMatch, KrispNotes,
        CacheRebuild

CONSTANT Parts      \* the parts checked

VARIABLE part

\* ContactConflict
KindOf(v) == IF v = "e1" THEN "email" ELSE "phone"

\* PhoneReveal
RankOf(n) == IF n = "m1" THEN 0 ELSE IF n = "h1" THEN 1 ELSE 2
BroughtBy(r) == IF r = 1 THEN <<"o1", "w1", "m1">> ELSE <<"h1">>

\* CandidateIndex
Booker(b) == "a"
BookedWith(b) == "y"
WithProfile(b) == TRUE

\* CandidateIntake
ChunkOf(a) == IF a = "a3" THEN 2 ELSE 1

\* ApolloMatch: first and last name, organization, and the fields RF has too
Data(p) == CASE p = "p1" -> <<"ann", "lee", "acme", {"title", "state"}>>
             [] p = "p2" -> <<"ann", "n lee", "acme inc", {"title", "state"}>>
             [] p = "p3" -> <<"ann", "low", "acme", {"city", "education"}>>
             [] p = "p4" -> <<"bob", "lee", "acme", {"title"}>>
             [] p = "p5" -> <<"ann", "lee", "", {"title"}>>
FirstOfName(p) == Data(p)[1]
LastOfName(p) == Data(p)[2]
Employer(p) == Data(p)[3]
Agreeing(p) == Data(p)[4]
NoInitial(last) == IF last = "n lee" THEN "lee" ELSE last
Initial(last) == CASE last = "n lee" -> "n" [] last \in {"lee", "low", "l"} -> "l" [] OTHER -> ""
InitialOnly(last) == last = "l"
PlainOrg(org) == IF org = "acme inc" THEN "acme" ELSE org
SomeProfiles == [first : {"ann"}, last : {"lee", "l", ""}, org : {"acme", ""}, linkedin : BOOLEAN,
             fields : {{}, {"title", "state"}, {"title", "state", "city", "country", "education"}}]

RecordsInit ==
    /\ part \in Parts
    /\ part = "conflict" \/ holds = [c \in Holders |-> {}]
    /\ part = "intake" \/ (inRF = FALSE /\ whole = FALSE /\ contact = FALSE)
    /\ part = "match" \/ candidate = CHOOSE c \in Profiles : TRUE
    /\ part = "krisp" \/ (participants = <<>> /\ usersDb = {} /\ candidates = {})
    /\ ConflictInit /\ RevealInit /\ IndexInit
    /\ IntakeInit /\ MatchInit /\ KrispInit /\ RebuildInit
    \* Two of the holders are alike.
    /\ part = "conflict" => holds["a"] = {"p1"} /\ (holds["c"] # {} => holds["b"] # {})
    /\ part = "reveal" \/ dpPhones = <<>>
    /\ part = "intake" \/ linkedinKey = "nobody"

Others(p) ==
    /\ IF p = "conflict" THEN TRUE ELSE UNCHANGED conflictVars
    /\ IF p = "reveal" THEN TRUE ELSE UNCHANGED revealVars
    /\ IF p = "index" THEN TRUE ELSE UNCHANGED indexVars
    /\ IF p = "intake" THEN TRUE ELSE UNCHANGED intakeVars
    /\ IF p = "match" THEN TRUE ELSE UNCHANGED matchVars
    /\ IF p = "krisp" THEN TRUE ELSE UNCHANGED krispVars
    /\ IF p = "legacy" THEN TRUE ELSE UNCHANGED legacyVars

Does(p, A) == part = p /\ A /\ Others(p) /\ UNCHANGED part

\* Who is alike acts in turn: callers, additions of a chunk, candidates of today.
CallersInTurn == calls'[2] # Idle => calls'[1] # Idle
AddsInTurn == intakes'["a2"] # Fresh => intakes'["a1"] # Fresh
UpdatesInTurn == rfRow'["b"].version <= rfRow'["a"].version

\* Nothing is claimed of reveals beyond a write between another's reads and writes,
\* nor of a name whose key has lapsed; of the emails from then on the theorem speaks.
RecordsNext ==
    \/ Does("conflict", ConflictNext /\ CallersInTurn)
    \/ Does("reveal", RevealNext /\ ~raced)
    \/ Does("index", IndexNext /\ ~lapsed)
    \/ Does("intake", IntakeNext /\ AddsInTurn)
    \/ Does("match", MatchNext)
    \/ Does("krisp", KrispNext)
    \/ Does("legacy", RebuildNext /\ UpdatesInTurn)

recordsVars == <<part, conflictVars, revealVars, indexVars, intakeVars, matchVars, krispVars,
                 legacyVars>>

RecordsSpec == RecordsInit /\ [][RecordsNext]_recordsVars

-----------------------------------------------------------------------------
\* The states of every part are well formed.
RecordTypesOK ==
    /\ ConflictTypeOK /\ RevealTypeOK /\ IndexTypeOK /\ IntakeTypeOK
    /\ MatchTypeOK /\ KrispTypeOK /\ RebuildTypeOK

\* The name and email keys lead to the candidates they are of; and a legacy row is
\* stale for good only if its update fell between a run's look and its cursor, or
\* two runs wrote at once.
CachedIsTrue == KeysAreTrue /\ StaleWasPassed

\* A number is bought twice within the cooldown only by two works at once, and all
\* occurrences of a profile in a batch end with its one record in RF.
IntakeHolds == PaidTwiceOnlyTogether /\ AddsAgree
=============================================================================

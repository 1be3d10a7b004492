------------------------------ MODULE KrispNotes ------------------------------
(***************************************************************************)
(* The notes of one Krisp meeting, delivered by webhook perhaps several    *)
(* times (src/handlers/krisp-webhook.js): the consultant and the candidate *)
(* are told apart by the team registry, read once per isolate from D1      *)
(* (src/users.js), the note is posted in Recruiterflow, and a key in KV    *)
(* that outlives the redeliveries keeps the next from posting it again.    *)
(***************************************************************************)
EXTENDS Naturals, SequencesExt

CONSTANTS
    Staff, Guests,      \* the emails of consultants and of people outside
    Owner,              \* the account's owner, to whom a note goes that has no consultant
    Isolates,
    Deliveries,         \* deliveries of one meeting's notes
    MaxKrispFaults      \* bound on failed calls

ASSUME KrispConstants ==
    /\ Staff \cap Guests = {}
    /\ "nobody" \notin Staff \cup Guests \cup Isolates
    /\ "not_loaded" \notin Staff
    /\ MaxKrispFaults \in Nat

VARIABLES
    participants,       \* the meeting's, in order
    usersDb,            \* the staff that D1 has
    registry,           \* [Isolates -> the staff its cache has, or NotLoaded]
    candidates,               \* the people Recruiterflow has as candidates
    processed,          \* krisp:{meeting} is in KV
    deliveries,         \* [Deliveries -> the handler, a record]
    notes,              \* the notes posted, [author, about], in order
    krispFaults,
    \* History, read by the properties only:
    together,           \* a handler saw no key while another was between that and its own put
    halfDone            \* a call failed that posts a note, or puts the key of a posted one

krispVars == <<participants, usersDb, registry, candidates, processed, deliveries, notes, krispFaults,
               together, halfDone>>

NotLoaded == {"not_loaded"}
NoOne == "nobody"
Undelivered == [step |-> "undelivered", iso |-> NoOne, author |-> NoOne, about |-> NoOne]

KrispInit ==
    /\ participants \in {s \in SeqOf(Staff \cup Guests, 3) : IsInjective(s)}
    /\ usersDb \in SUBSET Staff
    /\ candidates \in SUBSET (Staff \cup Guests)
    /\ registry = [i \in Isolates |-> NotLoaded]
    /\ processed = FALSE
    /\ deliveries = [d \in Deliveries |-> Undelivered]
    /\ notes = <<>>
    /\ krispFaults = 0 /\ together = FALSE /\ halfDone = FALSE

GoesTo(d, step) == deliveries' = [deliveries EXCEPT ![d].step = step]
Succeeds == UNCHANGED krispFaults
Failing == krispFaults < MaxKrispFaults /\ krispFaults' = krispFaults + 1

\* An operator registers a consultant; a new version of the worker starts with
\* empty caches.
Registers(user) ==
    /\ user \notin usersDb
    /\ usersDb' = usersDb \cup {user}
    /\ UNCHANGED <<participants, registry, candidates, processed, deliveries, notes, krispFaults,
                   together, halfDone>>

Restarts(i) ==
    /\ registry[i] # NotLoaded
    /\ \A d \in Deliveries : deliveries[d].iso # i
    /\ registry' = [registry EXCEPT ![i] = NotLoaded]
    /\ UNCHANGED <<participants, usersDb, candidates, processed, deliveries, notes, krispFaults,
                   together, halfDone>>

-----------------------------------------------------------------------------
\* Krisp sends the notes, again after an edit and after every 500.

Underway(d) == deliveries[d].step \in {"resolve", "post", "put"}

\* Mutant: the key is never read.
Skips_Never == FALSE

Skips == processed

CheckKey(d, i) ==
    /\ deliveries[d].step \in {"undelivered", "failed"}
    /\ deliveries' = [deliveries EXCEPT ![d] =
                        IF Skips THEN [Undelivered EXCEPT !.step = "done"]
                        ELSE [Undelivered EXCEPT !.step = "resolve", !.iso = i]]
    /\ together' = (together \/ (~Skips /\ \E e \in Deliveries \ {d} : Underway(e)))
    /\ UNCHANGED <<participants, usersDb, registry, candidates, processed, notes, krispFaults, halfDone>>

\* ensureCache: callers that come meanwhile wait for the same read.
LoadUsers(i) ==
    /\ registry[i] = NotLoaded
    /\ \E d \in Deliveries : deliveries[d].iso = i
    /\ \/ /\ registry' = [registry EXCEPT ![i] = usersDb] /\ Succeeds
          /\ UNCHANGED deliveries
       \/ /\ Failing
          /\ deliveries' = [d \in Deliveries |->
                              IF deliveries[d].iso = i THEN [Undelivered EXCEPT !.step = "failed"]
                              ELSE deliveries[d]]
          /\ UNCHANGED registry
    /\ UNCHANGED <<participants, usersDb, candidates, processed, notes, together, halfDone>>

\* resolveKrispAttribution: the first of the team is the consultant; the first
\* other participant the candidate, if one is known to be a consultant.
\* Krisp leaves out a guest's id and name.
FirstOf(S) == LET positions == {i \in DOMAIN participants : participants[i] \in S} IN
              IF positions = {} THEN NoOne ELSE participants[Min(positions)]

\* Mutant: anyone who is not of the team is the candidate.
CandidateAmong_Any(team) == FirstOf((Staff \cup Guests) \ team)

CandidateAmong(team) ==
    IF FirstOf(team) # NoOne THEN FirstOf((Staff \cup Guests) \ team) ELSE FirstOf(Guests \ team)

AuthorAmong(team) ==
    IF FirstOf(team) # NoOne THEN FirstOf(team)
    ELSE IF Owner \in team THEN Owner ELSE NoOne

\* Without a candidate that RF has, or an author, nothing is posted and no key is put.
Attributes(d) ==
    LET team == registry[deliveries[d].iso]
        about == CandidateAmong(team) IN
    /\ deliveries[d].step = "resolve" /\ team # NotLoaded
    /\ deliveries' = [deliveries EXCEPT ![d] =
                        IF about \in candidates /\ AuthorAmong(team) # NoOne
                          THEN [@ EXCEPT !.step = "post", !.iso = NoOne,
                                         !.author = AuthorAmong(team), !.about = about]
                          ELSE [Undelivered EXCEPT !.step = "done"]]
    /\ UNCHANGED <<participants, usersDb, registry, candidates, processed, notes, krispFaults,
                   together, halfDone>>

Note(d) == [author |-> deliveries[d].author, about |-> deliveries[d].about]

\* RF may have posted the note it does not answer for.
Post(d) ==
    /\ deliveries[d].step = "post"
    /\ \/ /\ notes' = Append(notes, Note(d))
          /\ GoesTo(d, "put") /\ Succeeds
          /\ UNCHANGED halfDone
       \/ /\ Failing
          /\ notes' \in {notes, Append(notes, Note(d))}
          /\ GoesTo(d, "failed")
          /\ halfDone' = TRUE
    /\ UNCHANGED <<participants, usersDb, registry, candidates, processed, together>>

\* The key outlives Krisp's redeliveries.  That it was not put is answered 500.
PutKey(d) ==
    /\ deliveries[d].step = "put"
    /\ \/ /\ processed' = TRUE
          /\ GoesTo(d, "done") /\ Succeeds
          /\ UNCHANGED halfDone
       \/ /\ Failing
          /\ GoesTo(d, "failed")
          /\ halfDone' = TRUE
          /\ UNCHANGED processed
    /\ UNCHANGED <<participants, usersDb, registry, candidates, notes, together>>

KrispNext ==
    \/ \E user \in Staff : Registers(user)
    \/ \E i \in Isolates : LoadUsers(i) \/ Restarts(i) \/ \E d \in Deliveries : CheckKey(d, i)
    \/ \E d \in Deliveries : Attributes(d) \/ Post(d) \/ PutKey(d)

KrispSpec == KrispInit /\ [][KrispNext]_krispVars

-----------------------------------------------------------------------------
KrispTypeOK ==
    /\ \A i \in Isolates : registry[i] = NotLoaded \/ registry[i] \subseteq usersDb
    /\ \A d \in Deliveries : Underway(d) => deliveries[d].step = "resolve" \/ deliveries[d].about \in candidates
    /\ krispFaults \in 0 .. MaxKrispFaults

(***************************************************************************)
(* A meeting's note is posted twice only by two deliveries at once, or     *)
(* where RF did not answer for the first or the key could not be put       *)
(* (docs/architecture.md:456-463, krisp-webhook.js:53-60).                 *)
(***************************************************************************)
NotedOnce == Len(notes) > 1 => together \/ halfDone

(***************************************************************************)
(* A note is about a participant who did not write it; and about a         *)
(* consultant that the isolate's registry does not know only where another *)
(* consultant of the meeting wrote it, never where it fell to the owner    *)
(* (docs/architecture.md:433-441).                                         *)
(***************************************************************************)
NotedOnGuests ==
    \A n \in Range(notes) :
        /\ n.about \in Range(participants) \ {n.author}
        /\ n.about \in Staff => n.author \in Range(participants)

KrispNotesHold == NotedOnce /\ NotedOnGuests
=============================================================================

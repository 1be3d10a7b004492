---------------------------- MODULE CandidateIntake ----------------------------
(***************************************************************************)
(* One LinkedIn profile sent by the extension, perhaps several times       *)
(* (processOneCandidate, src/handlers/candidates.js): found in             *)
(* Recruiterflow or added to it, sent to Dialpad, and its phone number     *)
(* bought from Apollo.  Recruiterflow tells of the record it creates, and  *)
(* that webhook may buy the number too (src/enrichment.js).  What keeps    *)
(* the number from being bought twice is the flag apollo_enrich:{id}, put  *)
(* in KV after the purchase and dropped after COOLDOWN.                    *)
(***************************************************************************)
EXTENDS Naturals, FiniteSets

CONSTANTS
    Adds,           \* the profile's occurrences in one batch
    Chunk(_),       \* 1, 2, ...: the chunk of five it belongs to
    Cooldown,       \* APOLLO_ENRICH_COOLDOWN_SEC
    MaxCallFaults   \* bound on calls that fail

ASSUME IntakeConstants ==
    "created" \notin Adds /\ Cooldown \in Nat /\ MaxCallFaults \in Nat

VARIABLES
    inRF,           \* Recruiterflow has a record of the profile
    whole,          \* it has a name, an organization and a title
    contact,        \* Dialpad has its contact
    linkedinKey,    \* linkedin:{slug} leads to "nobody", to "another" record or to "this" one
    attempted,      \* how long apollo_enrich:{id} still exists
    intakes,        \* [Adds \cup {Created} -> the work, a record]
    callFaults,
    \* History, read by the properties only:
    lostFlags       \* works that bought the number and did not put the flag

intakeVars == <<inRF, whole, contact, linkedinKey, attempted, intakes, callFaults, lostFlags>>

Created == "created"            \* RF's webhook
Works == Adds \cup {Created}

NotPaid == Cooldown + 1
\* paid: the time since the purchase; met: the works that had the candidate in
\* hand when this one found no flag.
Fresh == [step |-> "idle", new |-> FALSE, paid |-> NotPaid, met |-> {}, failed |-> FALSE]

IntakeInit ==
    /\ inRF \in BOOLEAN /\ whole \in BOOLEAN /\ contact \in BOOLEAN
    /\ contact => inRF
    /\ linkedinKey \in {"nobody", "another"} \cup {IF inRF THEN "this" ELSE "nobody"}
    /\ attempted = 0
    /\ intakes = [w \in Works |-> Fresh]
    /\ callFaults = 0 /\ lostFlags = {}

To(w, step) == intakes' = [intakes EXCEPT ![w].step = step]
ToFailed(w, step) == intakes' = [intakes EXCEPT ![w].step = step, ![w].failed = TRUE]
Faulty == callFaults < MaxCallFaults /\ callFaults' = callFaults + 1
Sound == UNCHANGED callFaults

\* Dialpad's contact, unless a field is missing, then the cache.
Synced == contact' = (contact \/ whole) /\ linkedinKey' = "this"
\* A failure leaves of the two what had arrived.
HalfSynced ==
    /\ contact' \in {contact, contact \/ whole} /\ linkedinKey' \in {linkedinKey, "this"}
    /\ linkedinKey' # linkedinKey => contact' = (contact \/ whole)

InHand(w) == intakes[w].step \in {"look", "reveal", "put"} \/ (intakes[w].new /\ intakes[w].step = "create")

-----------------------------------------------------------------------------
\* processOneCandidate

Ended(w) == intakes[w].step \in {"done", "error"}

\* A search that fails counts as one that found nothing.  The key is looked up,
\* and put if RF has the record: KV's failure is an error.
SearchRF(a) ==
    /\ intakes[a].step = "idle"
    /\ \A b \in Adds : Chunk(b) < Chunk(a) => Ended(b)
    /\ \/ inRF /\ linkedinKey' = "this" /\ To(a, "contact") /\ Sound
       \/ ~inRF /\ To(a, "add") /\ Sound /\ UNCHANGED linkedinKey
       \/ inRF /\ Faulty /\ ToFailed(a, "add") /\ UNCHANGED linkedinKey
       \/ /\ Faulty /\ ToFailed(a, "error")
          /\ linkedinKey' \in {linkedinKey} \cup {IF inRF THEN "this" ELSE linkedinKey}
    /\ UNCHANGED <<inRF, whole, contact, attempted, lostFlags>>

\* RF tells of the record it adds, also when its answer is lost, unless it added nothing.
AddRF(a) ==
    /\ intakes[a].step = "add" /\ ~inRF
    /\ \/ /\ Sound /\ inRF' = TRUE
          /\ intakes' = [intakes EXCEPT ![a].step = "create", ![a].new = TRUE,
                                        ![Created].step = "sent"]
       \/ /\ Faulty /\ inRF' = TRUE
          /\ intakes' = [intakes EXCEPT ![a].step = "error", ![a].failed = TRUE,
                                        ![Created].step = "sent"]
       \/ Faulty /\ ToFailed(a, "error") /\ UNCHANGED inRF
    /\ UNCHANGED <<whole, contact, linkedinKey, attempted, lostFlags>>

\* Mutant: the conflict is an error like another.
Exists_Error(a) ==
    /\ intakes[a].step = "add" /\ inRF
    /\ To(a, "error")
    /\ UNCHANGED <<inRF, whole, contact, linkedinKey, attempted, callFaults, lostFlags>>

\* 409 names the record, which is then fetched.
Exists(a) ==
    /\ intakes[a].step = "add" /\ inRF
    /\ \/ To(a, "contact") /\ Sound
       \/ ToFailed(a, "error") /\ Faulty
    /\ UNCHANGED <<inRF, whole, contact, linkedinKey, attempted, lostFlags>>

-----------------------------------------------------------------------------
\* processExistingRFCandidate

\* A failed read counts as no contact.
GetContact(a) ==
    /\ intakes[a].step = "contact"
    /\ \/ To(a, IF contact THEN "patch" ELSE "create") /\ Sound
       \/ contact /\ ToFailed(a, "create") /\ Faulty
    /\ UNCHANGED <<inRF, whole, contact, linkedinKey, attempted, lostFlags>>

\* The organization and the title only; a failure is logged.
PatchContact(a) ==
    /\ intakes[a].step = "patch"
    /\ \/ To(a, "flag") /\ Sound
       \/ ToFailed(a, "flag") /\ Faulty
    /\ UNCHANGED <<inRF, whole, contact, linkedinKey, attempted, lostFlags>>

\* Of a record that was just added as of one without a contact, which is fetched.
\* The new record's number is bought without a look at the flag.
CreateContact(a) ==
    /\ intakes[a].step = "create"
    /\ \/ /\ Synced /\ Sound
          /\ intakes' = [intakes EXCEPT
                           ![a].step = IF intakes[a].new THEN "look" ELSE "flag",
                           ![a].met = IF intakes[a].new THEN {w \in Works \ {a} : InHand(w)} ELSE {}]
       \/ HalfSynced /\ Faulty /\ ToFailed(a, "error")
    /\ UNCHANGED <<inRF, whole, attempted, lostFlags>>

-----------------------------------------------------------------------------
\* handleRecruiterflowWebhook, Created: Dialpad, the cache, then enrichCandidate
\* for a candidate of Joel's that has no number.

HookSyncs ==
    /\ intakes[Created].step = "sent"
    /\ \/ Synced /\ To(Created, "flag") /\ Sound
       \/ HalfSynced /\ Faulty /\ UNCHANGED intakes
    /\ UNCHANGED <<inRF, whole, attempted, lostFlags>>

HookSkips ==
    /\ intakes[Created].step = "flag"
    /\ To(Created, "done")
    /\ UNCHANGED <<inRF, whole, contact, linkedinKey, attempted, callFaults, lostFlags>>

-----------------------------------------------------------------------------
\* The purchase

\* Mutant: nobody looks at the flag.
FlagStep_Blind(w) == "look"

FlagStep(w) == IF attempted > 0 THEN "done" ELSE "look"

ReadFlag(w) ==
    /\ intakes[w].step = "flag"
    /\ \/ /\ intakes' = [intakes EXCEPT ![w].step = FlagStep(w),
                                        ![w].met = {v \in Works \ {w} : InHand(v)}]
          /\ Sound
       \/ Faulty /\ ToFailed(w, IF w = Created THEN "done" ELSE "error")
    /\ UNCHANGED <<inRF, whole, contact, linkedinKey, attempted, lostFlags>>

\* Apollo has the person, or not, or does not answer.  That an add found nobody
\* in a record RF had is remembered like a purchase.
LookUp(w) ==
    /\ intakes[w].step = "look"
    /\ \/ To(w, "reveal") /\ UNCHANGED attempted
       \/ To(w, "done") /\ attempted' = IF w = Created \/ intakes[w].new THEN attempted ELSE Cooldown
    /\ UNCHANGED <<inRF, whole, contact, linkedinKey, callFaults, lostFlags>>

\* A call that fails may have been paid for, and is not told from one that did not.
Reveal(w) ==
    /\ intakes[w].step = "reveal"
    /\ intakes' = [intakes EXCEPT ![w].step = "put", ![w].paid = 0]
    /\ UNCHANGED <<inRF, whole, contact, linkedinKey, attempted, callFaults, lostFlags>>

PutFlag(w) ==
    /\ intakes[w].step = "put"
    /\ To(w, "done")
    /\ \/ attempted' = Cooldown /\ Sound /\ UNCHANGED lostFlags
       \/ Faulty /\ lostFlags' = lostFlags \cup {w} /\ UNCHANGED attempted
    /\ UNCHANGED <<inRF, whole, contact, linkedinKey>>

FlagAges ==
    /\ attempted > 0 \/ \E w \in Works : intakes[w].paid < Cooldown
    /\ attempted' = IF attempted > 0 THEN attempted - 1 ELSE 0
    /\ intakes' = [w \in Works |-> IF intakes[w].paid < Cooldown
                                     THEN [intakes[w] EXCEPT !.paid = @ + 1] ELSE intakes[w]]
    /\ UNCHANGED <<inRF, whole, contact, linkedinKey, callFaults, lostFlags>>

IntakeNext ==
    \/ \E a \in Adds : SearchRF(a) \/ AddRF(a) \/ Exists(a) \/ GetContact(a) \/ PatchContact(a) \/ CreateContact(a)
    \/ HookSyncs \/ HookSkips
    \/ \E w \in Works : ReadFlag(w) \/ LookUp(w) \/ Reveal(w) \/ PutFlag(w)
    \/ FlagAges

IntakeSpec == IntakeInit /\ [][IntakeNext]_intakeVars

-----------------------------------------------------------------------------
IntakeTypeOK ==
    /\ {inRF, whole, contact} \subseteq BOOLEAN
    /\ linkedinKey \in {"nobody", "another", "this"}
    /\ attempted \in 0 .. Cooldown
    /\ \A w \in Works : intakes[w].paid \in 0 .. NotPaid /\ intakes[w].met \subseteq Works

Overlapped(v, w) == v \in intakes[w].met \/ w \in intakes[v].met

(***************************************************************************)
(* The number is bought twice within the cooldown only by two works that   *)
(* had the candidate in hand at the same time, neither of which could see  *)
(* the other's flag, or where one's flag could not be put                  *)
(* (enrichment.js:13-21).                                                  *)
(***************************************************************************)
PaidTwiceOnlyTogether ==
    \A v, w \in Works :
        v # w /\ intakes[v].paid < Cooldown /\ intakes[w].paid < Cooldown =>
            Overlapped(v, w) \/ {v, w} \cap lostFlags # {}

(***************************************************************************)
(* Whichever of them came first, when all is done every occurrence of a    *)
(* profile has ended with the one record that RF has of it, the profile's  *)
(* key leads there and the contact is made, unless a call of its own       *)
(* failed (candidates.js:152-215).                                          *)
(***************************************************************************)
AddsAgree ==
    (\A a \in Adds : Ended(a)) /\ intakes[Created].step \in {"idle", "done"} =>
        \A a \in Adds : ~intakes[a].failed =>
            /\ intakes[a].step = "done"
            /\ inRF /\ linkedinKey = "this"
            /\ whole => contact
=============================================================================

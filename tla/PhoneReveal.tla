------------------------------ MODULE PhoneReveal ------------------------------
(***************************************************************************)
(* Apollo's phone reveals (src/handlers/apollo-enrichment.js): a webhook   *)
(* brings numbers for a candidate; the worker reads what Recruiterflow and *)
(* Dialpad have, orders it all (src/phone-merge.js) and writes the same    *)
(* list to whichever of the two differs.  A failed write is answered 500   *)
(* and Apollo delivers again.  Recruiters add numbers of their own.        *)
(***************************************************************************)
EXTENDS Naturals, FiniteSets, SequencesExt

CONSTANTS
    Numbers,        \* the phone numbers, by their digits
    Rank(_),        \* 0 mobile, 1 home, 2 other, 3 unknown
    Excluded,       \* numbers Apollo gives as work, extension or invalid
    Unreadable,     \* numbers with no E.164 form
    Reveals,        \* Apollo's webhooks
    Brings(_),      \* the numbers of a webhook, in order
    MaxAdded, MaxBroken     \* bounds on recruiters' numbers and failed calls

ASSUME RevealConstants ==
    /\ \A n \in Numbers : Rank(n) \in 0 .. 3
    /\ \A r \in Reveals : Brings(r) \in Seq(Numbers \cup Excluded \cup Unreadable)
    /\ "no_contact" \notin Numbers
    /\ MaxAdded \in Nat /\ MaxBroken \in Nat

VARIABLES
    rfPhones, dpPhones,     \* the two lists; dpPhones is NoContact before there is one
    shown,                  \* the number of the cached record, <<>> if it has none
    reveals,                \* [Reveals -> the delivery, a record]
    added, broken,
    \* History, read by the properties only:
    manual,                 \* the numbers recruiters added
    touched,                \* they added one, the contact came or a write failed, since the last 200
    raced,                  \* something was written between a delivery's reads and its writes
    blind                   \* a delivery wrote Dialpad's list without having read it

revealVars == <<rfPhones, dpPhones, shown, reveals, added, broken, manual, touched, raced, blind>>

NoContact == <<"no_contact">>

-----------------------------------------------------------------------------
\* phone-merge.js

\* The elements at the positions I, by their keys, which differ.
Arranged(s, I, key) ==
    [k \in 1 .. Cardinality(I) |->
       s[CHOOSE i \in I : Cardinality({j \in I : key[j] <= key[i]}) = k]]

Kept(s, I) == Arranged(s, I, [i \in I |-> i])

DedupeByDigits(s) == Kept(s, {i \in DOMAIN s : \A j \in 1 .. i - 1 : s[j] # s[i]})

\* Ties keep their order.
ByRank(s) == Arranged(s, DOMAIN s, [i \in DOMAIN s |-> Rank(s[i]) * Len(s) + i])

Ranked(entries) ==
    ByRank(Kept(entries, {i \in DOMAIN entries : entries[i] \notin Excluded \cup Unreadable}))

\* Those of s that are not in t.
Without(s, t) == Kept(s, {i \in DOMAIN s : s[i] \notin Range(t)})

\* Mutant: only what RF and Apollo have.
BuildPhoneOrder_Fresh(existing, entries) == Ranked(entries)

\* Mutant: a number that both systems have is listed twice.
BuildPhoneOrder_Twice(existing, entries) ==
    Without(existing, Ranked(entries)) \o Ranked(entries)

\* Numbers that are not of this webhook stay on top, in their order.
BuildPhoneOrder(existing, entries) ==
    LET ranked == Ranked(entries) IN
    DedupeByDigits(Without(existing, ranked) \o ranked)

-----------------------------------------------------------------------------
Waiting == [step |-> "waiting", rf |-> <<>>, dp |-> <<>>, ordered |-> <<>>, sawDp |-> TRUE, rfFailed |-> FALSE, dpFailed |-> FALSE]

RevealInit ==
    /\ rfPhones = <<>> /\ dpPhones \in {<<>>, NoContact}
    /\ shown = <<>>
    /\ reveals = [r \in Reveals |-> Waiting]
    /\ added = 0 /\ broken = 0
    /\ manual = {} /\ touched = TRUE /\ raced = FALSE /\ blind = FALSE

Between(r) == reveals[r].step \in {"get_dp", "write_rf", "write_dp", "cache"}
Writes(others) == raced' = (raced \/ \E r \in others : Between(r))
Quiet == UNCHANGED <<added, manual, touched, blind>>

\* A recruiter adds a number, or the contact's first sync brings RF's list.
AddsInRF(n) ==
    /\ added < MaxAdded /\ n \notin Range(rfPhones)
    /\ rfPhones' = Append(rfPhones, n)
    /\ manual' = manual \cup {n} /\ added' = added + 1 /\ touched' = TRUE
    /\ Writes(Reveals)
    /\ UNCHANGED <<dpPhones, shown, reveals, broken, blind>>

AddsInDialpad(n) ==
    /\ added < MaxAdded /\ dpPhones # NoContact /\ n \notin Range(dpPhones)
    /\ dpPhones' = Append(dpPhones, n)
    /\ manual' = manual \cup {n} /\ added' = added + 1 /\ touched' = TRUE
    /\ Writes(Reveals)
    /\ UNCHANGED <<rfPhones, shown, reveals, broken, blind>>

CreatesContact ==
    /\ dpPhones = NoContact
    /\ dpPhones' = rfPhones
    /\ touched' = TRUE
    /\ Writes(Reveals)
    /\ UNCHANGED <<rfPhones, shown, reveals, added, broken, manual, blind>>

Goto(r, step) == reveals' = [reveals EXCEPT ![r].step = step]
Breaks == broken < MaxBroken /\ broken' = broken + 1

\* Apollo sends the webhook, and again after every answer that is not a 200.
Delivers(r) ==
    /\ reveals[r].step \in {"waiting", "failed"}
    /\ reveals' = [reveals EXCEPT ![r] = [Waiting EXCEPT !.step = IF Brings(r) = <<>> THEN "ok" ELSE "get_rf"]]
    /\ UNCHANGED <<rfPhones, dpPhones, shown, broken, raced>> /\ Quiet

GetRF(r) ==
    /\ reveals[r].step = "get_rf"
    /\ \/ /\ reveals' = [reveals EXCEPT ![r].rf = rfPhones, ![r].step = "get_dp"]
          /\ UNCHANGED broken
       \/ Breaks /\ Goto(r, "failed")
    /\ UNCHANGED <<rfPhones, dpPhones, shown, raced>> /\ Quiet

Orders(r, dp, saw) ==
    reveals' = [reveals EXCEPT ![r].step = "write_rf", ![r].dp = dp, ![r].sawDp = saw,
                               ![r].ordered = BuildPhoneOrder(reveals[r].rf \o dp, Brings(r))]

\* A failed read of Dialpad is logged and taken for an empty contact.
GetDialpad(r) ==
    /\ reveals[r].step = "get_dp"
    /\ \/ Orders(r, IF dpPhones = NoContact THEN <<>> ELSE dpPhones, TRUE) /\ UNCHANGED broken
       \/ Orders(r, <<>>, FALSE) /\ Breaks
    /\ UNCHANGED <<rfPhones, dpPhones, shown, raced>> /\ Quiet

Ordered(r) == reveals[r].ordered
Differs(r, old) == Ordered(r) # <<>> /\ Ordered(r) # old

WriteRF(r) ==
    /\ reveals[r].step = "write_rf"
    /\ \/ /\ IF Differs(r, reveals[r].rf) THEN rfPhones' = Ordered(r) /\ Writes(Reveals \ {r})
                                          ELSE UNCHANGED <<rfPhones, raced>>
          /\ Goto(r, "write_dp")
          /\ UNCHANGED broken
       \/ /\ Differs(r, reveals[r].rf) /\ Breaks
          /\ reveals' = [reveals EXCEPT ![r].step = "write_dp", ![r].rfFailed = TRUE]
          /\ UNCHANGED <<rfPhones, raced>>
    /\ UNCHANGED <<dpPhones, shown>> /\ Quiet

WriteDialpad(r) ==
    /\ reveals[r].step = "write_dp"
    /\ \/ /\ Differs(r, reveals[r].dp) /\ dpPhones # NoContact
          /\ dpPhones' = Ordered(r) /\ Writes(Reveals \ {r})
          /\ blind' = (blind \/ ~reveals[r].sawDp)
          /\ Goto(r, "cache")
          /\ UNCHANGED broken
       \/ /\ ~Differs(r, reveals[r].dp)
          /\ Goto(r, "cache")
          /\ UNCHANGED <<dpPhones, raced, blind, broken>>
       \/ /\ Differs(r, reveals[r].dp)
          /\ IF dpPhones = NoContact THEN UNCHANGED broken ELSE Breaks
          /\ reveals' = [reveals EXCEPT ![r].step = "cache", ![r].dpFailed = TRUE]
          /\ UNCHANGED <<dpPhones, raced, blind>>
    /\ UNCHANGED <<rfPhones, shown, added, manual, touched>>

\* Mutant: a failed write is answered 200.
Answer_Ok(r) == "ok"

Answer(r) == IF reveals[r].rfFailed \/ reveals[r].dpFailed THEN "failed" ELSE "ok"

\* The snapshots go; the cached record gets the first number.
RefreshCache(r) ==
    /\ reveals[r].step = "cache"
    /\ shown' = IF reveals[r].rfFailed \/ Ordered(r) = <<>> THEN shown ELSE <<Ordered(r)[1]>>
    /\ reveals' = [reveals EXCEPT ![r] = [Waiting EXCEPT !.step = Answer(r)]]
    /\ touched' = (Answer(r) = "failed" \/ (touched /\ Ordered(r) = <<>>))
    /\ UNCHANGED <<rfPhones, dpPhones, added, broken, manual, raced, blind>>

Delivery(r) == Delivers(r) \/ GetRF(r) \/ GetDialpad(r) \/ WriteRF(r) \/ WriteDialpad(r) \/ RefreshCache(r)

RevealNext ==
    \/ \E n \in Numbers : AddsInRF(n) \/ AddsInDialpad(n)
    \/ CreatesContact
    \/ \E r \in Reveals : Delivery(r)

RevealSpec == RevealInit /\ [][RevealNext]_revealVars

-----------------------------------------------------------------------------
RevealTypeOK ==
    /\ Range(rfPhones) \subseteq Numbers
    /\ dpPhones # NoContact => Range(dpPhones) \subseteq Numbers
    /\ broken \in 0 .. MaxBroken /\ added \in 0 .. MaxAdded
    /\ \A r \in Reveals : IsInjective(Ordered(r))

HalfWritten(r) == reveals[r].step \in {"write_dp", "cache"}

(***************************************************************************)
(* Once a reveal was answered 200 the two systems have one list, in one    *)
(* order, whatever had failed before and whatever Dialpad could not tell;  *)
(* a number of a recruiter is lost only if Dialpad could not tell of it.   *)
(* Nothing is said of writes that fall between the reads and the writes    *)
(* of a delivery (apollo-enrichment.js:40-110).                            *)
(***************************************************************************)
RevealsMerge ==
    ~raced =>
        /\ ~touched /\ (\A r \in Reveals : ~HalfWritten(r)) => rfPhones = dpPhones
        /\ ~blind => \A n \in manual : n \in Range(rfPhones) \/ n \in Range(dpPhones)
        /\ Range(shown) \subseteq Range(rfPhones)
=============================================================================

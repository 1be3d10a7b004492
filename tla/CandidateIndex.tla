----------------------------- MODULE CandidateIndex -----------------------------
(***************************************************************************)
(* The index in KV that leads from an email or a name to a candidate       *)
(* (src/cache.js), and its boldest reader: a booking in the calendar       *)
(* (src/handlers/calendar-webhook.js), which adds the attendee's email to  *)
(* the candidate it finds.  While cacheCandidate puts the record and the   *)
(* email's keys it reads the name's key, and then puts that one; any of    *)
(* these calls may fail, and then cacheCandidate fails while the rest      *)
(* still arrive.  Every key lives for Life.  The candidates here are       *)
(* namesakes.                                                              *)
(***************************************************************************)
EXTENDS Naturals, FiniteSets

CONSTANTS
    Namesakes, Addresses,
    Caches,         \* calls of cacheCandidate with what RF has of a candidate
    Bookings,       \* calendar events
    Attendee(_),    \* the candidate that booked
    Address(_),     \* the email it booked with
    GivesProfile(_),\* the event has its LinkedIn profile
    Life,           \* CACHE_TTL
    MaxIndexFaults  \* bound on KV's failures

ASSUME IndexConstants ==
    /\ {"nobody", "AMBIGUOUS"} \cap Namesakes = {} /\ Caches \cap Bookings = {}
    /\ \A b \in Bookings : Attendee(b) \in Namesakes /\ Address(b) \in Addresses
    /\ Life \in Nat \ {0} /\ MaxIndexFaults \in Nat

VARIABLES
    emails,         \* [Namesakes -> the emails RF has for it]
    canonical,      \* [Namesakes -> how long candidate:{id} still lives]
    emailKey,       \* [Addresses -> email:{address}, [to, left]]
    nameKey,        \* name:{first}:{last}, [to, left]
    caching,        \* [Caches \cup Bookings -> the call of cacheCandidate, a record]
    bookings,       \* [Bookings -> the event, a record]
    indexFaults,    \* how often KV has failed
    \* History, read by the properties only:
    had,            \* [Namesakes -> emails RF had for it]
    refused,        \* [Namesakes -> emails whose update in RF failed]
    lapsed,         \* the name's key was read before another call put it, or expired before a record
    unnamed         \* namesakes to which the name's key did not lead as their own call failed on it

indexVars == <<emails, canonical, emailKey, nameKey, caching, bookings, indexFaults, had, refused,
               lapsed, unnamed>>

AMBIGUOUS == "AMBIGUOUS"
NoKey == [to |-> "nobody", left |-> 0]
NotCaching == [step |-> "idle", of |-> "nobody", emails |-> {}, existing |-> "nobody",
               landed |-> FALSE, failed |-> FALSE]
NewEvent == [step |-> "lookup", to |-> "nobody", read |-> {}]

IndexInit ==
    /\ emails = [c \in Namesakes |-> {}] /\ had = emails /\ refused = emails
    /\ canonical = [c \in Namesakes |-> 0]
    /\ emailKey = [e \in Addresses |-> NoKey] /\ nameKey = NoKey
    /\ caching = [k \in Caches \cup Bookings |-> NotCaching]
    /\ bookings = [b \in Bookings |-> NewEvent]
    /\ indexFaults = 0 /\ lapsed = FALSE /\ unnamed = {}

\* A recruiter adds an email nobody has, or removes one.
EditsEmails(c, e) ==
    /\ \A d \in Namesakes \ {c} : e \notin emails[d]
    /\ emails' = [emails EXCEPT ![c] = IF e \in @ THEN @ \ {e} ELSE @ \cup {e}]
    /\ had' = [had EXCEPT ![c] = @ \cup {e}]
    /\ UNCHANGED <<canonical, emailKey, nameKey, caching, bookings, indexFaults, refused, lapsed, unnamed>>

Older(key) == IF key.left > 1 THEN [key EXCEPT !.left = @ - 1] ELSE NoKey

Ages ==
    /\ canonical' = [c \in Namesakes |-> IF canonical[c] > 0 THEN canonical[c] - 1 ELSE 0]
    /\ emailKey' = [e \in Addresses |-> Older(emailKey[e])]
    /\ nameKey' = Older(nameKey)
    /\ lapsed' = (lapsed \/ (nameKey.left = 1 /\ \E c \in Namesakes : canonical[c] > 1))
    /\ \A k \in DOMAIN caching : caching[k] = NotCaching
    /\ \A b \in Bookings : bookings[b].step \in {"lookup", "skipped", "done"}
    /\ UNCHANGED <<emails, caching, bookings, indexFaults, had, refused, unnamed>>

-----------------------------------------------------------------------------
\* cacheCandidate

Caching(k, c, es) ==
    caching' = [caching EXCEPT ![k] = [NotCaching EXCEPT !.step = "name", !.of = c, !.emails = es]]

CacheStarts(k, c) ==
    /\ caching[k] = NotCaching
    /\ Caching(k, c, emails[c])
    /\ UNCHANGED <<emails, canonical, emailKey, nameKey, bookings, indexFaults, had, refused, lapsed, unnamed>>

\* It is over when all its puts are; if it has failed so does the booking that
\* awaits it, with 500, and the calendar's script sends the event again.
Continues(k, call) ==
    LET over == call.step = "named" /\ call.landed IN
    /\ caching' = [caching EXCEPT ![k] = IF over THEN NotCaching ELSE call]
    /\ bookings' = IF over /\ call.failed /\ k \in Bookings
                     THEN [bookings EXCEPT ![k] = NewEvent] ELSE bookings

KVFails ==
    /\ indexFaults < MaxIndexFaults
    /\ indexFaults' = indexFaults + 1

FailsOnName(c) == unnamed' = IF nameKey.to \in {c, AMBIGUOUS} THEN unnamed ELSE unnamed \cup {c}

\* A read that fails rejects, with the record's puts already sent off.
ReadsName(k) ==
    LET call == caching[k] IN
    /\ call.step = "name"
    /\ \/ /\ Continues(k, [call EXCEPT !.step = "put", !.existing = nameKey.to])
          /\ UNCHANGED <<indexFaults, unnamed>>
       \/ /\ KVFails
          /\ Continues(k, [call EXCEPT !.step = "named", !.failed = TRUE])
          /\ FailsOnName(call.of)
    /\ UNCHANGED <<emails, canonical, emailKey, nameKey, had, refused, lapsed>>

\* Mutant: the last one to be cached has the name.
NameKeyAfter_Last(call) == [to |-> call.of, left |-> Life]

\* A key that says the same, or AMBIGUOUS, is left as it is, and grows old.
Puts(call) == call.existing \notin {call.of, AMBIGUOUS}

NameKeyAfter(call) ==
    IF call.existing = "nobody" THEN [to |-> call.of, left |-> Life]
    ELSE IF Puts(call) THEN [to |-> AMBIGUOUS, left |-> Life]
    ELSE nameKey

\* A put that fails may have arrived all the same.
PutsName(k) ==
    LET call == caching[k]
        after == [call EXCEPT !.step = "named", !.existing = "nobody"] IN
    /\ call.step = "put"
    /\ \/ /\ nameKey' = NameKeyAfter(call)
          /\ lapsed' = (lapsed \/ nameKey.to # call.existing)
          /\ unnamed' = unnamed \ {call.of}
          /\ \/ Continues(k, after) /\ UNCHANGED indexFaults
             \/ Puts(call) /\ KVFails /\ Continues(k, [after EXCEPT !.failed = TRUE])
       \/ /\ Puts(call) /\ KVFails /\ Continues(k, [after EXCEPT !.failed = TRUE])
          /\ FailsOnName(call.of)
          /\ UNCHANGED <<nameKey, lapsed>>
    /\ UNCHANGED <<emails, canonical, emailKey, had, refused>>

\* These puts were sent off before the name was read, and land at any time, or
\* some of them do.
PutsRecord(k) ==
    LET call == caching[k] IN
    /\ call.step # "idle" /\ ~call.landed
    /\ \E recorded \in BOOLEAN, es \in SUBSET call.emails :
         /\ canonical' = IF recorded THEN [canonical EXCEPT ![call.of] = Life] ELSE canonical
         /\ emailKey' = [e \in Addresses |->
                           IF e \in es THEN [to |-> call.of, left |-> Life] ELSE emailKey[e]]
         /\ LET after == [call EXCEPT !.landed = TRUE, !.emails = {}] IN
            \/ recorded /\ es = call.emails /\ Continues(k, after) /\ UNCHANGED indexFaults
            \/ KVFails /\ Continues(k, [after EXCEPT !.failed = TRUE])
    /\ UNCHANGED <<emails, nameKey, had, refused, lapsed, unnamed>>

-----------------------------------------------------------------------------
\* processCalendarEvent

\* The profile, by its key or else by RF's search, whose answer is cached first.
FindsByProfile(b) ==
    /\ GivesProfile(b)
    /\ bookings[b].step = "lookup" /\ caching[b] = NotCaching
    /\ bookings' = [bookings EXCEPT ![b].to = Attendee(b), ![b].step = "get"]
    /\ \/ UNCHANGED caching
       \/ Caching(b, Attendee(b), emails[Attendee(b)])
    /\ UNCHANGED <<emails, canonical, emailKey, nameKey, indexFaults, had, refused, lapsed, unnamed>>

\* Without one, or when that finds nobody: the email, then the name.
Lookup(b) ==
    LET e == Address(b) IN
    IF emailKey[e] # NoKey THEN emailKey[e].to
    ELSE IF nameKey.to # AMBIGUOUS THEN nameKey.to
    ELSE "nobody"

FindsByKey(b) ==
    /\ bookings[b].step = "lookup" /\ caching[b] = NotCaching
    /\ bookings' = [bookings EXCEPT ![b].to = Lookup(b),
                      ![b].step = IF Lookup(b) = "nobody" THEN "skipped" ELSE "get"]
    /\ UNCHANGED <<emails, canonical, emailKey, nameKey, caching, indexFaults, had, refused, lapsed,
                   unnamed>>

GetsCandidate(b) ==
    /\ bookings[b].step = "get" /\ caching[b] = NotCaching
    /\ bookings' = [bookings EXCEPT ![b].read = emails[bookings[b].to], ![b].step = "update"]
    /\ UNCHANGED <<emails, canonical, emailKey, nameKey, caching, indexFaults, had, refused, lapsed, unnamed>>

\* The list is replaced by what was read and the new address, which are taken
\* from whoever has them.  A failure is logged: the merged list is cached anyway.
UpdatesRF(b) ==
    LET c == bookings[b].to
        merged == bookings[b].read \cup {Address(b)} IN
    /\ bookings[b].step = "update"
    /\ \/ /\ Address(b) \notin bookings[b].read
          /\ emails' = [d \in Namesakes |-> IF d = c THEN merged ELSE emails[d] \ merged]
          /\ had' = [had EXCEPT ![c] = @ \cup merged]
          /\ UNCHANGED refused
       \/ /\ Address(b) \notin bookings[b].read
          /\ refused' = [refused EXCEPT ![c] = @ \cup {Address(b)}]
          /\ UNCHANGED <<emails, had>>
       \/ /\ Address(b) \in bookings[b].read
          /\ UNCHANGED <<emails, had, refused>>
    /\ bookings' = [bookings EXCEPT ![b] = [NewEvent EXCEPT !.step = "done"]]
    /\ Caching(b, c, merged)
    /\ UNCHANGED <<canonical, emailKey, nameKey, indexFaults, lapsed, unnamed>>

\* RF does not answer: 500, and the calendar's script sends the event again.
GetFails(b) ==
    /\ bookings[b].step = "get" /\ caching[b] = NotCaching
    /\ bookings' = [bookings EXCEPT ![b] = NewEvent]
    /\ UNCHANGED <<emails, canonical, emailKey, nameKey, caching, indexFaults, had, refused, lapsed, unnamed>>

IndexNext ==
    \/ \E c \in Namesakes : \/ \E e \in Addresses : EditsEmails(c, e)
                            \/ \E k \in Caches : CacheStarts(k, c)
    \/ Ages
    \/ \E k \in Caches \cup Bookings : ReadsName(k) \/ PutsName(k) \/ PutsRecord(k)
    \/ \E b \in Bookings : \/ FindsByProfile(b) \/ FindsByKey(b)
                           \/ GetsCandidate(b) \/ GetFails(b) \/ UpdatesRF(b)

IndexSpec == IndexInit /\ [][IndexNext]_indexVars

-----------------------------------------------------------------------------
IndexTypeOK ==
    /\ \A c, d \in Namesakes : c # d => emails[c] \cap emails[d] = {}
    /\ \A c \in Namesakes : emails[c] \subseteq had[c] /\ canonical[c] \in 0 .. Life
    /\ nameKey.to \in Namesakes \cup {AMBIGUOUS, "nobody"} /\ nameKey.left \in 0 .. Life
    /\ unnamed \subseteq Namesakes /\ indexFaults \in 0 .. MaxIndexFaults

\* No call that caches it is under way.
Settled(d) == \A k \in DOMAIN caching : caching[k].of # d

(***************************************************************************)
(* A name leads to a candidate only while no namesake of it is cached, but *)
(* for one that is just being cached (cache.js:12), except where the       *)
(* name's key was put by two at once or has expired before the records,    *)
(* and for a namesake whose own read or put of that key failed while its   *)
(* record arrived (cache.js:93, 105), until it is cached again; and an     *)
(* email leads to a candidate that has or had it in RF, except where the   *)
(* calendar could not put it there and cached it all the same              *)
(* (calendar-webhook.js:232).                                              *)
(***************************************************************************)

KeysAreTrue ==
    /\ ~lapsed => \A c \in Namesakes, d \in Namesakes \ unnamed :
                     nameKey.to = c /\ canonical[d] > 0 /\ Settled(d) => d = c
    /\ \A e \in Addresses : emailKey[e].to \in Namesakes =>
         e \in had[emailKey[e].to] \cup refused[emailKey[e].to]
=============================================================================

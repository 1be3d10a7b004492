-------------------------------- MODULE CallRate --------------------------------
(***************************************************************************)
(* /dialpad-call: how often one consultant may call (src/rate-limit.js).   *)
(* The calls of the last minute are a list in KV, read, judged and put     *)
(* back by every request before it asks Dialpad to ring.                   *)
(***************************************************************************)
EXTENDS Naturals, FiniteSets, FiniteSetsExt

CONSTANTS
    CallRequests, Phones,
    CallLimit,              \* CALL_RATE_LIMIT, 5
    Window, Dedup,          \* a minute and three seconds
    Second,                 \* the unit of the answer's Retry-After
    MaxCallTime             \* bound

VARIABLES
    callTime,
    recorded,       \* ratelimit:call:{id} in KV: a set of [t, phone, by]
    requests,       \* [CallRequests -> the request, a record]
    rung,           \* the calls Dialpad was asked for, [t, phone, by]
    \* History, read by the properties only:
    overlapped      \* a request read the list before another had put it back

rateVars == <<callTime, recorded, requests, rung, overlapped>>

ASSUME RateConstants ==
    /\ CallLimit \in Nat \ {0} /\ Second \in Nat \ {0}
    /\ Window \in Nat \ {0} /\ Dedup \in Nat /\ Dedup <= Window
    /\ MaxCallTime \in Nat \ {0}

Unused == [step |-> "unused", t |-> 0, phone |-> "none", recent |-> {}, retryAfter |-> 0]

RateInit ==
    /\ callTime = 1 /\ recorded = {} /\ rung = {}
    /\ requests = [q \in CallRequests |-> Unused]
    /\ overlapped = FALSE

Now(q) == requests[q].t
Entry(q) == [t |-> Now(q), phone |-> requests[q].phone, by |-> q]

-----------------------------------------------------------------------------
\* decideCallRateLimit

Recent(entries, t) == {e \in entries : e.t + Window > t}
Duplicates(entries, t, phone) == {e \in entries : e.phone = phone /\ e.t + Dedup > t}

\* Mutant: a minute that begins with the newest call.
Denied_Newest(entries, t, phone) ==
    IF Duplicates(entries, t, phone) # {} THEN "duplicate"
    ELSE IF Cardinality({e \in entries : e.t >= t}) >= CallLimit THEN "rate_limit"
    ELSE "allowed"

\* The duplicate is the better answer of the two.
Denied(entries, t, phone) ==
    IF Duplicates(entries, t, phone) # {} THEN "duplicate"
    ELSE IF Cardinality(Recent(entries, t)) >= CallLimit THEN "rate_limit"
    ELSE "allowed"

\* In whole seconds, rounded up, and at least one.
Seconds(time) == Max({Second, ((time + Second - 1) \div Second) * Second})

RetryAfter(entries, t, phone) ==
    CASE Denied(entries, t, phone) = "duplicate" ->
           Seconds((CHOOSE e \in Duplicates(entries, t, phone) : TRUE).t + Dedup - t)
      [] Denied(entries, t, phone) = "rate_limit" ->
           Seconds(Min({e.t : e \in Recent(entries, t)}) + Window - t)
      [] OTHER -> 0

-----------------------------------------------------------------------------
\* The time is taken before KV is read.
CallRequested(q, phone) ==
    /\ requests[q] = Unused
    /\ requests' = [requests EXCEPT ![q] = [Unused EXCEPT !.step = "get", !.t = callTime, !.phone = phone]]
    /\ UNCHANGED <<callTime, recorded, rung, overlapped>>

GetTimestamps(q) ==
    LET phone == requests[q].phone
        verdict == Denied(recorded, Now(q), phone) IN
    /\ requests[q].step = "get"
    /\ requests' = [requests EXCEPT ![q] =
                      IF verdict = "allowed"
                        THEN [@ EXCEPT !.step = "put", !.recent = Recent(recorded, Now(q))]
                        ELSE [@ EXCEPT !.step = verdict, !.recent = Recent(recorded, Now(q)),
                                       !.retryAfter = RetryAfter(recorded, Now(q), phone)]]
    /\ overlapped' = (overlapped \/ \E p \in CallRequests : requests[p].step = "put")
    /\ UNCHANGED <<callTime, recorded, rung>>

PutTimestamps(q) ==
    /\ requests[q].step = "put"
    /\ recorded' = requests[q].recent \cup {Entry(q)}
    /\ requests' = [requests EXCEPT ![q].step = "ring"]
    /\ overlapped' = (overlapped \/ \E p \in CallRequests \ {q} : requests[p].step = "get")
    /\ UNCHANGED <<callTime, rung>>

\* A call that Dialpad refuses counts all the same.
InitiateCall(q) ==
    /\ requests[q].step = "ring"
    /\ rung' = rung \cup {Entry(q)}
    /\ requests' = [requests EXCEPT ![q] = [@ EXCEPT !.step = "done", !.recent = {}]]
    /\ UNCHANGED <<callTime, recorded, overlapped>>

SecondPasses ==
    /\ callTime < MaxCallTime
    /\ callTime' = callTime + 1
    /\ UNCHANGED <<recorded, requests, rung, overlapped>>

RateNext ==
    \/ SecondPasses
    \/ \E q \in CallRequests :
         \/ \E phone \in Phones : CallRequested(q, phone)
         \/ GetTimestamps(q) \/ PutTimestamps(q) \/ InitiateCall(q)

RateSpec == RateInit /\ [][RateNext]_rateVars

-----------------------------------------------------------------------------
RateTypeOK ==
    /\ callTime \in 1 .. MaxCallTime
    /\ \A e \in recorded \cup rung : e.t <= callTime /\ e.phone \in Phones /\ e.by \in CallRequests
    /\ \A q \in CallRequests : requests[q].t <= callTime

(***************************************************************************)
(* Within any minute Dialpad is asked for no more calls than the limit,    *)
(* and for one number not twice within three seconds, unless two requests  *)
(* had the list in hand at once (rate-limit.js:75-81); and a request that  *)
(* was refused is not refused for the same reason when it comes back after *)
(* the time it was told, with no call in between.                          *)
(***************************************************************************)
RateHeld ==
    ~overlapped =>
      /\ \A e \in rung :
           /\ Cardinality({f \in rung : e.t <= f.t /\ f.t < e.t + Window}) <= CallLimit
           /\ \A f \in rung : f # e /\ f.phone = e.phone => f.t >= e.t + Dedup \/ e.t >= f.t + Dedup
      /\ \A q \in CallRequests : requests[q].step \in {"duplicate", "rate_limit"} =>
           Denied(requests[q].recent, Now(q) + requests[q].retryAfter, requests[q].phone)
             # requests[q].step
=============================================================================

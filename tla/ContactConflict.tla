---------------------------- MODULE ContactConflict ----------------------------
(***************************************************************************)
(* updateRFCandidate and its resolver (src/rf-client.js): Recruiterflow    *)
(* gives a phone number or an email to one candidate only and answers 409  *)
(* to an update that would give it to a second.  The worker then takes the *)
(* contested values from the records that hold them and tries again, for   *)
(* one field at a time and at most twice.  An update replaces the whole    *)
(* list of a field; what is written back to the losing record is what was  *)
(* read of it, less the value.                                             *)
(***************************************************************************)
EXTENDS Naturals, FiniteSets

CONSTANTS
    Holders, Values,
    Field(_),       \* "phone" or "email"
    Callers,        \* calls of updateRFCandidate
    Passes,         \* 2, one for the phone and one for the email
    MaxMisses       \* bound on failed calls and search misses

ASSUME ConflictConstants == Passes \in Nat \ {0} /\ MaxMisses \in Nat

VARIABLES
    holds,      \* [Holders -> the values RF has for it]
    calls,      \* [Callers -> the call, a record]
    misses,
    \* History, read by the properties only:
    clobbered   \* a losing record had changed between its read and its write

conflictVars == <<holds, calls, misses, clobbered>>

Of(vs, field) == {v \in vs : Field(v) = field}
Fields(vs) == {Field(v) : v \in vs}
HeldByOther(v, c) == \E d \in Holders \ {c} : v \in holds[d]

Nobody == "nobody"
Idle == [step |-> "idle", target |-> Nobody, wants |-> {}, pass |-> 0,
         field |-> "none", todo |-> {}, freed |-> FALSE, owner |-> Nobody, value |-> Nobody, read |-> {}]

\* A call forgets what it no longer needs.
At(c, step) == [Idle EXCEPT !.step = step, !.target = c.target, !.wants = c.wants,
                            !.pass = IF step = "update" THEN c.pass ELSE 0]

\* No value has two holders: Recruiterflow sees to it.
ConflictInit ==
    /\ holds \in {h \in [Holders -> SUBSET Values] :
                    \A c, d \in Holders : c # d => h[c] \cap h[d] = {}}
    /\ calls = [k \in Callers |-> Idle]
    /\ misses = 0
    /\ clobbered = FALSE

\* The caller adds to what it has just read of the target.
Begin(k, c, new) ==
    /\ calls[k].step = "idle"
    /\ \A other \in Callers : calls[other].step # "idle" => calls[other].target # c
    /\ calls' = [calls EXCEPT ![k].step = "update", ![k].target = c,
                              ![k].wants = new \cup {v \in holds[c] : Field(v) \in Fields(new)}]
    /\ UNCHANGED <<holds, misses, clobbered>>

-----------------------------------------------------------------------------
\* POST /candidate/update

Contested(k) == {v \in calls[k].wants : HeldByOther(v, calls[k].target)}

Accepted(k) ==
    /\ calls[k].step = "update" /\ Contested(k) = {}
    /\ holds' = [holds EXCEPT ![calls[k].target] =
                   calls[k].wants \cup {v \in @ : Field(v) \notin Fields(calls[k].wants)}]
    /\ calls' = [calls EXCEPT ![k] = At(@, "ok")]
    /\ UNCHANGED <<misses, clobbered>>

\* Recruiterflow names one field; the last pass's conflict is not resolved.
Refused(k) ==
    /\ calls[k].step = "update" /\ Contested(k) # {}
    /\ \/ /\ calls[k].pass < Passes
          /\ \E field \in Fields(Contested(k)) :
               calls' = [calls EXCEPT ![k].step = "search", ![k].field = field,
                                      ![k].todo = Of(calls[k].wants, field)]
       \/ /\ calls[k].pass = Passes
          /\ calls' = [calls EXCEPT ![k] = At(@, "unresolved")]
    /\ UNCHANGED <<holds, misses, clobbered>>

-----------------------------------------------------------------------------
\* resolveContactFieldConflict, one value after the other

After(k, v) == [calls[k] EXCEPT !.step = "search", !.todo = @ \ {v},
                                !.owner = Nobody, !.value = Nobody, !.read = {}]

\* The search's answers are checked against the value before one is taken, on
\* rows that may be older than the record; it may also find nothing.
Search(k, v) ==
    /\ calls[k].step = "search" /\ v \in calls[k].todo
    /\ \/ \E o \in Holders \ {calls[k].target} :
            /\ v \in holds[o] \/ misses < MaxMisses
            /\ misses' = IF v \in holds[o] THEN misses ELSE misses + 1
            /\ calls' = [calls EXCEPT ![k].step = "get", ![k].owner = o, ![k].value = v]
       \/ /\ HeldByOther(v, calls[k].target) => misses < MaxMisses
          /\ misses' = IF HeldByOther(v, calls[k].target) THEN misses + 1 ELSE misses
          /\ calls' = [calls EXCEPT ![k] = After(k, v)]
    /\ UNCHANGED <<holds, clobbered>>

\* The record is read in full, and must hold the value.
GetOwner(k) ==
    LET c == calls[k]
        read == Of(holds[c.owner], c.field) IN
    /\ c.step = "get"
    /\ calls' = [calls EXCEPT ![k] =
                   IF c.value \in read THEN [c EXCEPT !.step = "strip", !.read = read]
                                       ELSE After(k, c.value)]
    /\ UNCHANGED <<holds, misses, clobbered>>

Strip(k) ==
    LET c == calls[k]
        kept == c.read \ {c.value} IN
    /\ c.step = "strip"
    /\ \/ /\ \A v \in kept : ~HeldByOther(v, c.owner)
          /\ holds' = [holds EXCEPT ![c.owner] = kept \cup {v \in @ : Field(v) # c.field}]
          /\ calls' = [calls EXCEPT ![k] = [After(k, c.value) EXCEPT !.freed = TRUE]]
          /\ clobbered' = (clobbered \/ Of(holds[c.owner], c.field) # c.read)
       \/ /\ \E v \in kept : HeldByOther(v, c.owner)
          /\ calls' = [calls EXCEPT ![k] = At(@, "error")]
          /\ UNCHANGED <<holds, clobbered>>
    /\ UNCHANGED misses

\* Mutant: the caller is told that the conflict was resolved.
Resolved_NoRetry(c) == At(c, IF c.freed THEN "ok" ELSE "unresolved")

Resolved(c) == At([c EXCEPT !.pass = @ + 1], IF c.freed THEN "update" ELSE "unresolved")

Resolve(k) ==
    /\ calls[k].step = "search" /\ calls[k].todo = {}
    /\ calls' = [calls EXCEPT ![k] = Resolved(@)]
    /\ UNCHANGED <<holds, misses, clobbered>>

\* Any call but the search may fail for good.
Errs(k) ==
    /\ calls[k].step \in {"update", "get", "strip"} /\ misses < MaxMisses
    /\ misses' = misses + 1
    /\ calls' = [calls EXCEPT ![k] = At(@, "error")]
    /\ UNCHANGED <<holds, clobbered>>

ConflictStep(k) ==
    \/ Accepted(k) \/ Refused(k) \/ GetOwner(k) \/ Strip(k) \/ Resolve(k)
    \/ \E v \in Values : Search(k, v)

ConflictNext ==
    \E k \in Callers :
        \/ ConflictStep(k) \/ Errs(k)
        \/ \E c \in Holders, new \in SUBSET Values \ {{}} : Begin(k, c, new)

ConflictSpec == ConflictInit /\ [][ConflictNext]_conflictVars

-----------------------------------------------------------------------------
Outcomes == {"ok", "unresolved", "error"}

ConflictTypeOK ==
    /\ \A c, d \in Holders : c # d => holds[c] \cap holds[d] = {}
    /\ \A k \in Callers :
         /\ calls[k].step \in Outcomes \cup {"idle", "update", "search", "get", "strip"}
         /\ calls[k].pass <= Passes
         /\ calls[k].todo \subseteq Of(calls[k].wants, calls[k].field)
    /\ misses \in 0 .. MaxMisses

(***************************************************************************)
(* A value that some call was answered for belongs to someone: a value     *)
(* taken from a record is on no record only while the call that took it    *)
(* still has to give it away or has failed to, or a stale list was written *)
(* over a record that had changed.  The strip and the retry are two calls  *)
(* with nothing to undo the first (rf-client.js:203-212, 405-443).         *)
(***************************************************************************)
Orphan(v) == \A c \in Holders : v \notin holds[c]

LostOnlyInHandover ==
    \A v \in Values :
        Orphan(v) /\ (\E k \in Callers : v \in calls[k].wants /\ calls[k].step = "ok") =>
            \/ clobbered
            \/ \E k \in Callers : v \in calls[k].wants /\ calls[k].step # "ok"
=============================================================================

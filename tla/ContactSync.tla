------------------------------ MODULE ContactSync ------------------------------
(***************************************************************************)
(* One candidate in Recruiterflow and its contact in Dialpad               *)
(* (src/handlers/rf-webhooks.js, dialpad-webhooks.js, dialpad-sync.js).    *)
(* Each system tells the worker of every change, the worker's own ones     *)
(* included, and the worker copies the change to the other.  What ends the *)
(* echo is a flag in KV that lives for TTL, is put after the copy, and is  *)
(* read in one direction only.  Webhooks are handled concurrently, in any  *)
(* order.                                                                  *)
(***************************************************************************)
EXTENDS Naturals, FiniteSets, FiniteSetsExt

CONSTANTS
    TTL,            \* life of the flag sync:RF{id}
    MaxDelay,       \* a webhook is answered within this time
    MaxEdits, MaxFaults, MaxInFlight   \* bounds

VARIABLES
    rf,         \* the edit whose email, phone and LinkedIn RF has; Nothing: they are empty
    dp,         \* the same of the contact, or NoContact
    complete,   \* RF has the organization and the title
    flag,       \* how long sync:RF{id} still exists
    kv,         \* the canonical record candidate:{id}, or NoContact
    hooks,      \* the webhooks in flight and the handlers they run
    edits, faults,
    \* History, read by the properties only:
    hurried     \* an edit came before the last was settled, or a delivery failed

syncVars == <<rf, dp, complete, flag, kv, hooks, edits, faults, hurried>>

ASSUME SyncConstants ==
    {TTL, MaxDelay, MaxEdits, MaxFaults, MaxInFlight} \subseteq Nat

Nothing == 0
NoContact == MaxEdits + 1
Contents == 0 .. MaxEdits

SyncInit ==
    /\ flag = 0
    /\ rf = Nothing /\ dp = NoContact /\ kv = NoContact
    /\ complete = FALSE
    /\ hooks = {} /\ edits = 0 /\ faults = 0
    /\ hurried = FALSE

Hook(from, content, whole) ==
    [id |-> Min(1 .. MaxInFlight \ {h.id : h \in hooks}), from |-> from, content |-> content,
     whole |-> whole, step |-> "sent", age |-> 0]

Room == Cardinality(hooks) < MaxInFlight
Debounced == flag > 0
Settled == hooks = {} /\ ~Debounced

To(h, step) == (hooks \ {h}) \cup {[h EXCEPT !.step = step]}
Done(h) == hooks \ {h}

(***************************************************************************)
(* A recruiter edits RF or Dialpad.  An edit may clear the fields; one in  *)
(* RF may add the organization and the title.                              *)
(***************************************************************************)
Edit(content) ==
    /\ edits < MaxEdits /\ Room
    /\ content \in {Nothing, edits + 1}
    /\ edits' = edits + 1
    /\ hurried' = (hurried \/ ~Settled \/ content = Nothing)

EditRF(content, whole) ==
    /\ Edit(content)
    /\ rf' = content
    /\ complete' = (complete \/ whole)
    /\ hooks' = hooks \cup {Hook("rf", content, complete')}
    /\ UNCHANGED <<dp, flag, kv, faults>>

EditDialpad(content) ==
    /\ dp # NoContact
    /\ Edit(content)
    /\ dp' = content
    /\ hooks' = hooks \cup {Hook("dialpad", content, TRUE)}
    /\ UNCHANGED <<rf, complete, flag, kv, faults>>

Tick ==
    /\ flag > 0 \/ hooks # {}
    /\ \A h \in hooks : h.age < MaxDelay
    /\ flag' = Max({0, flag - 1})
    /\ hooks' = {[h EXCEPT !.age = @ + 1] : h \in hooks}
    /\ UNCHANGED <<rf, dp, complete, kv, edits, faults, hurried>>

-----------------------------------------------------------------------------
\* Recruiterflow's webhook: PATCH, or PUT where there is no contact yet.

ValidateRF(h) ==
    /\ h.from = "rf" /\ h.step = "sent"
    /\ hooks' = To(h, IF h.whole THEN "patch" ELSE "cache")
    /\ UNCHANGED <<rf, dp, complete, flag, kv, edits, faults, hurried>>

\* buildContactData leaves an empty field out, and Dialpad leaves it alone.
Patched(old, h) == IF h.content = Nothing THEN old ELSE h.content

PatchDialpad(h) ==
    /\ h.step = "patch"
    /\ \/ /\ dp # NoContact /\ Room
          /\ dp' = Patched(dp, h)
          /\ hooks' = To(h, "flag") \cup {Hook("dialpad", dp', TRUE)}
       \/ /\ dp = NoContact
          /\ hooks' = To(h, "put")
          /\ UNCHANGED dp
    /\ UNCHANGED <<rf, complete, flag, kv, edits, faults, hurried>>

\* Dialpad tells of a contact it created too; that webhook is ignored.
PutDialpad(h) ==
    /\ h.step = "put"
    /\ dp' = h.content
    /\ hooks' = To(h, "flag")
    /\ UNCHANGED <<rf, complete, flag, kv, edits, faults, hurried>>

PutFlag(h) ==
    /\ h.step = "flag"
    /\ flag' = TTL
    /\ hooks' = To(h, "cache")
    /\ UNCHANGED <<rf, dp, complete, kv, edits, faults, hurried>>

CacheRF(h) ==
    /\ h.from = "rf" /\ h.step = "cache"
    /\ kv' = h.content
    /\ hooks' = Done(h)
    /\ UNCHANGED <<rf, dp, complete, flag, edits, faults, hurried>>

-----------------------------------------------------------------------------
\* Dialpad's webhook: nothing within the flag's life, nothing for no data.

\* Mutant: the flag is never read.
Skipped_Never(h) == h.content = Nothing
\* Mutant: the flag does not expire.
Skipped_Forever(h) == kv # NoContact \/ h.content = Nothing

Skipped(h) == Debounced \/ h.content = Nothing

CheckFlag(h) ==
    /\ h.from = "dialpad" /\ h.step = "sent"
    /\ hooks' = IF Skipped(h) THEN Done(h) ELSE To(h, "update")
    /\ UNCHANGED <<rf, dp, complete, flag, kv, edits, faults, hurried>>

UpdateRF(h) ==
    /\ h.step = "update" /\ Room
    /\ rf' = h.content
    /\ hooks' = To(h, "flag") \cup {Hook("rf", h.content, complete)}
    /\ UNCHANGED <<dp, complete, flag, kv, edits, faults, hurried>>

\* The cached record with the changes of Dialpad; without one, what RF has now.
CacheDialpad(h) ==
    /\ h.from = "dialpad" /\ h.step = "cache"
    /\ kv' = IF kv # NoContact THEN h.content ELSE rf
    /\ hooks' = Done(h)
    /\ UNCHANGED <<rf, dp, complete, flag, edits, faults, hurried>>

-----------------------------------------------------------------------------
(***************************************************************************)
(* A call fails and the handler answers 500: the sender tries again or     *)
(* gives up.  A conflict that updateRFCandidate cannot resolve is answered *)
(* 200.                                                                    *)
(***************************************************************************)
Fails(h) ==
    /\ faults < MaxFaults
    /\ h.step \in {"patch", "put", "flag", "update", "cache"}
    /\ hooks' \in {Done(h), Done(h) \cup {[h EXCEPT !.step = "sent", !.age = 0]}}
    /\ faults' = faults + 1
    /\ hurried' = TRUE
    /\ UNCHANGED <<rf, dp, complete, flag, kv, edits>>

Handles(h) ==
    \/ ValidateRF(h) \/ PatchDialpad(h) \/ PutDialpad(h) \/ CacheRF(h)
    \/ CheckFlag(h) \/ UpdateRF(h) \/ CacheDialpad(h)
    \/ PutFlag(h)

SyncNext ==
    \/ \E content \in Contents : EditDialpad(content) \/ \E whole \in BOOLEAN : EditRF(content, whole)
    \/ Tick
    \/ \E h \in hooks : Handles(h) \/ Fails(h)

SyncSpec == SyncInit /\ [][SyncNext]_syncVars

\* The runtime runs every handler it was given.
SyncFairness == \A i \in 1 .. MaxInFlight : WF_syncVars(\E h \in hooks : h.id = i /\ Handles(h))

FairSyncSpec == SyncSpec /\ SyncFairness

-----------------------------------------------------------------------------
SyncTypeOK ==
    /\ {rf} \subseteq Contents /\ {dp, kv} \subseteq Contents \cup {NoContact}
    /\ flag \in 0 .. TTL
    /\ \A h \in hooks : h.content \in Contents /\ h.age <= MaxDelay
    /\ Cardinality({h.id : h \in hooks}) = Cardinality(hooks)

(***************************************************************************)
(* Edits made one at a time, each after the last had settled, reach the    *)
(* other system: what is left when the webhooks have been handled is the   *)
(* same on both sides and in the cache (docs/architecture.md, the two data flows).          *)
(***************************************************************************)
QuietEditsConverge ==
    hooks = {} /\ ~hurried /\ edits > 0 =>
        kv = rf /\ (complete /\ dp # NoContact => rf = dp)

(***************************************************************************)
(* The echo of an edit dies: the two systems do not keep each other busy   *)
(* through the worker (docs/architecture.md:1098-1112).                    *)
(***************************************************************************)
EchoDies == <>[](hooks = {})
=============================================================================

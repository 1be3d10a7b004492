---------------------------- MODULE NeighborPrewarm ----------------------------
(***************************************************************************)
(* A recruiter walks through the queue of a job, one profile after the     *)
(* other.  Every profile opened starts handleNeighborPrewarm in the        *)
(* background (src/handlers/candidates.js), which loads the details of the *)
(* profiles around it, or ahead of it, into KV.  Positions are those of    *)
(* the job's batch index, which is complete before the walk.               *)
(***************************************************************************)
EXTENDS Integers

CONSTANTS
    Length,         \* of the batch index
    Ring,           \* PREWARM_RING, 30
    Trigger,        \* PREWARM_TRIGGER_DISTANCE, 20
    Prewarms,       \* calls of handleNeighborPrewarm
    Unsure          \* positions whose details RF may fail to give

ASSUME PrewarmConstants ==
    /\ Length \in Nat /\ Ring \in Nat /\ Trigger \in Nat
    /\ 0 < Trigger /\ Trigger <= Ring
    /\ Unsure \subseteq 1 .. Length

VARIABLES
    at,             \* the profile that is open; 0 before the first
    warm,           \* the positions whose details are in KV
    lastPrewarmIdx, \* the recruiter's prewarm state in KV, 0 if there is none
    prewarms,       \* [Prewarms -> the call, a record]
    \* History, read by the properties only:
    cold,           \* positions whose load failed, or whose details have expired
    settled         \* a call for the open profile has run to its end, and no details expired since

prewarmVars == <<at, warm, lastPrewarmIdx, prewarms, cold, settled>>

Positions == 1 .. Length
Asleep == [step |-> "idle", idx |-> 0, last |-> 0]

PrewarmInit ==
    /\ at = 0 /\ warm = {} /\ lastPrewarmIdx = 0
    /\ prewarms = [p \in Prewarms |-> Asleep]
    /\ cold = {} /\ settled = FALSE

\* The profile's own details are cached before the call starts.
Open(p, i) ==
    /\ prewarms[p] = Asleep
    /\ at # 0 => i \in {at - 1, at, at + 1}
    /\ at' = i /\ settled' = FALSE
    /\ warm' = warm \cup {i} /\ cold' = cold \ {i}
    /\ prewarms' = [prewarms EXCEPT ![p] = [step |-> "read", idx |-> i, last |-> 0]]
    /\ UNCHANGED lastPrewarmIdx

Within(idx, last) == last # 0 /\ idx - last < Trigger /\ last - idx < Trigger

Finishes(p) ==
    /\ prewarms' = [prewarms EXCEPT ![p] = Asleep]
    /\ settled' = (settled \/ prewarms[p].idx = at)

ReadState(p) ==
    LET idx == prewarms[p].idx IN
    /\ prewarms[p].step = "read"
    /\ \/ /\ Within(idx, lastPrewarmIdx)
          /\ Finishes(p)
       \/ /\ ~Within(idx, lastPrewarmIdx)
          /\ prewarms' = [prewarms EXCEPT ![p].step = "warm", ![p].last = lastPrewarmIdx]
          /\ UNCHANGED settled
    /\ UNCHANGED <<at, warm, lastPrewarmIdx, cold>>

\* Mutant: the ring lies behind, whichever way the recruiter goes.
ToWarm_Behind(idx, last) ==
    IF last = 0 THEN ((idx - Ring) .. (idx + Ring) \cap Positions) \ {idx}
                ELSE (idx - Ring) .. (idx - 1) \cap Positions

\* Both sides at first, then those ahead.
ToWarm(idx, last) ==
    IF last = 0 THEN ((idx - Ring) .. (idx + Ring) \cap Positions) \ {idx}
    ELSE IF idx > last THEN (idx + 1) .. (idx + Ring) \cap Positions
    ELSE (idx - Ring) .. (idx - 1) \cap Positions

\* prewarmCandidatesIfMissing: a failure is logged, and leaves the others alone.
Warm(p, failed) ==
    LET ring == ToWarm(prewarms[p].idx, prewarms[p].last) IN
    /\ prewarms[p].step = "warm"
    /\ failed \subseteq ring \ warm
    /\ warm' = (warm \cup ring) \ failed
    /\ cold' = (cold \ ring) \cup failed
    /\ prewarms' = [prewarms EXCEPT ![p].step = "put"]
    /\ UNCHANGED <<at, lastPrewarmIdx, settled>>

PutState(p) ==
    /\ prewarms[p].step = "put"
    /\ lastPrewarmIdx' = prewarms[p].idx
    /\ Finishes(p)
    /\ UNCHANGED <<at, warm, cold>>

\* KV fails, which is logged, or the runtime ends the background work.
Dies(p) ==
    /\ prewarms[p] # Asleep
    /\ prewarms' = [prewarms EXCEPT ![p] = Asleep]
    /\ UNCHANGED <<at, warm, lastPrewarmIdx, cold, settled>>

\* The details expire after 20 minutes, the prewarm state after an hour.
DetailsExpire(i) ==
    /\ i \in warm
    /\ warm' = warm \ {i} /\ cold' = cold \cup {i}
    /\ settled' = FALSE
    /\ UNCHANGED <<at, lastPrewarmIdx, prewarms>>

StateExpires ==
    /\ lastPrewarmIdx' = 0
    /\ UNCHANGED <<at, warm, prewarms, cold, settled>>

PrewarmNext ==
    \/ \E p \in Prewarms :
         \/ \E i \in Positions : Open(p, i)
         \/ ReadState(p) \/ PutState(p) \/ Dies(p)
         \/ \E failed \in SUBSET Unsure : Warm(p, failed)
    \/ \E i \in Positions : DetailsExpire(i)
    \/ StateExpires

PrewarmSpec == PrewarmInit /\ [][PrewarmNext]_prewarmVars

-----------------------------------------------------------------------------
PrewarmTypeOK ==
    /\ at \in 0 .. Length /\ lastPrewarmIdx \in 0 .. Length
    /\ warm \subseteq Positions /\ cold \subseteq Positions
    /\ prewarms \in [Prewarms -> [step : {"idle", "read", "warm", "put"},
                                  idx : 0 .. Length, last : 0 .. Length]]
    /\ settled \in BOOLEAN

Neighbours == {at - 1, at + 1} \cap Positions

(***************************************************************************)
(* Once the prewarm of the open profile has ended, the next profile either *)
(* way has been loaded, however the calls of the walk overlapped and       *)
(* whatever state they left behind; what is not in KV then failed to load  *)
(* or has expired (cache.js:19-22, handleNeighborPrewarm).                 *)
(***************************************************************************)
NextWasWarmed == settled => Neighbours \subseteq warm \cup cold
=============================================================================

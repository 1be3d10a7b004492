---------------------------- MODULE RequestsProofs ----------------------------
(***************************************************************************)
(* What the extension's and the webhooks' handlers hold for any number of  *)
(* requests, calls, candidates and jobs, and any life, window or limit.    *)
(* Each part shares no state with the others: its theorem is about its own *)
(* specification, and MCRequests' next-state relation implies every one of *)
(* these.                                                                  *)
(***************************************************************************)
EXTENDS MCRequests, AssistantProofs, SequenceTheorems, FiniteSetTheorems, WellFoundedInduction, TLAPS

-----------------------------------------------------------------------------
(***************************************************************************)
(* Prewarming.  The recruiter goes from a profile to one next to it, so    *)
(* what has been opened is an interval a .. b, and has been loaded.  A     *)
(* position that a call leaves as the prewarm state has loaded the ring    *)
(* ahead of it; behind it, either the ring too, or the walk has come from  *)
(* at least a trigger away.  So a call that is skipped because the state   *)
(* is near finds its next profile, where the walk has not been, in that    *)
(* ring.                                                                   *)
(***************************************************************************)

Loaded == warm \cup cold

\* What a position offers the calls near it.
LoadedAhead(i, b) == i + Trigger <= b \/ (i + 1) .. (i + Ring) \cap Positions \subseteq Loaded
LoadedBehind(i, a) == a <= i - Trigger \/ (i - Ring) .. (i - 1) \cap Positions \subseteq Loaded
Serves(i, a, b) == LoadedAhead(i, b) /\ LoadedBehind(i, a)

\* A call of a walk between a and b.
CallInv(p, a, b) ==
    /\ prewarms[p] # Asleep => prewarms[p].idx \in a .. b
    /\ prewarms[p].last \in {0} \cup a .. b
    /\ prewarms[p].step = "warm" => ~Within(prewarms[p].idx, prewarms[p].last)
    /\ prewarms[p].step = "put" => Serves(prewarms[p].idx, a, b)

WalkInv(a, b) ==
    /\ a .. b \subseteq Loaded /\ at \in a .. b
    /\ lastPrewarmIdx # 0 => lastPrewarmIdx \in a .. b /\ Serves(lastPrewarmIdx, a, b)
    /\ \A p \in Prewarms : CallInv(p, a, b)

Unstarted == at = 0 /\ lastPrewarmIdx = 0 /\ prewarms = [p \in Prewarms |-> Asleep]

PrewarmInv ==
    /\ PrewarmTypeOK
    /\ NextWasWarmed
    /\ Unstarted \/ \E a, b \in Positions : WalkInv(a, b)

-----------------------------------------------------------------------------
(* The types alone, which every step keeps. *)
LEMMA PrewarmTypesKept == PrewarmTypeOK /\ [PrewarmNext]_prewarmVars => PrewarmTypeOK'
<1> SUFFICES ASSUME PrewarmTypeOK, [PrewarmNext]_prewarmVars PROVE PrewarmTypeOK'
  OBVIOUS
<1> USE PrewarmConstants DEF PrewarmTypeOK, Positions, Asleep
<1>1. ASSUME NEW p \in Prewarms, NEW i \in Positions, Open(p, i) PROVE PrewarmTypeOK'
  <2>1. [step |-> "read", idx |-> i, last |-> 0] \in
          [step : {"idle", "read", "warm", "put"}, idx : 0 .. Length, last : 0 .. Length]
    OBVIOUS
  <2>2. /\ prewarms' = [prewarms EXCEPT ![p] = [step |-> "read", idx |-> i, last |-> 0]]
        /\ at' = i /\ settled' = FALSE /\ warm' = warm \cup {i} /\ cold' = cold \ {i}
        /\ UNCHANGED lastPrewarmIdx
    BY <1>1 DEF Open
  <2> QED BY <2>1, <2>2
<1>2. ASSUME NEW p \in Prewarms, ReadState(p) PROVE PrewarmTypeOK'
  <2>1. CASE Finishes(p) /\ UNCHANGED <<at, warm, lastPrewarmIdx, cold>>
    <3>1. settled' \in BOOLEAN
      BY <2>1 DEF Finishes
    <3> QED BY <2>1, <3>1 DEF Finishes
  <2>2. CASE /\ prewarms' = [prewarms EXCEPT ![p].step = "warm", ![p].last = lastPrewarmIdx]
             /\ UNCHANGED <<at, warm, lastPrewarmIdx, cold, settled>>
    BY <2>2
  <2> QED BY <1>2, <2>1, <2>2 DEF ReadState
<1>3. ASSUME NEW p \in Prewarms, PutState(p) PROVE PrewarmTypeOK'
  <2>1. settled' \in BOOLEAN
    BY <1>3 DEF PutState, Finishes
  <2> QED BY <1>3, <2>1 DEF PutState, Finishes
<1>4. ASSUME NEW p \in Prewarms, Dies(p) PROVE PrewarmTypeOK'
  BY <1>4 DEF Dies
<1>5. ASSUME NEW p \in Prewarms, NEW failed \in SUBSET Unsure, Warm(p, failed) PROVE PrewarmTypeOK'
  BY <1>5 DEF Warm, ToWarm
<1>6. ASSUME NEW i \in Positions, DetailsExpire(i) PROVE PrewarmTypeOK'
  BY <1>6 DEF DetailsExpire
<1>7. CASE StateExpires
  BY <1>7 DEF StateExpires
<1>8. CASE UNCHANGED prewarmVars
  BY <1>8 DEF prewarmVars
<1> QED BY <1>1, <1>2, <1>3, <1>4, <1>5, <1>6, <1>7, <1>8 DEF PrewarmNext

(* What has been loaded, or could not be, stays so. *)
LEMMA LoadedGrows == PrewarmTypeOK /\ [PrewarmNext]_prewarmVars => Loaded \subseteq Loaded'
  BY DEF PrewarmNext, Open, ReadState, Finishes, PutState, Dies, Warm, DetailsExpire, StateExpires,
         prewarmVars, Loaded

(* And what a position offers grows with the walk. *)
LEMMA ServesStays ==
  ASSUME NEW i \in Int, NEW a \in Int, NEW b \in Int, NEW c \in Int, NEW d \in Int, c <= a, b <= d,
         Loaded \subseteq Loaded', Serves(i, a, b)
  PROVE  Serves(i, c, d)'
  BY PrewarmConstants DEF Serves, LoadedAhead, LoadedBehind, Positions

-----------------------------------------------------------------------------
(* A walk goes on between wider bounds: what a step adds to it. *)
LEMMA StartsWalk ==
  ASSUME PrewarmTypeOK, Unstarted, NEW p \in Prewarms, NEW i \in Positions, Open(p, i)
  PROVE  WalkInv(i, i)'
<1> USE DEF PrewarmTypeOK, Unstarted, Positions
<1>1. prewarms' = [prewarms EXCEPT ![p] = [step |-> "read", idx |-> i, last |-> 0]] /\ at' = i
  BY DEF Open
<1>2. i .. i \subseteq Loaded' /\ lastPrewarmIdx' = 0
  BY PrewarmConstants DEF Open, Loaded
<1>3. ASSUME NEW q \in Prewarms PROVE CallInv(q, i, i)'
  BY <1>1, PrewarmConstants DEF CallInv, Asleep
<1> QED BY <1>1, <1>2, <1>3, PrewarmConstants DEF WalkInv

(* The calls that a step leaves alone. *)
LEMMA CallStays ==
  ASSUME PrewarmTypeOK, NEW a \in Positions, NEW b \in Positions, NEW c \in Int, NEW d \in Int,
         c <= a, b <= d, Loaded \subseteq Loaded', NEW q \in Prewarms, CallInv(q, a, b),
         prewarms'[q] = prewarms[q]
  PROVE  CallInv(q, c, d)'
<1>1. prewarms[q].idx \in Int
  BY PrewarmConstants DEF PrewarmTypeOK
<1>2. prewarms[q].step = "put" => Serves(prewarms[q].idx, c, d)'
  BY <1>1, ServesStays DEF CallInv, Positions
<1>3. a \in Int /\ b \in Int
  BY PrewarmConstants DEF Positions
<1> QED BY <1>1, <1>2, <1>3, PrewarmConstants DEF CallInv, PrewarmTypeOK, Within, Serves, LoadedAhead, LoadedBehind

(* Opening the next profile may widen the walk by one. *)
LEMMA OpenWalks ==
  ASSUME PrewarmTypeOK, NEW a \in Positions, NEW b \in Positions, WalkInv(a, b),
         NEW p \in Prewarms, NEW i \in Positions, Open(p, i), Loaded \subseteq Loaded'
  PROVE  \E c, d \in Positions : WalkInv(c, d)'
<1> DEFINE c == IF i < a THEN i ELSE a
           d == IF i > b THEN i ELSE b
<1>1. a \in Int /\ b \in Int /\ i \in Int /\ c \in Positions /\ d \in Positions /\ c <= a /\ b <= d
  BY PrewarmConstants DEF Positions
<1>2. i \in {at - 1, at, at + 1} /\ at \in a .. b
  BY PrewarmConstants DEF Open, WalkInv, Positions
<1>3. c .. d \subseteq Loaded'
  <2>1. c .. d \subseteq (a .. b) \cup {i}
    BY <1>1, <1>2
  <2>2. i \in Loaded'
    BY DEF Open, Loaded
  <2> QED BY <2>1, <2>2 DEF WalkInv
<1>4. at' = i /\ i \in c .. d
  BY <1>1, <1>2 DEF Open
<1>5. lastPrewarmIdx' = lastPrewarmIdx
  BY DEF Open
<1>6. lastPrewarmIdx # 0 => lastPrewarmIdx \in c .. d /\ Serves(lastPrewarmIdx, c, d)'
  <2> SUFFICES ASSUME lastPrewarmIdx # 0
               PROVE  lastPrewarmIdx \in c .. d /\ Serves(lastPrewarmIdx, c, d)'
    OBVIOUS
  <2>1. lastPrewarmIdx \in a .. b /\ Serves(lastPrewarmIdx, a, b) /\ lastPrewarmIdx \in Int
    BY <1>1 DEF WalkInv
  <2>2. \A k \in Int : Serves(k, a, b) => Serves(k, c, d)'
    BY <1>1, ServesStays
  <2>3. Serves(lastPrewarmIdx, c, d)'
    BY <1>5, <2>1, <2>2 DEF Serves, LoadedAhead, LoadedBehind
  <2> QED BY <1>1, <2>1, <2>3
<1>7. ASSUME NEW q \in Prewarms PROVE CallInv(q, c, d)'
  <2>1. CASE q = p
    <3>1. prewarms'[q] = [step |-> "read", idx |-> i, last |-> 0]
      BY <2>1 DEF Open, PrewarmTypeOK
    <3> QED BY <1>4, <3>1 DEF CallInv
  <2>2. CASE q # p
    <3>1. prewarms'[q] = prewarms[q]
      BY <2>2 DEF Open, PrewarmTypeOK
    <3> QED BY <1>1, <3>1, CallStays DEF WalkInv
  <2> QED BY <2>1, <2>2
<1>8. WalkInv(c, d)'
  BY <1>3, <1>4, <1>5, <1>6, <1>7 DEF WalkInv, Serves, LoadedAhead, LoadedBehind
<1> QED BY <1>1, <1>8

(* A call that has loaded its ring serves those near its position. *)
LEMMA WarmServes ==
  ASSUME PrewarmTypeOK, NEW a \in Positions, NEW b \in Positions, WalkInv(a, b),
         NEW p \in Prewarms, NEW failed \in SUBSET Unsure, Warm(p, failed)
  PROVE  /\ prewarms[p].idx \in a .. b
         /\ \A k \in Int : k = prewarms[p].idx => Serves(k, a, b)'
<1> DEFINE idx == prewarms[p].idx
           last == prewarms[p].last
<1>1. /\ prewarms[p].step = "warm"
      /\ ToWarm(idx, last) \subseteq Loaded'
  BY DEF Warm, Loaded
<1>2. idx \in a .. b /\ last \in {0} \cup a .. b /\ ~Within(idx, last)
  BY <1>1 DEF WalkInv, CallInv, Asleep
<1>3. a \in Int /\ b \in Int /\ idx \in Int /\ last \in Int
  BY <1>2, PrewarmConstants DEF Positions
<1>4. a .. b \subseteq Loaded'
  BY DEF WalkInv, Warm, Loaded
<1>5. CASE last = 0
  BY <1>1, <1>2, <1>3, <1>5, PrewarmConstants DEF ToWarm, Serves, LoadedAhead, LoadedBehind, Positions
<1>6. CASE last # 0 /\ idx > last
  <2>1. a <= idx - Trigger
    BY <1>2, <1>3, <1>6, PrewarmConstants DEF Within
  <2> QED BY <1>1, <1>2, <1>3, <1>6, <2>1, PrewarmConstants DEF ToWarm, Serves, LoadedAhead, LoadedBehind, Positions
<1>7. CASE last # 0 /\ ~(idx > last)
  <2>1. idx + Trigger <= b
    BY <1>2, <1>3, <1>7, PrewarmConstants DEF Within
  <2> QED BY <1>1, <1>2, <1>3, <1>7, <2>1, PrewarmConstants DEF ToWarm, Serves, LoadedAhead, LoadedBehind, Positions
<1> QED BY <1>2, <1>5, <1>6, <1>7

(* The steps of a call, and of the clock, stay within the walk. *)
LEMMA CallWalks ==
  ASSUME PrewarmTypeOK, NEW a \in Positions, NEW b \in Positions, WalkInv(a, b),
         Loaded \subseteq Loaded', UNCHANGED at,
         NEW p \in Prewarms,
         \/ ReadState(p) \/ PutState(p) \/ Dies(p) \/ \E failed \in SUBSET Unsure : Warm(p, failed)
  PROVE  WalkInv(a, b)'
<1>1. a \in Int /\ b \in Int /\ a .. b \subseteq Loaded' /\ at' \in a .. b /\ a <= b
  BY PrewarmConstants DEF WalkInv, Positions
<1>2. ASSUME NEW q \in Prewarms, q # p PROVE CallInv(q, a, b)'
  <2>1. prewarms'[q] = prewarms[q]
    BY <1>2 DEF ReadState, PutState, Dies, Warm, Finishes, PrewarmTypeOK
  <2> QED BY <1>1, <2>1, CallStays DEF WalkInv
<1>3. \A k \in Int : Serves(k, a, b) => Serves(k, a, b)'
  BY <1>1, ServesStays
<1>4. CallInv(p, a, b)'
  <2>1. CASE prewarms' = [prewarms EXCEPT ![p] = Asleep]
    <3>1. prewarms'[p] = Asleep
      BY <2>1 DEF PrewarmTypeOK
    <3> QED BY <3>1 DEF CallInv, Asleep
  <2>2. ASSUME prewarms' = [prewarms EXCEPT ![p].step = "warm", ![p].last = lastPrewarmIdx],
               ~Within(prewarms[p].idx, lastPrewarmIdx), prewarms[p].step = "read"
        PROVE  CallInv(p, a, b)'
    <3>1. /\ prewarms'[p].step = "warm" /\ prewarms'[p].last = lastPrewarmIdx
          /\ prewarms'[p].idx = prewarms[p].idx
      BY <2>2 DEF PrewarmTypeOK
    <3>2. prewarms[p].idx \in a .. b
      BY <2>2 DEF WalkInv, CallInv, Asleep
    <3>3. lastPrewarmIdx \in {0} \cup a .. b
      BY DEF WalkInv
    <3> QED BY <2>2, <3>1, <3>2, <3>3 DEF CallInv, Within
  <2>3. ASSUME NEW failed \in SUBSET Unsure, Warm(p, failed)
        PROVE  CallInv(p, a, b)'
    <3>1. /\ prewarms'[p].step = "put" /\ prewarms'[p].last = prewarms[p].last
          /\ prewarms'[p].idx = prewarms[p].idx
      BY <2>3 DEF Warm, PrewarmTypeOK
    <3>2. prewarms[p].idx \in a .. b /\ prewarms[p].idx \in Int
      BY <1>1, <2>3, WarmServes
    <3>3. Serves(prewarms[p].idx, a, b)'
      <4>1. \A k \in Int : k = prewarms[p].idx => Serves(k, a, b)'
        BY <2>3, WarmServes
      <4> QED BY <3>1, <3>2, <4>1 DEF Serves, LoadedAhead, LoadedBehind
    <3>4. prewarms[p].last \in {0} \cup a .. b
      BY DEF WalkInv, CallInv
    <3> QED BY <3>1, <3>2, <3>3, <3>4 DEF CallInv
  <2> QED BY <2>1, <2>2, <2>3 DEF ReadState, PutState, Dies, Finishes
<1>5. lastPrewarmIdx' # 0 => lastPrewarmIdx' \in a .. b /\ Serves(lastPrewarmIdx, a, b)'
  <2>1. CASE UNCHANGED lastPrewarmIdx
    BY <1>1, <1>3, <2>1 DEF WalkInv, Serves, LoadedAhead, LoadedBehind
  <2>2. CASE PutState(p)
    <3>1. lastPrewarmIdx' = prewarms[p].idx /\ prewarms[p].step = "put"
      BY <2>2 DEF PutState
    <3>2. prewarms[p].idx \in a .. b /\ Serves(prewarms[p].idx, a, b) /\ prewarms[p].idx \in Int
      BY <1>1, <3>1 DEF WalkInv, CallInv, Asleep
    <3> QED BY <1>3, <3>1, <3>2 DEF Serves, LoadedAhead, LoadedBehind
  <2> QED BY <2>1, <2>2 DEF ReadState, Dies, Warm
<1> QED BY <1>1, <1>2, <1>4, <1>5 DEF WalkInv

-----------------------------------------------------------------------------
(* Where the walk stands, its neighbours are loaded once a call served it. *)
LEMMA ServedAt ==
  ASSUME PrewarmTypeOK, NEW a \in Positions, NEW b \in Positions, at \in a .. b, a .. b \subseteq Loaded,
         NEW i \in a .. b, Serves(i, a, b), i = at \/ Within(at, i)
  PROVE  Neighbours \subseteq Loaded
<1>1. a \in Int /\ b \in Int /\ at \in Int /\ i \in Int
  BY PrewarmConstants DEF Positions
<1>2. at - i < Trigger /\ i - at < Trigger
  BY <1>1, PrewarmConstants DEF Within
<1>3. at + 1 \in Positions => at + 1 \in Loaded
  <2>1. CASE at + 1 <= b
    BY <1>1, <2>1
  <2>2. CASE at = b
    <3>1. at + 1 \in (i + 1) .. (i + Ring) /\ ~(i + Trigger <= b)
      BY <1>1, <1>2, <2>2, PrewarmConstants
    <3> QED BY <3>1 DEF Serves, LoadedAhead
  <2> QED BY <1>1, <2>1, <2>2
<1>4. at - 1 \in Positions => at - 1 \in Loaded
  <2>1. CASE a <= at - 1
    BY <1>1, <2>1
  <2>2. CASE at = a
    <3>1. at - 1 \in (i - Ring) .. (i - 1) /\ ~(a <= i - Trigger)
      BY <1>1, <1>2, <2>2, PrewarmConstants
    <3> QED BY <3>1 DEF Serves, LoadedBehind
  <2> QED BY <1>1, <2>1, <2>2
<1> QED BY <1>3, <1>4 DEF Neighbours

(* What expires was loaded once: the walk stays. *)
LEMMA ClockWalks ==
  ASSUME PrewarmTypeOK, NEW a \in Positions, NEW b \in Positions, WalkInv(a, b),
         Loaded \subseteq Loaded', UNCHANGED <<at, prewarms>>,
         lastPrewarmIdx' \in {0, lastPrewarmIdx}
  PROVE  WalkInv(a, b)'
<1>1. a \in Int /\ b \in Int /\ a <= a /\ b <= b /\ a .. b \subseteq Loaded' /\ at' \in a .. b
  BY DEF WalkInv, Positions
<1>2. ASSUME NEW q \in Prewarms PROVE CallInv(q, a, b)'
  <2>1. prewarms'[q] = prewarms[q]
    OBVIOUS
  <2> QED BY <1>1, <2>1, CallStays DEF WalkInv
<1>3. \A k \in Int : Serves(k, a, b) => Serves(k, a, b)'
  BY <1>1, ServesStays
<1>4. lastPrewarmIdx' # 0 => lastPrewarmIdx' \in a .. b /\ Serves(lastPrewarmIdx, a, b)'
  BY <1>1, <1>3 DEF WalkInv, Serves, LoadedAhead, LoadedBehind
<1> QED BY <1>1, <1>2, <1>4 DEF WalkInv

(* A step keeps the walk, or begins one. *)
LEMMA WalkKept ==
  PrewarmTypeOK /\ [PrewarmNext]_prewarmVars /\ (Unstarted \/ \E a, b \in Positions : WalkInv(a, b))
    => Unstarted' \/ \E a, b \in Positions : WalkInv(a, b)'
<1> SUFFICES ASSUME PrewarmTypeOK, [PrewarmNext]_prewarmVars,
                    Unstarted \/ \E a, b \in Positions : WalkInv(a, b)
             PROVE  Unstarted' \/ \E a, b \in Positions : WalkInv(a, b)'
  OBVIOUS
<1>1. Loaded \subseteq Loaded'
  BY LoadedGrows
<1>2. CASE Unstarted
  <2>1. ASSUME NEW p \in Prewarms PROVE prewarms[p] = Asleep
    BY <1>2 DEF Unstarted
  <2>2. ASSUME NEW p \in Prewarms
        PROVE  ~ReadState(p) /\ ~PutState(p) /\ ~Dies(p) /\ \A failed \in SUBSET Unsure : ~Warm(p, failed)
    BY <2>1 DEF ReadState, PutState, Dies, Warm, Asleep
  <2>3. ASSUME NEW p \in Prewarms, NEW i \in Positions, Open(p, i)
        PROVE  \E a, b \in Positions : WalkInv(a, b)'
    BY <1>2, <2>3, StartsWalk
  <2>4. CASE \/ \E i \in Positions : DetailsExpire(i)
             \/ StateExpires
             \/ UNCHANGED prewarmVars
    BY <1>2, <2>4 DEF Unstarted, DetailsExpire, StateExpires, prewarmVars
  <2> QED BY <2>2, <2>3, <2>4 DEF PrewarmNext
<1>3. CASE \E a, b \in Positions : WalkInv(a, b)
  <2> PICK a \in Positions, b \in Positions : WalkInv(a, b)
    BY <1>3
  <2>1. ASSUME NEW p \in Prewarms, NEW i \in Positions, Open(p, i)
        PROVE  \E c, d \in Positions : WalkInv(c, d)'
    BY <1>1, <2>1, OpenWalks
  <2>2. ASSUME NEW p \in Prewarms,
               \/ ReadState(p) \/ PutState(p) \/ Dies(p) \/ \E failed \in SUBSET Unsure : Warm(p, failed)
        PROVE  WalkInv(a, b)'
    <3>1. UNCHANGED at
      BY <2>2 DEF ReadState, PutState, Dies, Warm
    <3> QED BY <1>1, <2>2, <3>1, CallWalks
  <2>3. CASE \/ \E i \in Positions : DetailsExpire(i)
             \/ StateExpires
             \/ UNCHANGED prewarmVars
    <3>1. UNCHANGED <<at, prewarms>> /\ lastPrewarmIdx' \in {0, lastPrewarmIdx}
      BY <2>3 DEF DetailsExpire, StateExpires, prewarmVars
    <3> QED BY <1>1, <3>1, ClockWalks
  <2> QED BY <2>1, <2>2, <2>3 DEF PrewarmNext
<1> QED BY <1>2, <1>3

(* Who ends for the open profile has been served. *)
LEMMA SettledIsServed ==
  PrewarmTypeOK /\ [PrewarmNext]_prewarmVars /\ NextWasWarmed
    /\ (Unstarted \/ \E a, b \in Positions : WalkInv(a, b))
    => NextWasWarmed'
<1> SUFFICES ASSUME PrewarmTypeOK, [PrewarmNext]_prewarmVars, NextWasWarmed,
                    Unstarted \/ \E a, b \in Positions : WalkInv(a, b), settled'
             PROVE  Neighbours' \subseteq Loaded'
  BY DEF NextWasWarmed, Loaded
<1>1. Loaded \subseteq Loaded'
  BY LoadedGrows
<1>2. CASE settled /\ UNCHANGED at
  BY <1>1, <1>2 DEF NextWasWarmed, Neighbours, Loaded
<1>3. ASSUME NEW p \in Prewarms, ReadState(p) \/ PutState(p), prewarms[p].idx = at
      PROVE  Neighbours' \subseteq Loaded'
  <2>1. prewarms[p] # Asleep /\ UNCHANGED at
    <3>1. prewarms[p].step # Asleep.step
      BY <1>3 DEF ReadState, PutState, Asleep
    <3>2. UNCHANGED at
      BY <1>3 DEF ReadState, PutState
    <3> QED BY <3>1, <3>2
  <2>2. ~Unstarted
    BY <2>1 DEF Unstarted
  <2> PICK a \in Positions, b \in Positions : WalkInv(a, b)
    BY <2>2
  <2>3. at \in a .. b /\ a .. b \subseteq Loaded
    BY DEF WalkInv
  <2>4. CASE PutState(p)
    <3>1. Serves(prewarms[p].idx, a, b)
      BY <2>4 DEF PutState, WalkInv, CallInv
    <3>2. Serves(at, a, b)
      BY <1>3, <3>1
    <3>3. Neighbours \subseteq Loaded
      BY <2>3, <3>2, ServedAt
    <3> QED BY <1>1, <2>1, <3>3 DEF Neighbours
  <2>5. CASE ReadState(p) /\ Within(prewarms[p].idx, lastPrewarmIdx)
    <3>1. lastPrewarmIdx \in a .. b /\ Serves(lastPrewarmIdx, a, b) /\ Within(at, lastPrewarmIdx)
      BY <1>3, <2>5 DEF WalkInv, Within
    <3>2. Neighbours \subseteq Loaded
      BY <2>3, <3>1, ServedAt
    <3> QED BY <1>1, <2>1, <3>2 DEF Neighbours
  <2>6. CASE ReadState(p) /\ ~Within(prewarms[p].idx, lastPrewarmIdx)
    BY <1>2, <2>1, <2>6 DEF ReadState
  <2> QED BY <1>3, <2>4, <2>5, <2>6
<1>4. ASSUME NEW p \in Prewarms, ReadState(p) \/ PutState(p)
      PROVE  (settled /\ UNCHANGED at) \/ prewarms[p].idx = at
  BY <1>4 DEF ReadState, PutState, Finishes
<1>5. ASSUME NEW p \in Prewarms,
             \/ \E i \in Positions : Open(p, i)
             \/ Dies(p)
             \/ \E failed \in SUBSET Unsure : Warm(p, failed)
      PROVE  settled /\ UNCHANGED at
  BY <1>5 DEF Open, Dies, Warm
<1>6. CASE \/ \E i \in Positions : DetailsExpire(i)
           \/ StateExpires
           \/ UNCHANGED prewarmVars
  BY <1>2, <1>6 DEF DetailsExpire, StateExpires, prewarmVars
<1> QED BY <1>2, <1>3, <1>4, <1>5, <1>6 DEF PrewarmNext

-----------------------------------------------------------------------------
LEMMA PrewarmInvInit == PrewarmInit => PrewarmInv
<1> SUFFICES ASSUME PrewarmInit PROVE PrewarmInv
  OBVIOUS
<1>1. PrewarmTypeOK
  <2>1. Asleep \in [step : {"idle", "read", "warm", "put"}, idx : 0 .. Length, last : 0 .. Length]
    BY PrewarmConstants DEF Asleep
  <2>2. 0 \in 0 .. Length
    BY PrewarmConstants
  <2> QED BY <2>1, <2>2 DEF PrewarmInit, PrewarmTypeOK
<1>2. NextWasWarmed /\ Unstarted
  BY DEF PrewarmInit, NextWasWarmed, Unstarted
<1> QED BY <1>1, <1>2 DEF PrewarmInv

LEMMA PrewarmInvNext == PrewarmInv /\ [PrewarmNext]_prewarmVars => PrewarmInv'
<1> SUFFICES ASSUME PrewarmInv, [PrewarmNext]_prewarmVars PROVE PrewarmInv'
  OBVIOUS
<1>1. PrewarmTypeOK'
  BY PrewarmTypesKept DEF PrewarmInv
<1>2. Unstarted' \/ \E a, b \in Positions : WalkInv(a, b)'
  BY WalkKept DEF PrewarmInv
<1>3. NextWasWarmed'
  BY SettledIsServed DEF PrewarmInv
<1> QED BY <1>1, <1>2, <1>3 DEF PrewarmInv, Positions

(***************************************************************************)
(* Once the prewarm of the open profile has ended, the next profile either *)
(* way has been loaded: for every list, ring and trigger distance, however *)
(* the calls overlapped, died or failed (handleNeighborPrewarm).           *)
(***************************************************************************)
THEOREM PrewarmWarmsNext == PrewarmSpec => []NextWasWarmed
<1>1. PrewarmInv => NextWasWarmed
  BY DEF PrewarmInv
<1> QED BY <1>1, PrewarmInvInit, PrewarmInvNext, PTL DEF PrewarmSpec

(* Positions, loads and prewarms are what they may be.                     *)
THEOREM PrewarmTyped == PrewarmSpec => []PrewarmTypeOK
<1>1. PrewarmInv => PrewarmTypeOK
  BY DEF PrewarmInv
<1> QED BY <1>1, PrewarmInvInit, PrewarmInvNext, PTL DEF PrewarmSpec

-----------------------------------------------------------------------------
(***************************************************************************)
(* The extension's calls.  A call has one event of each kind.  A call that *)
(* is over and still on record waits for its hangup because the record     *)
(* cannot name a call whose announcement is still under way.               *)
(***************************************************************************)

EventRecords == [call : Dialled, state : {"calling", "hangup"}, step : {"sent", "bump", "clear"},
                 count : Nat]

ExtensionShape ==
    /\ atDialpad \in [Dialled -> {"not yet", "live", "over"}]
    /\ callId \in Dialled \cup {NoCall} /\ alarm \in 0 .. Never
    /\ callId = NoCall <=> alarm = Never
    /\ events \subseteq EventRecords
    /\ dailyCount \in Nat /\ counted \subseteq Dialled

CalledOf(c) == \E e \in events : e.call = c /\ e.state = "calling"
HangupOf(c) == \E e \in events : e.call = c /\ e.state = "hangup"

EventsAreOfCalls ==
    /\ \A e \in events :
         /\ atDialpad[e.call] # "not yet"
         /\ e.state = "calling" => e.step = "sent" /\ callId # e.call
         /\ e.state = "hangup" => atDialpad[e.call] = "over"
         /\ e.state = "hangup" /\ e.call \in counted => e.step = "clear"
    /\ \A e, f \in events : e.call = f.call /\ e.state = f.state => e = f
    /\ callId # NoCall => atDialpad[callId] # "not yet"
    /\ \A c \in counted : atDialpad[c] = "over"

OverIsKnown ==
    \A c \in Dialled : atDialpad[c] = "over" =>
        c \in unmatched \/ HangupOf(c) \/ (callId # c /\ ~CalledOf(c))

CountIsOf ==
    /\ dailyCount <= Cardinality(counted)
    /\ \A e \in events : e.count <= Cardinality(counted)
    /\ ~miscounted => /\ dailyCount = Cardinality(counted)
                      /\ \A e \in events : e.step = "bump" => e.count = dailyCount
                      /\ \A e, f \in events : e.step = "bump" /\ f.step = "bump" => e = f

LastIsOnRecord == announced # NoCall /\ announced \notin closed /\ ~expired => callId = announced

ExtensionInv ==
    ExtensionShape /\ EventsAreOfCalls /\ OverIsKnown /\ CountIsOf /\ LastIsOnRecord

LEMMA CountedIsFinite ==
  ASSUME counted \subseteq Dialled
  PROVE  IsFiniteSet(counted) /\ Cardinality(counted) \in Nat /\ Cardinality(counted) <= Cardinality(Dialled)
  BY ExtensionConstants, FS_Subset, FS_CardinalityType

LEMMA ExtensionInvInit == ExtensionInit => ExtensionInv
<1> SUFFICES ASSUME ExtensionInit PROVE ExtensionInv
  OBVIOUS
<1>1. /\ atDialpad = [c \in Dialled |-> "not yet"] /\ callId = NoCall /\ alarm = Never
      /\ events = {} /\ dailyCount = 0 /\ announced = NoCall /\ counted = {}
  BY DEF ExtensionInit
<1>2. Cardinality(counted) = 0
  BY <1>1, FS_EmptySet
<1>3. Never \in 0 .. Never
  BY ExtensionConstants DEF Never
<1>4. ExtensionShape
  BY <1>1, <1>3 DEF ExtensionShape
<1>5. EventsAreOfCalls
  BY <1>1 DEF EventsAreOfCalls
<1>6. OverIsKnown /\ LastIsOnRecord
  BY <1>1 DEF OverIsKnown, LastIsOnRecord
<1>7. CountIsOf
  <2>1. dailyCount = Cardinality(counted) /\ events = {} /\ dailyCount <= Cardinality(counted)
    <3>1. 0 <= 0
      OBVIOUS
    <3> QED BY <1>1, <1>2, <3>1, Zenon
  <2> QED BY ONLY <2>1 DEF CountIsOf
<1> QED BY <1>4, <1>5, <1>6, <1>7 DEF ExtensionInv

(* Dialpad's steps add an event of a call that has none of its kind. *)
LEMMA DialKeeps ==
  ASSUME ExtensionInv, NEW c \in Dialled, Dials(c) \/ Ends(c)
  PROVE  ExtensionInv'
<1>1. PICK state \in {"calling", "hangup"}, s \in {"live", "over"} :
        /\ atDialpad' = [atDialpad EXCEPT ![c] = s]
        /\ events' = events \cup {Event(c, state)}
        /\ state = "calling" => s = "live" /\ atDialpad[c] = "not yet"
        /\ state = "hangup" => s = "over" /\ atDialpad[c] = "live"
        /\ callId' = callId /\ alarm' = alarm /\ dailyCount' = dailyCount
        /\ announced' = announced /\ closed' = closed /\ expired' = expired
        /\ unmatched' = unmatched /\ counted' = counted /\ miscounted' = miscounted
  <2>1. CASE Dials(c)
    BY <2>1 DEF Dials
  <2>2. CASE Ends(c)
    BY <2>2 DEF Ends
  <2> QED BY <2>1, <2>2
<1> DEFINE new == Event(c, state)
<1>2. /\ new \in EventRecords /\ new.call = c /\ new.state = state /\ new.step = "sent"
      /\ new.count = 0
  BY DEF Event, EventRecords
<1> HIDE DEF new
<1>3. atDialpad \in [Dialled -> {"not yet", "live", "over"}] /\ events \subseteq EventRecords
  BY DEF ExtensionInv, ExtensionShape
<1>4. \A e \in events : e.call \in Dialled /\ e.state \in {"calling", "hangup"}
  BY <1>3 DEF EventRecords
<1>5. \A e \in events : ~(e.call = c /\ e.state = state)
  BY <1>1 DEF ExtensionInv, EventsAreOfCalls
<1>6. events' = events \cup {new}
  BY <1>1 DEF new
<1>7. ExtensionShape'
  BY <1>1, <1>2, <1>3, <1>6 DEF ExtensionInv, ExtensionShape
<1>8. EventsAreOfCalls'
  <2>1. ASSUME NEW e \in events'
        PROVE  /\ atDialpad'[e.call] # "not yet"
               /\ e.state = "calling" => e.step = "sent" /\ callId' # e.call
               /\ e.state = "hangup" => atDialpad'[e.call] = "over"
               /\ e.state = "hangup" /\ e.call \in counted' => e.step = "clear"
    <3>1. CASE e \in events
      BY <1>1, <1>3, <1>4, <3>1 DEF ExtensionInv, EventsAreOfCalls
    <3>2. CASE e = new
      BY <1>1, <1>2, <1>3, <3>2, ExtensionConstants
      DEF ExtensionInv, EventsAreOfCalls, ExtensionShape
    <3> QED BY <1>6, <3>1, <3>2
  <2>2. \A e, f \in events' : e.call = f.call /\ e.state = f.state => e = f
    BY <1>2, <1>5, <1>6 DEF ExtensionInv, EventsAreOfCalls
  <2>3. callId' # NoCall => atDialpad'[callId'] # "not yet"
    BY <1>1, <1>3 DEF ExtensionInv, EventsAreOfCalls, ExtensionShape
  <2>4. \A d \in counted' : atDialpad'[d] = "over"
    BY <1>1, <1>3 DEF ExtensionInv, EventsAreOfCalls, ExtensionShape
  <2> QED BY <2>1, <2>2, <2>3, <2>4 DEF EventsAreOfCalls
<1>9. OverIsKnown'
  <2> SUFFICES ASSUME NEW d \in Dialled, atDialpad'[d] = "over"
               PROVE  d \in unmatched' \/ HangupOf(d)' \/ (callId' # d /\ ~CalledOf(d)')
    BY DEF OverIsKnown
  <2>1. CASE d = c
    BY <1>1, <1>2, <1>3, <1>6, <2>1 DEF HangupOf
  <2>2. CASE d # c
    BY <1>1, <1>2, <1>3, <1>6, <2>2 DEF ExtensionInv, OverIsKnown, HangupOf, CalledOf
  <2> QED BY <2>1, <2>2
<1>10. CountIsOf'
  <2>1. CountIsOf /\ Cardinality(counted) \in Nat
    BY CountedIsFinite DEF ExtensionInv, ExtensionShape
  <2>2. Cardinality(counted') = Cardinality(counted) /\ 0 <= Cardinality(counted)
    <3>1. \A n \in Nat : 0 <= n
      OBVIOUS
    <3> QED BY <1>1, <2>1, <3>1, Zenon
  <2>3. dailyCount' = dailyCount /\ miscounted' = miscounted
    BY <1>1
  <2> QED BY ONLY <1>2, <1>6, <2>1, <2>2, <2>3 DEF CountIsOf
<1>11. LastIsOnRecord'
  BY <1>1 DEF ExtensionInv, LastIsOnRecord
<1> QED BY <1>7, <1>8, <1>9, <1>10, <1>11 DEF ExtensionInv

(* A step of the object, of the counter or of the network on one event. *)
LEMMA SetCallIdKeeps ==
  ASSUME ExtensionInv, NEW e \in events, SetCallId(e)
  PROVE  ExtensionInv'
<1>1. /\ e.state = "calling" /\ callId' = e.call /\ alarm' = AlarmIn /\ events' = events \ {e}
      /\ announced' = e.call /\ UNCHANGED <<atDialpad, dailyCount, closed, unmatched, counted, miscounted>>
  BY DEF SetCallId
<1>2. /\ atDialpad \in [Dialled -> {"not yet", "live", "over"}] /\ events \subseteq EventRecords
      /\ e.call \in Dialled /\ e.call # NoCall
  BY ExtensionConstants DEF ExtensionInv, ExtensionShape, EventRecords
<1>3. ExtensionShape'
  <2>1. AlarmIn \in 0 .. Never /\ AlarmIn # Never
    BY ExtensionConstants DEF Never
  <2> QED BY <1>1, <1>2, <2>1 DEF ExtensionInv, ExtensionShape
<1>4. EventsAreOfCalls'
  BY <1>1, <1>2 DEF ExtensionInv, EventsAreOfCalls
<1>5. OverIsKnown'
  <2> SUFFICES ASSUME NEW d \in Dialled, atDialpad'[d] = "over"
               PROVE  d \in unmatched' \/ HangupOf(d)' \/ (callId' # d /\ ~CalledOf(d)')
    BY DEF OverIsKnown
  <2>1. HangupOf(d) => HangupOf(d)'
    BY <1>1 DEF HangupOf
  <2>2. CalledOf(d)' => CalledOf(d)
    BY <1>1 DEF CalledOf
  <2>3. d = e.call => CalledOf(d)
    BY <1>1 DEF CalledOf
  <2> QED BY <1>1, <2>1, <2>2, <2>3 DEF ExtensionInv, OverIsKnown
<1>6. CountIsOf'
  <2>1. CountIsOf
    BY DEF ExtensionInv
  <2> QED BY <1>1, <2>1, Zenon DEF CountIsOf
<1>7. LastIsOnRecord'
  BY <1>1 DEF LastIsOnRecord
<1> QED BY <1>3, <1>4, <1>5, <1>6, <1>7 DEF ExtensionInv


(* A hangup goes on to its next step. *)
LEMMA HangupGoesOn ==
  ASSUME ExtensionInv, NEW e \in events, e.state = "hangup",
         NEW g \in EventRecords, g.call = e.call, g.state = e.state,
         events' = (events \ {e}) \cup {g},
         UNCHANGED <<atDialpad, callId, alarm, unmatched>>,
         dailyCount' \in Nat, counted' \subseteq counted \cup {e.call},
         counted \subseteq counted',
         g.call \in counted' => g.step = "clear"
  PROVE  ExtensionShape' /\ EventsAreOfCalls' /\ OverIsKnown'
<1>1. /\ atDialpad \in [Dialled -> {"not yet", "live", "over"}] /\ events \subseteq EventRecords
      /\ e.call \in Dialled
  BY DEF ExtensionInv, ExtensionShape, EventRecords
<1>2. ExtensionShape'
  BY <1>1 DEF ExtensionInv, ExtensionShape
<1>3. EventsAreOfCalls'
  <2>1. ASSUME NEW f \in events'
        PROVE  /\ atDialpad'[f.call] # "not yet"
               /\ f.state = "calling" => f.step = "sent" /\ callId' # f.call
               /\ f.state = "hangup" => atDialpad'[f.call] = "over"
               /\ f.state = "hangup" /\ f.call \in counted' => f.step = "clear"
    <3>1. CASE f = g
      BY <3>1 DEF ExtensionInv, EventsAreOfCalls
    <3>2. CASE f \in events /\ f # e
      <4>1. f.state = "hangup" => f.call # e.call
        BY <3>2 DEF ExtensionInv, EventsAreOfCalls
      <4>2. f.state = "hangup" /\ f.call \in counted' => f.call \in counted
        BY <4>1
      <4> QED BY <3>2, <4>2 DEF ExtensionInv, EventsAreOfCalls
    <3> QED BY <3>1, <3>2
  <2>2. ASSUME NEW f \in events', NEW h \in events', f.call = h.call, f.state = h.state
        PROVE  f = h
    <3>1. \A k \in events' : k = g \/ (k \in events /\ ~(k.call = g.call /\ k.state = g.state))
      BY DEF ExtensionInv, EventsAreOfCalls
    <3>2. \A j, k \in events : j.call = k.call /\ j.state = k.state => j = k
      BY DEF ExtensionInv, EventsAreOfCalls
    <3> QED BY ONLY <2>2, <3>1, <3>2
  <2>3. callId' # NoCall => atDialpad'[callId'] # "not yet"
    BY DEF ExtensionInv, EventsAreOfCalls
  <2>4. \A c \in counted' : atDialpad'[c] = "over"
    BY DEF ExtensionInv, EventsAreOfCalls
  <2> QED BY <2>1, <2>2, <2>3, <2>4 DEF EventsAreOfCalls
<1>4. OverIsKnown'
  <2> SUFFICES ASSUME NEW d \in Dialled, atDialpad'[d] = "over"
               PROVE  d \in unmatched' \/ HangupOf(d)' \/ (callId' # d /\ ~CalledOf(d)')
    BY DEF OverIsKnown
  <2>1. HangupOf(d) => HangupOf(d)'
    BY DEF HangupOf
  <2>2. CalledOf(d)' => CalledOf(d)
    BY DEF CalledOf
  <2> QED BY <2>1, <2>2 DEF ExtensionInv, OverIsKnown
<1> QED BY <1>2, <1>3, <1>4

LEMMA ReadCountKeeps ==
  ASSUME ExtensionInv, NEW e \in events, ReadCount(e)
  PROVE  ExtensionInv'
<1> DEFINE g == [e EXCEPT !.step = "bump", !.count = dailyCount]
<1>1. /\ e.state = "hangup" /\ e.step = "sent" /\ events' = (events \ {e}) \cup {g}
      /\ UNCHANGED <<atDialpad, callId, alarm, dailyCount, announced, closed, expired, unmatched, counted>>
      /\ miscounted' = (miscounted \/ Counting(e))
  BY DEF ReadCount
<1>2. events \subseteq EventRecords /\ dailyCount \in Nat /\ counted \subseteq Dialled
  BY DEF ExtensionInv, ExtensionShape
<1>3. /\ g \in EventRecords /\ g.call = e.call /\ g.state = e.state /\ g.step = "bump"
      /\ g.count = dailyCount
  BY <1>2 DEF EventRecords
<1> HIDE DEF g
<1>4. e.call \notin counted
  BY <1>1 DEF ExtensionInv, EventsAreOfCalls
<1>5. ExtensionShape' /\ EventsAreOfCalls' /\ OverIsKnown'
  BY <1>1, <1>2, <1>3, <1>4, HangupGoesOn
<1>6. CountIsOf'
  <2>1. CountIsOf
    BY DEF ExtensionInv
  <2>2. dailyCount' <= Cardinality(counted')
    BY <1>1, <2>1, Zenon DEF CountIsOf
  <2>3. \A f \in events' : f.count <= Cardinality(counted')
    <3>1. g.count <= Cardinality(counted)
      BY <1>3, <2>1, Zenon DEF CountIsOf
    <3>2. \A f \in events : f.count <= Cardinality(counted)
      BY <2>1, Zenon DEF CountIsOf
    <3>3. \A f \in events' : f = g \/ f \in events
      BY <1>1
    <3> QED BY <1>1, <3>1, <3>2, <3>3, Zenon
  <2>4. ASSUME ~miscounted'
        PROVE  /\ dailyCount' = Cardinality(counted')
               /\ \A f \in events' : f.step = "bump" => f.count = dailyCount'
               /\ \A f, h \in events' : f.step = "bump" /\ h.step = "bump" => f = h
    <3>1. ~miscounted /\ ~Counting(e)
      BY <1>1, <2>4, Zenon
    <3>2. \A f \in events' : f.step = "bump" => f = g
      BY <1>1, <3>1 DEF Counting
    <3>3. dailyCount = Cardinality(counted)
      BY <2>1, <3>1, Zenon DEF CountIsOf
    <3>4. dailyCount' = dailyCount /\ counted' = counted
      BY <1>1
    <3> QED BY ONLY <1>3, <3>2, <3>3, <3>4, Zenon
  <2> QED BY <2>2, <2>3, <2>4, Zenon DEF CountIsOf
<1>7. LastIsOnRecord'
  BY <1>1 DEF ExtensionInv, LastIsOnRecord
<1> QED BY <1>5, <1>6, <1>7 DEF ExtensionInv

LEMMA BumpCountKeeps ==
  ASSUME ExtensionInv, NEW e \in events, BumpCount(e)
  PROVE  ExtensionInv'
<1> DEFINE g == [e EXCEPT !.step = "clear"]
<1>1. /\ e.step = "bump" /\ events' = (events \ {e}) \cup {g}
      /\ UNCHANGED <<atDialpad, callId, alarm, announced, closed, expired, unmatched>>
      /\ \/ dailyCount' = e.count + 1 /\ counted' = counted \cup {e.call} /\ miscounted' = miscounted
         \/ dailyCount' = dailyCount /\ counted' = counted /\ miscounted' = TRUE
  BY DEF BumpCount, Becomes
<1>2. /\ events \subseteq EventRecords /\ dailyCount \in Nat /\ counted \subseteq Dialled
      /\ e.call \in Dialled /\ e.count \in Nat
  BY DEF ExtensionInv, ExtensionShape, EventRecords
<1>3. /\ g \in EventRecords /\ g.call = e.call /\ g.state = e.state /\ g.step = "clear"
      /\ g.count = e.count
  BY <1>2 DEF EventRecords
<1> HIDE DEF g
<1>4. e.state = "hangup" /\ e.call \notin counted
  BY <1>1, <1>2 DEF ExtensionInv, EventsAreOfCalls, EventRecords
<1>5. ExtensionShape' /\ EventsAreOfCalls' /\ OverIsKnown'
  <2>1. dailyCount' \in Nat /\ counted' \subseteq counted \cup {e.call} /\ counted \subseteq counted'
    BY <1>1, <1>2
  <2> QED BY <1>1, <1>3, <1>4, <2>1, HangupGoesOn
<1>6. CountIsOf'
  <2>1. CountIsOf
    BY DEF ExtensionInv
  <2> DEFINE n == Cardinality(counted)
  <2>2. /\ n \in Nat /\ Cardinality(counted \cup {e.call}) = n + 1
    BY <1>2, <1>4, CountedIsFinite, FS_AddElement
  <2>3. /\ dailyCount <= n /\ \A f \in events : f.count <= n
        /\ ~miscounted => dailyCount = n /\ e.count = n
        /\ ~miscounted => \A f \in events : f.step = "bump" => f = e
    BY <1>1, <2>1, Zenon DEF CountIsOf
  <2>4. \A f \in events' : (f = g \/ f \in events) /\ (f.step = "bump" => f \in events /\ f # e)
    BY <1>1, <1>3
  <2>5. \A f \in events' : f.count \in Nat /\ f.count <= n
    BY <1>2, <1>3, <2>3, <2>4 DEF EventRecords
  <2> HIDE DEF n
  <2>6. CASE dailyCount' = e.count + 1 /\ counted' = counted \cup {e.call} /\ miscounted' = miscounted
    <3>1. Cardinality(counted') = n + 1
      BY <2>2, <2>6
    <3>2. dailyCount' <= n + 1 /\ \A f \in events' : f.count <= n + 1
      BY <1>2, <2>2, <2>3, <2>5, <2>6
    <3>3. ~miscounted' => dailyCount' = n + 1
      BY <2>3, <2>6
    <3>4. ~miscounted' => \A f \in events' : f.step # "bump"
      BY <2>3, <2>4, <2>6
    <3> QED BY ONLY <3>1, <3>2, <3>3, <3>4, Zenon DEF CountIsOf
  <2>7. CASE dailyCount' = dailyCount /\ counted' = counted /\ miscounted' = TRUE
    <3>1. Cardinality(counted') = n
      BY <2>7 DEF n
    <3> QED BY <3>1, <2>3, <2>5, <2>7, Zenon DEF CountIsOf
  <2> QED BY <1>1, <2>6, <2>7
<1>7. LastIsOnRecord'
  BY <1>1 DEF ExtensionInv, LastIsOnRecord
<1> QED BY <1>5, <1>6, <1>7 DEF ExtensionInv


(* An event that has been handled, or is lost, leaves the others as they are. *)
LEMMA EventGoes ==
  ASSUME ExtensionInv, NEW e \in events, events' = events \ {e},
         callId' = callId \/ (callId' = NoCall /\ callId = e.call /\ e.state = "hangup"),
         callId' = callId => alarm' = alarm, callId' # callId => alarm' = Never,
         UNCHANGED <<atDialpad, dailyCount, counted>>,
         unmatched \subseteq unmatched',
         e.state = "hangup" => e.call \in unmatched' \/ (callId = e.call /\ callId' # e.call),
         miscounted => miscounted'
  PROVE  ExtensionShape' /\ EventsAreOfCalls' /\ OverIsKnown' /\ CountIsOf'
<1>1. /\ atDialpad \in [Dialled -> {"not yet", "live", "over"}] /\ events \subseteq EventRecords
      /\ e.call \in Dialled /\ e.call # NoCall
  BY ExtensionConstants DEF ExtensionInv, ExtensionShape, EventRecords
<1>2. ExtensionShape'
  <2>1. Never \in 0 .. Never
    BY ExtensionConstants DEF Never
  <2>2. callId' \in Dialled \cup {NoCall} /\ alarm' \in 0 .. Never /\ (callId' = NoCall <=> alarm' = Never)
    BY <2>1 DEF ExtensionInv, ExtensionShape
  <2> QED BY <1>1, <2>2 DEF ExtensionInv, ExtensionShape
<1>3. EventsAreOfCalls'
  <2>1. ASSUME NEW f \in events' PROVE f \in events /\ (f.state = "calling" => callId' # f.call)
    BY ExtensionConstants DEF ExtensionInv, EventsAreOfCalls, ExtensionShape, EventRecords
  <2>2. callId' # NoCall => atDialpad'[callId'] # "not yet"
    BY DEF ExtensionInv, EventsAreOfCalls
  <2> QED BY <2>1, <2>2 DEF ExtensionInv, EventsAreOfCalls
<1>4. OverIsKnown'
  <2> SUFFICES ASSUME NEW d \in Dialled, atDialpad'[d] = "over"
               PROVE  d \in unmatched' \/ HangupOf(d)' \/ (callId' # d /\ ~CalledOf(d)')
    BY DEF OverIsKnown
  <2>1. CalledOf(d)' => CalledOf(d)
    BY DEF CalledOf
  <2>2. HangupOf(d) => HangupOf(d)' \/ (d = e.call /\ e.state = "hangup")
    BY DEF HangupOf
  <2>3. callId' = d => callId = d
    BY ExtensionConstants
  <2>4. CASE d = e.call /\ e.state = "hangup" /\ d \notin unmatched'
    <3>1. callId' # d /\ callId = d
      BY <2>4
    <3> QED BY <2>1, <3>1 DEF ExtensionInv, EventsAreOfCalls, CalledOf
  <2> QED BY <2>1, <2>2, <2>3, <2>4 DEF ExtensionInv, OverIsKnown
<1>5. CountIsOf'
  <2>1. CountIsOf /\ \A f \in events' : f \in events
    BY DEF ExtensionInv
  <2> QED BY <2>1, Zenon DEF CountIsOf
<1> QED BY <1>2, <1>3, <1>4, <1>5

LEMMA ClearKeeps ==
  ASSUME ExtensionInv, NEW e \in events, ClearCallIdIfMatch(e)
  PROVE  ExtensionInv'
<1>1. /\ e.step = "clear" /\ events' = events \ {e} /\ closed' = closed \cup {e.call}
      /\ \/ callId = e.call /\ callId' = NoCall /\ alarm' = Never /\ unmatched' = unmatched
         \/ callId # e.call /\ callId' = callId /\ alarm' = alarm /\ unmatched' = unmatched \cup {e.call}
      /\ UNCHANGED <<atDialpad, dailyCount, announced, expired, counted, miscounted>>
  BY DEF ClearCallIdIfMatch
<1>2. e.call # NoCall /\ e.state \in {"calling", "hangup"}
  BY ExtensionConstants DEF ExtensionInv, ExtensionShape, EventRecords
<1>3. e.state = "hangup"
  BY <1>1, <1>2 DEF ExtensionInv, EventsAreOfCalls
<1>4. ExtensionShape' /\ EventsAreOfCalls' /\ OverIsKnown' /\ CountIsOf'
  BY <1>1, <1>2, <1>3, EventGoes
<1>5. LastIsOnRecord'
  BY <1>1 DEF ExtensionInv, LastIsOnRecord
<1> QED BY <1>4, <1>5 DEF ExtensionInv

LEMMA DropsKeeps ==
  ASSUME ExtensionInv, NEW e \in events, Drops(e)
  PROVE  ExtensionInv'
<1>1. /\ events' = events \ {e}
      /\ unmatched' = IF e.state = "hangup" THEN unmatched \cup {e.call} ELSE unmatched
      /\ UNCHANGED <<atDialpad, callId, alarm, dailyCount, announced, closed, expired, counted>>
      /\ miscounted' = (miscounted \/ e.step = "bump")
  BY DEF Drops
<1>2. ExtensionShape' /\ EventsAreOfCalls' /\ OverIsKnown' /\ CountIsOf'
  <2>1. miscounted => miscounted'
    BY <1>1, Zenon
  <2> QED BY <1>1, <2>1, EventGoes
<1>3. LastIsOnRecord'
  BY <1>1 DEF ExtensionInv, LastIsOnRecord
<1> QED BY <1>2, <1>3 DEF ExtensionInv

LEMMA AlarmKeeps ==
  ASSUME ExtensionInv, Elapses \/ AlarmClears
  PROVE  ExtensionInv'
<1>1. UNCHANGED <<atDialpad, events, dailyCount, announced, closed, unmatched, counted, miscounted>>
  BY DEF Elapses, AlarmClears
<1>2. \/ callId' = callId /\ alarm \in 1 .. AlarmIn /\ alarm' = alarm - 1 /\ expired' = expired
      \/ callId' = NoCall /\ alarm' = Never /\ expired' = TRUE
  BY DEF Elapses, AlarmClears
<1>3. ExtensionShape'
  <2>1. alarm \in 1 .. AlarmIn => alarm # Never /\ alarm - 1 \in 0 .. Never /\ alarm - 1 # Never
    BY ExtensionConstants DEF Never
  <2>2. Never \in 0 .. Never
    BY ExtensionConstants DEF Never
  <2>3. callId' \in Dialled \cup {NoCall} /\ alarm' \in 0 .. Never /\ (callId' = NoCall <=> alarm' = Never)
    BY <1>2, <2>1, <2>2 DEF ExtensionInv, ExtensionShape
  <2> QED BY <1>1, <2>3 DEF ExtensionInv, ExtensionShape
<1>4. EventsAreOfCalls'
  BY <1>1, <1>2, ExtensionConstants DEF ExtensionInv, EventsAreOfCalls, ExtensionShape, EventRecords
<1>5. OverIsKnown'
  <2>1. \A d \in Dialled : (HangupOf(d)' <=> HangupOf(d)) /\ (CalledOf(d)' <=> CalledOf(d))
    BY <1>1 DEF HangupOf, CalledOf
  <2>2. CASE callId' = callId
    BY <1>1, <2>1, <2>2, Zenon DEF ExtensionInv, OverIsKnown
  <2>3. CASE callId' = NoCall
    <3> SUFFICES ASSUME NEW d \in Dialled, atDialpad'[d] = "over"
                 PROVE  d \in unmatched' \/ HangupOf(d)' \/ (callId' # d /\ ~CalledOf(d)')
      BY DEF OverIsKnown
    <3>1. callId' # d /\ (callId = d => ~CalledOf(d))
      BY <2>3, ExtensionConstants DEF ExtensionInv, EventsAreOfCalls, CalledOf
    <3> QED BY <1>1, <2>1, <3>1 DEF ExtensionInv, OverIsKnown
  <2> QED BY <1>2, <2>2, <2>3
<1>6. CountIsOf'
  <2>1. CountIsOf
    BY DEF ExtensionInv
  <2> QED BY <1>1, <2>1, Zenon DEF CountIsOf
<1>7. LastIsOnRecord'
  BY <1>1, <1>2 DEF ExtensionInv, LastIsOnRecord
<1> QED BY <1>3, <1>4, <1>5, <1>6, <1>7 DEF ExtensionInv

LEMMA ExtensionInvNext == ExtensionInv /\ [ExtensionNext]_callVars => ExtensionInv'
<1> SUFFICES ASSUME ExtensionInv, [ExtensionNext]_callVars PROVE ExtensionInv'
  OBVIOUS
<1>1. ASSUME NEW c \in Dialled, Dials(c) \/ Ends(c) PROVE ExtensionInv'
  BY <1>1, DialKeeps
<1>2. CASE HangsUp
  <2>1. callId \in Dialled /\ Ends(callId)
    BY <1>2 DEF HangsUp, ExtensionInv, ExtensionShape
  <2> QED BY <2>1, DialKeeps
<1>3. ASSUME NEW e \in events, Handle(e) \/ Drops(e) PROVE ExtensionInv'
  BY <1>3, SetCallIdKeeps, ReadCountKeeps, BumpCountKeeps, ClearKeeps, DropsKeeps DEF Handle
<1>4. CASE Elapses \/ AlarmClears
  BY <1>4, AlarmKeeps
<1>5. CASE UNCHANGED callVars
  <2>1. UNCHANGED <<atDialpad, callId, alarm, events, dailyCount, announced, closed, expired, unmatched,
                    counted, miscounted>>
    BY <1>5 DEF callVars
  <2> QED BY <2>1, Zenon DEF ExtensionInv, ExtensionShape, EventsAreOfCalls, OverIsKnown, CountIsOf,
                             LastIsOnRecord, HangupOf, CalledOf
<1> QED BY <1>1, <1>2, <1>3, <1>4, <1>5 DEF ExtensionNext

THEOREM ExtensionTyped == ExtensionSpec => []ExtensionTypeOK
<1>1. ExtensionInv => ExtensionTypeOK
  <2> SUFFICES ASSUME ExtensionInv PROVE ExtensionTypeOK
    OBVIOUS
  <2>1. /\ dailyCount \in Nat /\ Cardinality(counted) \in Nat
        /\ Cardinality(counted) <= Cardinality(Dialled) /\ Cardinality(Dialled) \in Nat
    BY CountedIsFinite, ExtensionConstants, FS_CardinalityType DEF ExtensionInv, ExtensionShape
  <2>2. dailyCount <= Cardinality(counted)
    BY DEF ExtensionInv, CountIsOf
  <2>3. dailyCount <= Cardinality(Dialled)
    BY <2>1, <2>2
  <2> QED BY <2>3 DEF ExtensionInv, ExtensionShape, ExtensionTypeOK
<1> QED BY <1>1, ExtensionInvInit, ExtensionInvNext, PTL DEF ExtensionSpec

(***************************************************************************)
(* The record of the current call names the call announced last, and waits *)
(* for a hangup that will come or is known to be lost; the day's count is  *)
(* of the hangups handled: for any number of calls, in any order of their  *)
(* events.                                                                 *)
(***************************************************************************)
THEOREM CallRecordIsRight == ExtensionSpec => []CallRecordHolds
<1>1. ExtensionInv => CallRecordHolds
  <2> SUFFICES ASSUME ExtensionInv PROVE CallRecordHolds
    OBVIOUS
  <2>1. RecordIsRight
    BY DEF ExtensionInv, ExtensionShape, OverIsKnown, HangupOf, LastIsOnRecord, RecordIsRight
  <2>2. CountsHangups
    BY Zenon DEF ExtensionInv, CountIsOf, CountsHangups
  <2> QED BY <2>1, <2>2 DEF CallRecordHolds
<1> QED BY <1>1, ExtensionInvInit, ExtensionInvNext, PTL DEF ExtensionSpec

-----------------------------------------------------------------------------
(***************************************************************************)
(* The limit of calls.  What was let through is on the list or a minute    *)
(* older than something on it; no two requests hold the list, so what a    *)
(* request was judged by is still the list when it puts its call.          *)
(***************************************************************************)

Entries == [t : Nat, phone : Phones, by : CallRequests]
RateRequests ==
    [step : {"unused", "get", "put", "ring", "done", "duplicate", "rate_limit"}, t : Nat,
     phone : Phones \cup {"none"}, recent : SUBSET Entries, retryAfter : Int]

\* The calls let through, whether Dialpad has been asked for them or not.
LetThrough == {q \in CallRequests : requests[q].step \in {"ring", "done"}}
Placed == {Entry(q) : q \in LetThrough}

RateShape ==
    /\ callTime \in 1 .. MaxCallTime
    /\ requests \in [CallRequests -> RateRequests]
    /\ \A q \in CallRequests : requests[q].t <= callTime
    /\ \A q \in CallRequests : requests[q].step # "unused" => requests[q].phone \in Phones
    /\ \A q \in CallRequests : requests[q].step = "put" => requests[q].recent \subseteq Placed
    /\ rung \subseteq Placed /\ recorded \subseteq Placed
    /\ IsFiniteSet(Placed)

Spaced(P) ==
    \A e, f \in P : f # e /\ f.phone = e.phone => f.t >= e.t + Dedup \/ e.t >= f.t + Dedup
Minute(P, e) == {f \in P : e.t <= f.t /\ f.t < e.t + Window}
Limited(P) == \A e \in P : Cardinality(Minute(P, e)) <= CallLimit

Listed == \A e \in Placed : e \in recorded \/ \E f \in recorded : e.t + Window <= f.t

OneAtATime ==
    /\ \A q \in CallRequests : requests[q].step \in {"get", "put"} =>
         \A e \in Placed : e.t <= requests[q].t
    /\ \A q \in CallRequests : requests[q].step = "put" =>
         /\ requests[q].recent = Recent(recorded, requests[q].t)
         /\ Denied(recorded, requests[q].t, requests[q].phone) = "allowed"
    /\ \A p, q \in CallRequests : requests[p].step = "put" /\ requests[q].step = "put" => p = q

RefusalsHold ==
    \A q \in CallRequests : requests[q].step \in {"duplicate", "rate_limit"} =>
        Denied(requests[q].recent, requests[q].t + requests[q].retryAfter, requests[q].phone)
          # requests[q].step

RateInv ==
    /\ RateShape
    /\ ~overlapped => Spaced(Placed) /\ Limited(Placed) /\ Listed /\ OneAtATime /\ RefusalsHold

(* Whole seconds, rounded up. *)
LEMMA SecondsCover ==
  ASSUME NEW x \in Nat \ {0}
  PROVE  Seconds(x) \in Nat /\ x <= Seconds(x)
<1> DEFINE n == ((x + Second - 1) \div Second) * Second
<1>1. n \in Nat /\ x <= n
  <2>1. \A a \in Nat : \A b \in Nat \ {0} : (a \div b) * b \in Nat /\ a < (a \div b) * b + b
    OBVIOUS
  <2>2. x + Second - 1 \in Nat /\ Second \in Nat \ {0}
    BY RateConstants
  <2>3. n \in Nat /\ x + Second - 1 < n + Second
    BY <2>1, <2>2, Zenon
  <2> HIDE DEF n
  <2> QED BY <2>2, <2>3
<1> HIDE DEF n
<1>2. Second \in Nat
  BY RateConstants
<1>3. \E m \in {Second, n} : \A k \in {Second, n} : m >= k
  BY <1>1, <1>2
<1>4. Max({Second, n}) \in {Second, n} /\ \A k \in {Second, n} : Max({Second, n}) >= k
  BY <1>3 DEF Max
<1>5. Seconds(x) = Max({Second, n})
  BY DEF Seconds, n
<1> QED BY <1>1, <1>2, <1>4, <1>5

(* A refusal has a time to wait. *)
LEMMA DuplicateWaits ==
  ASSUME NEW R, R \subseteq Entries, NEW t \in Nat, NEW phone,
         Denied(R, t, phone) = "duplicate"
  PROVE  /\ RetryAfter(R, t, phone) \in Nat
         /\ \E d \in Duplicates(R, t, phone) : d.t + Dedup <= t + RetryAfter(R, t, phone)
<1>1. Duplicates(R, t, phone) # {}
  BY DEF Denied
<1> DEFINE d == CHOOSE e \in Duplicates(R, t, phone) : TRUE
<1>2. d \in Duplicates(R, t, phone)
  BY <1>1
<1>3. RetryAfter(R, t, phone) = Seconds(d.t + Dedup - t)
  BY DEF RetryAfter
<1> HIDE DEF d
<1>4. d.t \in Nat /\ d.t + Dedup > t
  BY <1>2 DEF Duplicates, Entries
<1>5. d.t + Dedup - t \in Nat \ {0}
  BY <1>4, RateConstants
<1>6. Seconds(d.t + Dedup - t) \in Nat /\ d.t + Dedup - t <= Seconds(d.t + Dedup - t)
  BY <1>5, SecondsCover
<1>7. d.t + Dedup <= t + Seconds(d.t + Dedup - t)
  BY <1>4, <1>6, RateConstants
<1> QED BY <1>2, <1>3, <1>6, <1>7

LEMMA LimitWaits ==
  ASSUME NEW R, R \subseteq Entries, NEW t \in Nat, NEW phone,
         Denied(R, t, phone) = "rate_limit"
  PROVE  /\ RetryAfter(R, t, phone) \in Nat
         /\ \E d \in Recent(R, t) : /\ \A e \in Recent(R, t) : d.t <= e.t
                                    /\ d.t + Window <= t + RetryAfter(R, t, phone)
<1> DEFINE times == {e.t : e \in Recent(R, t)}
<1>1. Recent(R, t) # {}
  <2>1. Cardinality(Recent(R, t)) >= CallLimit
    BY DEF Denied
  <2>2. Recent(R, t) = {} => Cardinality(Recent(R, t)) = 0
    BY FS_EmptySet
  <2> QED BY <2>1, <2>2, RateConstants
<1>2. times \subseteq Nat /\ times # {}
  BY <1>1 DEF Recent, Entries
<1>3. \E x \in times : \A y \in times : x <= y
  BY <1>2, FirstExists
<1>4. Min(times) \in times /\ \A y \in times : Min(times) <= y
  BY <1>3 DEF Min
<1>5. RetryAfter(R, t, phone) = Seconds(Min(times) + Window - t)
  BY DEF RetryAfter
<1>6. PICK d \in Recent(R, t) : d.t = Min(times)
  BY <1>4
<1>7. d.t \in Nat /\ d.t + Window > t /\ \A e \in Recent(R, t) : d.t <= e.t
  BY <1>4, <1>6 DEF Recent, Entries
<1>8. d.t + Window - t \in Nat \ {0}
  BY <1>7, RateConstants
<1>9. Seconds(d.t + Window - t) \in Nat /\ d.t + Window - t <= Seconds(d.t + Window - t)
  BY <1>8, SecondsCover
<1>10. d.t + Window <= t + Seconds(d.t + Window - t)
  BY <1>7, <1>9, RateConstants
<1> QED BY <1>5, <1>6, <1>7, <1>9, <1>10

(* After it the reason is gone. *)
LEMMA RefusalIsTrue ==
  ASSUME NEW R, R \subseteq Entries, IsFiniteSet(R), NEW t \in Nat, \A e \in R : e.t <= t, NEW phone,
         Spaced(R), Limited(R)
  PROVE  Denied(R, t, phone) \in {"duplicate", "rate_limit"} =>
           Denied(Recent(R, t), t + RetryAfter(R, t, phone), phone) # Denied(R, t, phone)
<1> DEFINE w == RetryAfter(R, t, phone)
<1>0. \A e \in R : e.t \in Nat
  BY DEF Entries
<1>1. CASE Denied(R, t, phone) = "duplicate"
  <2>1. w \in Nat
    BY <1>1, DuplicateWaits
  <2>2. PICK d \in Duplicates(R, t, phone) : d.t + Dedup <= t + w
    BY <1>1, DuplicateWaits
  <2> HIDE DEF w
  <2>3. d \in R /\ d.phone = phone /\ d.t + Dedup > t
    BY DEF Duplicates
  <2>4. ASSUME NEW e \in Duplicates(Recent(R, t), t + w, phone) PROVE FALSE
    <3>1. e \in R /\ e.phone = phone /\ e.t + Dedup > t + w
      BY <2>4 DEF Duplicates, Recent
    <3>2. e # d
      BY <1>0, <2>1, <2>2, <2>3, <3>1, RateConstants
    <3>3. e.t >= d.t + Dedup \/ d.t >= e.t + Dedup
      BY <2>3, <3>1, <3>2 DEF Spaced
    <3> QED BY <1>0, <2>1, <2>3, <3>1, <3>3, RateConstants
  <2>5. Denied(Recent(R, t), t + w, phone) # "duplicate"
    BY <2>4 DEF Denied
  <2> QED BY <1>1, <2>5 DEF w
<1>2. CASE Denied(R, t, phone) = "rate_limit"
  <2> DEFINE S == Recent(R, t)
  <2>1. w \in Nat
    BY <1>2, LimitWaits
  <2>2. PICK d \in S : (\A e \in S : d.t <= e.t) /\ d.t + Window <= t + w
    BY <1>2, LimitWaits
  <2> HIDE DEF w
  <2>3. d \in R /\ d.t + Window > t
    BY DEF Recent
  <2>4. S \subseteq Minute(R, d) /\ Minute(R, d) \subseteq R
    BY <1>0, <2>2, <2>3, RateConstants DEF Minute, Recent
  <2>5. /\ IsFiniteSet(S) /\ Cardinality(S) \in Nat /\ Cardinality(S) <= CallLimit
    <3>1. IsFiniteSet(Minute(R, d)) /\ Cardinality(Minute(R, d)) <= CallLimit
      BY <2>3, <2>4, FS_Subset DEF Limited
    <3>2. IsFiniteSet(S) /\ Cardinality(S) <= Cardinality(Minute(R, d))
      BY <2>4, <3>1, FS_Subset
    <3> QED BY <3>1, <3>2, FS_CardinalityType, RateConstants
  <2>6. Cardinality(S \ {d}) = Cardinality(S) - 1 /\ IsFiniteSet(S \ {d})
    BY <2>5, FS_RemoveElement
  <2>7. Recent(S, t + w) \subseteq S \ {d}
    BY <1>0, <2>1, <2>2, <2>3, RateConstants DEF Recent
  <2>8. Cardinality(Recent(S, t + w)) <= Cardinality(S \ {d}) /\ Cardinality(Recent(S, t + w)) \in Nat
    BY <2>6, <2>7, FS_Subset, FS_CardinalityType
  <2>9. ~(Cardinality(Recent(S, t + w)) >= CallLimit)
    BY <2>5, <2>6, <2>8, RateConstants
  <2>10. Denied(S, t + w, phone) # "rate_limit"
    BY <2>9 DEF Denied
  <2> QED BY <1>2, <2>10 DEF w
<1> QED BY <1>1, <1>2


(* What holds of more calls holds of fewer. *)
LEMMA FewerCalls ==
  ASSUME NEW P, IsFiniteSet(P), Spaced(P), Limited(P), NEW R, R \subseteq P
  PROVE  Spaced(R) /\ Limited(R) /\ IsFiniteSet(R)
<1>1. Spaced(R) /\ IsFiniteSet(R)
  BY FS_Subset DEF Spaced
<1>2. ASSUME NEW e \in R PROVE Cardinality(Minute(R, e)) <= CallLimit
  <2>1. Minute(R, e) \subseteq Minute(P, e) /\ Minute(P, e) \subseteq P
    BY DEF Minute
  <2>2. IsFiniteSet(Minute(P, e)) /\ Cardinality(Minute(P, e)) <= CallLimit
    BY <2>1, FS_Subset DEF Limited
  <2>3. /\ IsFiniteSet(Minute(R, e)) /\ Cardinality(Minute(R, e)) <= Cardinality(Minute(P, e))
    BY <2>1, <2>2, FS_Subset
  <2> QED BY <2>2, <2>3, FS_CardinalityType, RateConstants
<1> QED BY <1>1, <1>2 DEF Limited

LEMMA RateFacts ==
  ASSUME RateShape
  PROVE  /\ callTime \in Nat
         /\ Placed \subseteq Entries
         /\ \A e \in Placed : e.t \in Nat /\ e.t <= callTime
         /\ \A q \in CallRequests : requests[q] \in RateRequests
<1>1. callTime \in Nat /\ \A q \in CallRequests : requests[q] \in RateRequests
  BY DEF RateShape
<1>2. ASSUME NEW q \in LetThrough
      PROVE  Entry(q) \in Entries /\ Entry(q).t \in Nat /\ Entry(q).t <= callTime
  <2>1. q \in CallRequests /\ requests[q].phone \in Phones /\ requests[q].t \in Nat /\ requests[q].t <= callTime
    BY <1>1, <1>2 DEF RateShape, LetThrough, RateRequests
  <2> QED BY <2>1 DEF Entry, Now, Entries
<1> QED BY <1>1, <1>2 DEF Placed

(* A step that lets no call through. *)
LEMMA PlacedStays ==
  ASSUME RateShape,
         \A q \in CallRequests :
            /\ requests'[q].step \in {"ring", "done"} <=> requests[q].step \in {"ring", "done"}
            /\ requests[q].step \in {"ring", "done"} =>
                 requests'[q].t = requests[q].t /\ requests'[q].phone = requests[q].phone
  PROVE  Placed' = Placed /\ \A q \in CallRequests : requests[q].step \in {"ring", "done"} => Entry(q) \in Placed
<1>1. LetThrough' = LetThrough
  BY DEF LetThrough
<1>2. \A q \in LetThrough : Entry(q)' = Entry(q)
  BY DEF LetThrough, Entry, Now
<1>3. \A q \in CallRequests : requests[q].step \in {"ring", "done"} => Entry(q) \in Placed
  BY DEF Placed, LetThrough
<1> QED BY <1>1, <1>2, <1>3 DEF Placed

LEMMA RateInvInit == RateInit => RateInv
<1> SUFFICES ASSUME RateInit PROVE RateInv
  OBVIOUS
<1>1. callTime = 1 /\ recorded = {} /\ rung = {} /\ requests = [q \in CallRequests |-> Unused]
  BY DEF RateInit
<1>2. Placed = {}
  BY <1>1 DEF Placed, LetThrough, Unused
<1>3. IsFiniteSet(Placed)
  BY <1>2, FS_EmptySet
<1>4. RateShape
  <2>1. callTime \in 1 .. MaxCallTime
    BY <1>1, RateConstants
  <2>2. Unused \in RateRequests /\ Unused.t = 0 /\ Unused.step = "unused"
    BY DEF Unused, RateRequests
  <2> QED BY <1>1, <1>2, <1>3, <2>1, <2>2 DEF RateShape
<1>5. Spaced(Placed) /\ Limited(Placed) /\ Listed
  BY <1>2 DEF Spaced, Limited, Listed
<1>6. OneAtATime /\ RefusalsHold
  BY <1>1 DEF OneAtATime, RefusalsHold, Unused
<1> QED BY <1>4, <1>5, <1>6 DEF RateInv

LEMMA SecondKeeps == ASSUME RateInv, SecondPasses PROVE RateInv'
<1>1. /\ callTime < MaxCallTime /\ callTime' = callTime + 1
      /\ recorded' = recorded /\ requests' = requests /\ rung' = rung /\ overlapped' = overlapped
  BY DEF SecondPasses
<1>2. RateShape /\ callTime \in Nat /\ \A q \in CallRequests : requests[q] \in RateRequests
  BY RateFacts DEF RateInv
<1>3. Placed' = Placed
  BY <1>1 DEF Placed, LetThrough, Entry, Now
<1>4. RateShape'
  <2>1. callTime' \in 1 .. MaxCallTime
    BY <1>1, <1>2, RateConstants DEF RateShape
  <2>2. \A q \in CallRequests : requests'[q].t <= callTime'
    BY <1>1, <1>2 DEF RateShape, RateRequests
  <2> QED BY <1>1, <1>2, <1>3, <2>1, <2>2 DEF RateShape
<1>5. (~overlapped => Spaced(Placed) /\ Limited(Placed) /\ Listed /\ OneAtATime /\ RefusalsHold)'
  BY <1>1, <1>3, Zenon DEF RateInv, Listed, OneAtATime, RefusalsHold, Spaced, Limited, Minute,
                      Denied, Duplicates, Recent
<1> QED BY <1>4, <1>5 DEF RateInv


LEMMA RequestedKeeps ==
  ASSUME RateInv, NEW q \in CallRequests, NEW phone \in Phones, CallRequested(q, phone)
  PROVE  RateInv'
<1> DEFINE new == [Unused EXCEPT !.step = "get", !.t = callTime, !.phone = phone]
<1>1. /\ requests[q] = Unused /\ requests' = [requests EXCEPT ![q] = new]
      /\ callTime' = callTime /\ recorded' = recorded /\ rung' = rung /\ overlapped' = overlapped
  BY DEF CallRequested
<1>2. /\ RateShape /\ callTime \in Nat /\ \A e \in Placed : e.t \in Nat /\ e.t <= callTime
      /\ requests \in [CallRequests -> RateRequests]
  BY RateFacts DEF RateInv, RateShape
<1>3. /\ new \in RateRequests /\ new.step = "get" /\ new.t = callTime /\ new.phone = phone
      /\ Unused.step = "unused"
  <2>1. Unused \in RateRequests /\ Unused.step = "unused"
    BY DEF Unused, RateRequests
  <2> QED BY ONLY <1>2, <2>1, phone \in Phones DEF RateRequests
<1> HIDE DEF new
<1>4. /\ requests'[q] = new /\ \A p \in CallRequests : p # q => requests'[p] = requests[p]
  BY <1>1, <1>2
<1>5. Placed' = Placed
  BY <1>1, <1>2, <1>3, <1>4, PlacedStays
<1>6. RateShape'
  BY <1>1, <1>2, <1>3, <1>4, <1>5 DEF RateShape
<1>7. ASSUME ~overlapped, OneAtATime, RefusalsHold PROVE OneAtATime' /\ RefusalsHold'
  <2>1. OneAtATime'
    BY <1>1, <1>2, <1>3, <1>4, <1>5, <1>7 DEF OneAtATime, Denied, Duplicates, Recent
  <2>2. RefusalsHold'
    <3>1. \A p \in CallRequests : requests'[p].step \in {"duplicate", "rate_limit"} =>
                                     requests'[p] = requests[p]
      BY <1>3, <1>4
    <3> QED BY <1>7, <3>1 DEF RefusalsHold, Denied, Duplicates, Recent
  <2> QED BY <2>1, <2>2
<1>8. (Spaced(Placed) /\ Limited(Placed) /\ Listed) => (Spaced(Placed) /\ Limited(Placed) /\ Listed)'
  BY <1>1, <1>5 DEF Listed, Spaced, Limited, Minute
<1>9. ~overlapped' => (Spaced(Placed) /\ Limited(Placed) /\ Listed /\ OneAtATime /\ RefusalsHold)'
  BY <1>1, <1>7, <1>8 DEF RateInv
<1> QED BY <1>6, <1>9 DEF RateInv

LEMMA GetKeeps ==
  ASSUME RateInv, NEW q \in CallRequests, GetTimestamps(q)
  PROVE  RateInv'
<1> DEFINE r == requests[q]
           verdict == Denied(recorded, r.t, r.phone)
           new == IF verdict = "allowed"
                    THEN [r EXCEPT !.step = "put", !.recent = Recent(recorded, r.t)]
                    ELSE [r EXCEPT !.step = verdict, !.recent = Recent(recorded, r.t),
                                   !.retryAfter = RetryAfter(recorded, r.t, r.phone)]
<1>1. /\ r.step = "get" /\ requests' = [requests EXCEPT ![q] = new]
      /\ overlapped' = (overlapped \/ \E p \in CallRequests : requests[p].step = "put")
      /\ callTime' = callTime /\ recorded' = recorded /\ rung' = rung
  BY DEF GetTimestamps, Now
<1>2. /\ RateShape /\ callTime \in Nat /\ \A e \in Placed : e.t \in Nat /\ e.t <= callTime
      /\ requests \in [CallRequests -> RateRequests] /\ Placed \subseteq Entries
      /\ recorded \subseteq Placed /\ r \in RateRequests /\ r.t \in Nat /\ r.phone \in Phones
      /\ IsFiniteSet(Placed)
  BY <1>1, RateFacts DEF RateInv, RateShape, RateRequests
<1>3. verdict \in {"allowed", "duplicate", "rate_limit"}
  BY DEF Denied
<1>4. /\ new \in RateRequests /\ new.step = (IF verdict = "allowed" THEN "put" ELSE verdict)
      /\ new.t = r.t /\ new.phone = r.phone /\ new.recent = Recent(recorded, r.t)
      /\ verdict # "allowed" => new.retryAfter = RetryAfter(recorded, r.t, r.phone)
  <2>1. Recent(recorded, r.t) \subseteq Entries
    BY <1>2 DEF Recent
  <2>2. verdict # "allowed" => RetryAfter(recorded, r.t, r.phone) \in Nat
    BY <1>2, <1>3, DuplicateWaits, LimitWaits
  <2>3. CASE verdict = "allowed"
    <3>1. new = [r EXCEPT !.step = "put", !.recent = Recent(recorded, r.t)]
      BY <2>3
    <3> HIDE DEF new, verdict
    <3> QED BY <1>2, <2>1, <2>3, <3>1 DEF RateRequests
  <2>4. CASE verdict \in {"duplicate", "rate_limit"}
    <3>1. new = [r EXCEPT !.step = verdict, !.recent = Recent(recorded, r.t),
                          !.retryAfter = RetryAfter(recorded, r.t, r.phone)]
      BY <2>4
    <3> DEFINE s == Recent(recorded, r.t)
               w == RetryAfter(recorded, r.t, r.phone)
    <3>2. s \in SUBSET Entries /\ w \in Int
      BY <2>1, <2>2, <2>4
    <3> HIDE DEF new, verdict, s, w
    <3>3. new = [r EXCEPT !.step = verdict, !.recent = s, !.retryAfter = w]
      BY <3>1 DEF s, w
    <3>4. /\ new \in RateRequests /\ new.step = verdict /\ new.t = r.t /\ new.phone = r.phone
          /\ new.recent = s /\ new.retryAfter = w
      BY <1>2, <2>4, <3>2, <3>3 DEF RateRequests
    <3> QED BY <2>4, <3>4 DEF s, w
  <2> QED BY <1>3, <2>3, <2>4
<1>5. ASSUME NEW p \in CallRequests PROVE requests'[p] = IF p = q THEN new ELSE requests[p]
  BY <1>1, <1>2
<1> HIDE DEF new, verdict
<1>6. Placed' = Placed
  <2>1. new.step \notin {"ring", "done"}
    BY <1>3, <1>4
  <2> QED BY <1>1, <1>2, <1>5, <2>1, PlacedStays
<1>7. RateShape'
  <2>1. requests' \in [CallRequests -> RateRequests]
    BY <1>1, <1>2, <1>4
  <2>2. Recent(recorded, r.t) \subseteq Placed
    BY <1>2 DEF Recent
  <2>3. \A p \in CallRequests :
          /\ requests'[p].t <= callTime
          /\ requests'[p].step # "unused" => requests'[p].phone \in Phones
          /\ requests'[p].step = "put" => requests'[p].recent \subseteq Placed
    BY <1>2, <1>4, <1>5, <2>2 DEF RateShape
  <2> QED BY <1>1, <1>2, <1>6, <2>1, <2>3 DEF RateShape
<1>8. ASSUME ~overlapped'
      PROVE  (Spaced(Placed) /\ Limited(Placed) /\ Listed /\ OneAtATime /\ RefusalsHold)'
  <2>1. ~overlapped /\ \A p \in CallRequests : requests[p].step # "put"
    BY <1>1, <1>8, Zenon
  <2>2. Spaced(Placed) /\ Limited(Placed) /\ Listed /\ OneAtATime /\ RefusalsHold
    BY <2>1 DEF RateInv
  <2>3. \A e \in Placed : e.t <= r.t
    BY <1>1, <2>2 DEF OneAtATime
  <2>4. OneAtATime'
    <3>1. ASSUME NEW p \in CallRequests, requests'[p].step \in {"get", "put"}
          PROVE  \A e \in Placed' : e.t <= requests'[p].t
      BY <1>4, <1>5, <1>6, <2>2, <2>3, <3>1 DEF OneAtATime
    <3>2. \A p \in CallRequests : requests'[p].step = "put" => p = q /\ verdict = "allowed"
      BY <1>3, <1>4, <1>5, <2>1
    <3>3. ASSUME NEW p \in CallRequests, requests'[p].step = "put"
          PROVE  /\ requests'[p].recent = Recent(recorded', requests'[p].t)
                 /\ Denied(recorded', requests'[p].t, requests'[p].phone) = "allowed"
      BY <1>1, <1>4, <1>5, <3>2, <3>3 DEF verdict
    <3> QED BY ONLY <3>1, <3>2, <3>3 DEF OneAtATime, Recent, Denied, Duplicates
  <2>5. RefusalsHold'
    <3> SUFFICES ASSUME NEW p \in CallRequests, requests'[p].step \in {"duplicate", "rate_limit"}
                 PROVE  Denied(requests'[p].recent, requests'[p].t + requests'[p].retryAfter,
                               requests'[p].phone) # requests'[p].step
      BY DEF RefusalsHold, Denied, Duplicates, Recent
    <3>1. CASE p # q
      BY <1>5, <2>2, <3>1 DEF RefusalsHold
    <3>2. CASE p = q
      <4>1. verdict \in {"duplicate", "rate_limit"} /\ requests'[p] = new
        BY <1>3, <1>4, <1>5, <3>2
      <4>2. Spaced(recorded) /\ Limited(recorded) /\ IsFiniteSet(recorded)
        BY <1>2, <2>2, FewerCalls
      <4>3. recorded \subseteq Entries /\ \A e \in recorded : e.t <= r.t
        BY <1>2, <2>3
      <4>4. Denied(Recent(recorded, r.t), r.t + RetryAfter(recorded, r.t, r.phone), r.phone) # verdict
        BY <1>2, <4>1, <4>2, <4>3, RefusalIsTrue DEF verdict
      <4> QED BY <1>4, <4>1, <4>4
    <3> QED BY <3>1, <3>2
  <2>6. (Spaced(Placed) /\ Limited(Placed) /\ Listed)'
    BY <1>1, <1>6, <2>2 DEF Listed, Spaced, Limited, Minute
  <2> QED BY <2>4, <2>5, <2>6
<1> QED BY <1>7, <1>8 DEF RateInv

LEMMA RingKeeps ==
  ASSUME RateInv, NEW q \in CallRequests, InitiateCall(q)
  PROVE  RateInv'
<1> DEFINE new == [requests[q] EXCEPT !.step = "done", !.recent = {}]
<1>1. /\ requests[q].step = "ring" /\ requests' = [requests EXCEPT ![q] = new]
      /\ rung' = rung \cup {Entry(q)}
      /\ callTime' = callTime /\ recorded' = recorded /\ overlapped' = overlapped
  BY DEF InitiateCall
<1>2. RateShape /\ requests \in [CallRequests -> RateRequests] /\ requests[q] \in RateRequests
  BY DEF RateInv, RateShape
<1>3. /\ new \in RateRequests /\ new.step = "done" /\ new.t = requests[q].t
      /\ new.phone = requests[q].phone
  BY <1>2 DEF RateRequests
<1> HIDE DEF new
<1>4. \A p \in CallRequests : requests'[p] = IF p = q THEN new ELSE requests[p]
  BY <1>1, <1>2
<1>5. Placed' = Placed /\ Entry(q) \in Placed
  BY <1>1, <1>2, <1>3, <1>4, PlacedStays
<1>6. RateShape'
  <2>1. \A p \in CallRequests :
          /\ requests'[p].t <= callTime
          /\ requests'[p].step # "unused" => requests'[p].phone \in Phones
          /\ requests'[p].step = "put" => requests'[p].recent \subseteq Placed
    BY <1>1, <1>2, <1>3, <1>4 DEF RateShape
  <2> QED BY <1>1, <1>2, <1>3, <1>5, <2>1 DEF RateShape
<1>7. \A p \in CallRequests : requests'[p].step # "done" => requests'[p] = requests[p]
  BY <1>3, <1>4
<1>8. OneAtATime => OneAtATime'
  BY <1>1, <1>5, <1>7 DEF OneAtATime, Denied, Duplicates, Recent
<1>9. RefusalsHold => RefusalsHold'
  BY <1>7 DEF RefusalsHold, Denied, Duplicates, Recent
<1>10. (Spaced(Placed) /\ Limited(Placed) /\ Listed) => (Spaced(Placed) /\ Limited(Placed) /\ Listed)'
  BY <1>1, <1>5 DEF Listed, Spaced, Limited, Minute
<1> QED BY <1>1, <1>6, <1>8, <1>9, <1>10 DEF RateInv


LEMMA PutKeeps ==
  ASSUME RateInv, NEW q \in CallRequests, PutTimestamps(q)
  PROVE  RateInv'
<1> DEFINE g == Entry(q)
           t == requests[q].t
           new == [requests[q] EXCEPT !.step = "ring"]
<1>1. /\ requests[q].step = "put" /\ requests' = [requests EXCEPT ![q].step = "ring"]
      /\ recorded' = requests[q].recent \cup {g}
      /\ overlapped' = (overlapped \/ \E p \in CallRequests \ {q} : requests[p].step = "get")
      /\ callTime' = callTime /\ rung' = rung
  BY DEF PutTimestamps
<1>2. /\ RateShape /\ callTime \in Nat /\ \A e \in Placed : e.t \in Nat /\ e.t <= callTime
      /\ requests \in [CallRequests -> RateRequests] /\ Placed \subseteq Entries
      /\ requests[q].phone \in Phones /\ requests[q].recent \subseteq Placed
      /\ requests[q] \in RateRequests /\ t \in Nat /\ IsFiniteSet(Placed)
  BY <1>1, RateFacts DEF RateInv, RateShape, RateRequests
<1>3. /\ new \in RateRequests /\ new.step = "ring" /\ new.t = t /\ new.phone = requests[q].phone
      /\ new.recent = requests[q].recent
  BY <1>2 DEF RateRequests
<1>4. \A p \in CallRequests : requests'[p] = IF p = q THEN new ELSE requests[p]
  BY <1>1, <1>2
<1>5. g.t = t /\ g.phone = requests[q].phone
  BY DEF Entry, Now
<1> HIDE DEF new
<1>6. Placed' = Placed \cup {g}
  <2>1. LetThrough' = LetThrough \cup {q}
    BY <1>3, <1>4 DEF LetThrough
  <2>2. \A p \in CallRequests : Entry(p)' = Entry(p)
    BY <1>3, <1>4 DEF Entry, Now
  <2>3. \A p \in LetThrough' : p \in CallRequests
    BY DEF LetThrough
  <2> QED BY <2>1, <2>2, <2>3 DEF Placed
<1> HIDE DEF g, t
<1>7. RateShape'
  <2>1. requests' \in [CallRequests -> RateRequests]
    <3>1. requests' = [requests EXCEPT ![q] = new]
      BY <1>1 DEF new
    <3> QED BY <1>2, <1>3, <3>1
  <2>2. \A p \in CallRequests :
          /\ requests'[p].t <= callTime
          /\ requests'[p].step # "unused" => requests'[p].phone \in Phones
          /\ requests'[p].step = "put" => requests'[p].recent \subseteq Placed
    BY <1>1, <1>2, <1>3, <1>4 DEF RateShape, t
  <2>3. IsFiniteSet(Placed')
    BY <1>2, <1>6, FS_AddElement
  <2> QED BY <1>1, <1>2, <1>6, <2>1, <2>2, <2>3 DEF RateShape
<1>8. ASSUME ~overlapped'
      PROVE  (Spaced(Placed) /\ Limited(Placed) /\ Listed /\ OneAtATime /\ RefusalsHold)'
  <2>1. ~overlapped /\ \A p \in CallRequests \ {q} : requests[p].step # "get"
    BY <1>1, <1>8, Zenon
  <2>2. Spaced(Placed) /\ Limited(Placed) /\ Listed /\ OneAtATime /\ RefusalsHold
    BY <2>1 DEF RateInv
  <2>3. /\ \A e \in Placed : e.t <= t
        /\ requests[q].recent = Recent(recorded, t)
        /\ Denied(recorded, t, g.phone) = "allowed"
        /\ \A p \in CallRequests : requests[p].step = "put" => p = q
    BY <1>1, <1>5, <2>2 DEF OneAtATime, t
  <2>4. /\ \A e \in recorded : ~(e.phone = g.phone /\ e.t + Dedup > t)
        /\ ~(Cardinality(Recent(recorded, t)) >= CallLimit)
    BY <2>3 DEF Denied, Duplicates
  <2>5. recorded \subseteq Placed
    BY <1>2 DEF RateShape
  <2>6. ASSUME NEW e \in Placed, e.t + Window > t PROVE e \in Recent(recorded, t)
    <3>1. ASSUME NEW f \in recorded, e.t + Window <= f.t PROVE FALSE
      BY <1>2, <2>3, <2>5, <2>6, <3>1, RateConstants
    <3> QED BY <2>2, <2>6, <3>1 DEF Listed, Recent
  <2>7. Spaced(Placed')
    <3>1. ASSUME NEW e \in Placed, e.phone = g.phone PROVE t >= e.t + Dedup
      <4>1. CASE e \in recorded
        BY <1>2, <2>4, <3>1, <4>1, RateConstants
      <4>2. CASE e \notin recorded
        <5>1. e \notin Recent(recorded, t)
          BY <4>2 DEF Recent
        <5> QED BY <1>2, <2>6, <5>1, RateConstants
      <4> QED BY <4>1, <4>2
    <3> QED BY <1>5, <1>6, <2>2, <3>1 DEF Spaced
  <2>8. Limited(Placed')
    <3> DEFINE S == Recent(recorded, t)
    <3>0. S \subseteq Placed /\ IsFiniteSet(S) /\ Cardinality(S) \in Nat
      <4>1. S \subseteq Placed
        BY <2>5 DEF Recent
      <4> QED BY <1>2, <4>1, FS_Subset, FS_CardinalityType
    <3>1. IsFiniteSet(S \cup {g}) /\ Cardinality(S \cup {g}) \in Nat /\ Cardinality(S \cup {g}) <= CallLimit
      <4>1. IsFiniteSet(S \cup {g}) /\ Cardinality(S \cup {g}) <= Cardinality(S) + 1
        BY <3>0, FS_AddElement
      <4> QED BY <2>4, <3>0, <4>1, FS_CardinalityType, RateConstants
    <3>2. ASSUME NEW e \in Placed', e.t + Window > t PROVE Cardinality(Minute(Placed', e)) <= CallLimit
      <4>1. e.t \in Nat
        BY <1>2, <1>5, <1>6
      <4>2. ASSUME NEW f \in Placed, e.t <= f.t PROVE f \in S
        BY <1>2, <2>6, <3>2, <4>1, <4>2, RateConstants
      <4>3. Minute(Placed', e) \subseteq S \cup {g}
        BY <1>6, <4>2 DEF Minute
      <4> QED BY <3>1, <4>3, FS_Subset, FS_CardinalityType, RateConstants
    <3>3. ASSUME NEW e \in Placed', e.t + Window <= t PROVE Cardinality(Minute(Placed', e)) <= CallLimit
      <4>1. e # g /\ e \in Placed
        BY <1>2, <1>5, <1>6, <3>3, RateConstants
      <4>2. Minute(Placed', e) = Minute(Placed, e)
        BY <1>2, <1>5, <1>6, <3>3, <4>1, RateConstants DEF Minute
      <4> QED BY <2>2, <4>1, <4>2 DEF Limited
    <3>4. \A e \in Placed' : e.t \in Nat
      BY <1>2, <1>5, <1>6
    <3>5. \A e \in Placed' : e.t + Window > t \/ e.t + Window <= t
      BY <1>2, <3>4, RateConstants
    <3> QED BY <3>2, <3>3, <3>5 DEF Limited
  <2>9. Listed'
    <3> SUFFICES ASSUME NEW e \in Placed' PROVE e \in recorded' \/ \E f \in recorded' : e.t + Window <= f.t
      BY DEF Listed
    <3>1. g \in recorded'
      BY <1>1
    <3>2. CASE e \in Placed /\ e.t + Window > t
      BY <1>1, <2>3, <2>6, <3>2
    <3>3. CASE e \in Placed /\ e.t + Window <= t
      BY <1>5, <3>1, <3>3
    <3> QED BY <1>2, <1>6, <3>1, <3>2, <3>3, RateConstants
  <2>10. OneAtATime'
    <3>1. \A p \in CallRequests : requests'[p].step \notin {"get", "put"}
      BY <1>3, <1>4, <2>1, <2>3
    <3> QED BY ONLY <3>1 DEF OneAtATime
  <2>11. RefusalsHold'
    <3>1. \A p \in CallRequests : requests'[p].step # "ring" => requests'[p] = requests[p]
      BY <1>3, <1>4
    <3> QED BY <2>2, <3>1 DEF RefusalsHold, Denied, Duplicates, Recent
  <2> QED BY <2>7, <2>8, <2>9, <2>10, <2>11 DEF Spaced, Limited, Minute
<1> QED BY <1>7, <1>8 DEF RateInv

LEMMA RateInvNext == RateInv /\ [RateNext]_rateVars => RateInv'
<1> SUFFICES ASSUME RateInv, [RateNext]_rateVars PROVE RateInv'
  OBVIOUS
<1>1. CASE UNCHANGED rateVars
  <2>1. /\ callTime' = callTime /\ recorded' = recorded /\ requests' = requests /\ rung' = rung
        /\ overlapped' = overlapped
    BY <1>1 DEF rateVars
  <2>2. Placed' = Placed
    BY <2>1 DEF Placed, LetThrough, Entry, Now
  <2> QED BY <2>1, <2>2, Zenon DEF RateInv, RateShape, Listed, OneAtATime, RefusalsHold, Spaced,
             Limited, Minute, Denied, Duplicates, Recent
<1> QED BY <1>1, SecondKeeps, RequestedKeeps, GetKeeps, PutKeeps, RingKeeps DEF RateNext

THEOREM RateTyped == RateSpec => []RateTypeOK
<1>1. RateInv => RateTypeOK
  <2> SUFFICES ASSUME RateInv PROVE RateTypeOK
    OBVIOUS
  <2>1. RateShape
    BY DEF RateInv
  <2>2. \A e \in recorded \cup rung : e.t <= callTime /\ e.phone \in Phones /\ e.by \in CallRequests
    BY <2>1, RateFacts DEF RateShape, Entries
  <2> QED BY <2>1, <2>2 DEF RateShape, RateTypeOK
<1> QED BY <1>1, RateInvInit, RateInvNext, PTL DEF RateSpec

(***************************************************************************)
(* Unless two requests held the list at once, no minute has more calls     *)
(* than the limit and no number is rung twice within three seconds, and a  *)
(* refused request that comes back when it was told is not refused for the *)
(* same reason: for any limit, times and number of requests.               *)
(***************************************************************************)
THEOREM RateIsLimited == RateSpec => []RateHeld
<1>1. RateInv => RateHeld
  <2> SUFFICES ASSUME RateInv, ~overlapped PROVE RateHeld
    BY DEF RateHeld
  <2>1. /\ RateShape /\ IsFiniteSet(Placed) /\ rung \subseteq Placed
        /\ Spaced(Placed) /\ Limited(Placed) /\ RefusalsHold
    BY DEF RateInv, RateShape
  <2>2. Spaced(rung) /\ Limited(rung)
    BY <2>1, FewerCalls
  <2> QED BY <2>1, <2>2 DEF RateHeld, Spaced, Limited, Minute, RefusalsHold, Now
<1> QED BY <1>1, RateInvInit, RateInvNext, PTL DEF RateSpec

-----------------------------------------------------------------------------
(***************************************************************************)
(* A link's consultant.  While nobody else has a candidate's attribution in *)
(* hand, whoever does writes what Recruiterflow has.                       *)
(***************************************************************************)

LinkSteps == {"idle", "add", "set", "cache", "read index", "write index", "added", "unindexed", "error"}
Holders == {NoOne} \cup {By(r) : r \in Requests}
Items == [step : LinkSteps, attempt : 1 .. MaxAttempts, list : Seq(Added)]
Resolutions == [step : {"idle", "read", "cache"}, of : Added \cup {NoOne}, value : Holders]

LinkShape ==
    /\ links \subseteq Added
    /\ consultant \in [Added -> Holders] /\ attribution \in [Added -> Holders \cup {Missing}]
    /\ index \in Seq(Added)
    /\ items \in [Requests -> [Added -> Items]]
    /\ \A r \in Requests, c \in Added : items[r][c].step = "idle" \/ c \in Batch(r)
    /\ resolves \in [Resolvers -> Resolutions]
    /\ \A v \in Resolvers : resolves[v] = Resting \/ resolves[v].of \in links

\* What is said of one candidate's attribution.
Faithful(c, cons, attr, its, ress) ==
    /\ \A r \in Requests : its[r][c].step = "cache" => By(r) = cons[c]
    /\ \A v \in Resolvers : ress[v].of = c /\ ress[v].step = "cache" => ress[v].value = cons[c]
    /\ attr[c] \in {Missing, cons[c]} \/ \E r \in Requests : its[r][c].step = "cache"

LinkInv ==
    /\ LinkShape
    /\ \A c \in Added : c \notin suspect => Faithful(c, consultant, attribution, items, resolves)

LEMMA LinkInvInit == LinksInit => LinkInv
<1> SUFFICES ASSUME LinksInit PROVE LinkInv
  OBVIOUS
<1>1. /\ links = {} /\ consultant = [c \in Added |-> NoOne] /\ attribution = [c \in Added |-> Missing]
      /\ index = <<>> /\ items = [r \in Requests |-> [c \in Added |-> Untouched]]
      /\ resolves = [v \in Resolvers |-> Resting]
  BY DEF LinksInit
<1>2. Untouched \in Items /\ Untouched.step = "idle"
  <2>1. 1 \in 1 .. MaxAttempts /\ <<>> \in Seq(Added)
    BY EmptySeq DEF MaxAttempts
  <2> QED BY <2>1 DEF Untouched, Items, LinkSteps
<1>3. Resting \in Resolutions /\ Resting.step = "idle"
  BY DEF Resting, Resolutions, Holders
<1>4. LinkShape
  <2>1. index \in Seq(Added)
    BY <1>1, EmptySeq
  <2>2. consultant \in [Added -> Holders] /\ attribution \in [Added -> Holders \cup {Missing}]
    BY <1>1 DEF Holders
  <2> QED BY <1>1, <1>2, <1>3, <2>1, <2>2 DEF LinkShape
<1>5. \A c \in Added : Faithful(c, consultant, attribution, items, resolves)
  BY <1>1, <1>2, <1>3 DEF Faithful
<1> QED BY <1>4, <1>5 DEF LinkInv

(* The work on one candidate of a request goes on to another step. *)
LEMMA ItemGoesOn ==
  ASSUME LinkShape, NEW r \in Requests, NEW c \in Batch(r), NEW new \in Items,
         items' = [items EXCEPT ![r][c] = new]
  PROVE  /\ c \in Added
         /\ items' \in [Requests -> [Added -> Items]]
         /\ \A q \in Requests, d \in Added :
              items'[q][d] = IF q = r /\ d = c THEN new ELSE items[q][d]
         /\ \A q \in Requests, d \in Added : items'[q][d].step = "idle" \/ d \in Batch(q)
<1>1. c \in Added
  BY LinkConstants
<1>2. items \in [Requests -> [Added -> Items]]
  BY DEF LinkShape
<1>3. items' = [items EXCEPT ![r] = [items[r] EXCEPT ![c] = new]]
  BY <1>2
<1>4. items[r] \in [Added -> Items] /\ [items[r] EXCEPT ![c] = new] \in [Added -> Items]
  BY <1>1, <1>2
<1>5. items' \in [Requests -> [Added -> Items]]
  BY <1>2, <1>3, <1>4
<1>6. \A q \in Requests, d \in Added : items'[q][d] = IF q = r /\ d = c THEN new ELSE items[q][d]
  BY <1>1, <1>2, <1>3
<1> QED BY <1>1, <1>5, <1>6 DEF LinkShape


LEMMA LinkFacts ==
  ASSUME LinkShape, NEW r \in Requests, NEW c \in Batch(r)
  PROVE  /\ c \in Added /\ items[r][c] \in Items /\ By(r) \in Holders
         /\ \A s \in LinkSteps : /\ [items[r][c] EXCEPT !.step = s] \in Items
                                 /\ [items[r][c] EXCEPT !.step = s].step = s
         /\ \A s \in LinkSteps : Goto(r, c, s) =>
              items' = [items EXCEPT ![r][c] = [items[r][c] EXCEPT !.step = s]]
<1>1. c \in Added /\ items \in [Requests -> [Added -> Items]]
  BY LinkConstants DEF LinkShape
<1>2. items[r][c] \in Items
  BY <1>1
<1>3. \A s \in LinkSteps : /\ [items[r][c] EXCEPT !.step = s] \in Items
                           /\ [items[r][c] EXCEPT !.step = s].step = s
  BY <1>2 DEF Items
<1>4. By(r) \in Holders
  BY DEF Holders
<1> QED BY <1>1, <1>2, <1>3, <1>4 DEF Goto

AtStep(r, c, s) == [items[r][c] EXCEPT !.step = s]

LEMMA GoesTo ==
  ASSUME LinkShape, NEW r \in Requests, NEW c \in Batch(r), NEW s \in LinkSteps, Goto(r, c, s)
  PROVE  AtStep(r, c, s) \in Items /\ AtStep(r, c, s).step = s /\ items' = [items EXCEPT ![r][c] = AtStep(r, c, s)]
  BY LinkFacts DEF AtStep

(* A step that writes no attribution, and neither takes nor leaves one in hand. *)
LEMMA FaithStays ==
  ASSUME LinkInv, consultant' = consultant, attribution' = attribution, suspect' = suspect,
         resolves' = resolves,
         \A r \in Requests, c \in Added : items'[r][c].step = "cache" <=> items[r][c].step = "cache"
  PROVE  \A c \in Added : c \notin suspect' =>
            Faithful(c, consultant', attribution', items', resolves')
  BY DEF LinkInv, Faithful

LEMMA RequestKeeps == ASSUME LinkInv, NEW r \in Requests, Request(r) PROVE LinkInv'
<1>1. /\ \A c \in Added : items[r][c] = Untouched
      /\ items' = [items EXCEPT ![r] = [c \in Added |->
                     IF c \in Batch(r) THEN [Untouched EXCEPT !.step = "add"] ELSE Untouched]]
      /\ UNCHANGED <<links, consultant, attribution, index, resolves, suspect>>
  BY DEF Request
<1>2. LinkShape /\ items \in [Requests -> [Added -> Items]]
  BY DEF LinkInv, LinkShape
<1>3. /\ Untouched \in Items /\ Untouched.step = "idle"
      /\ [Untouched EXCEPT !.step = "add"] \in Items /\ [Untouched EXCEPT !.step = "add"].step = "add"
  <2>1. 1 \in 1 .. MaxAttempts /\ <<>> \in Seq(Added)
    BY EmptySeq DEF MaxAttempts
  <2> QED BY <2>1 DEF Untouched, Items, LinkSteps
<1>4. \A q \in Requests, c \in Added :
        items'[q][c] = IF q # r THEN items[q][c]
                       ELSE IF c \in Batch(r) THEN [Untouched EXCEPT !.step = "add"] ELSE Untouched
  BY <1>1, <1>2
<1>5. items' \in [Requests -> [Added -> Items]]
  BY <1>1, <1>2, <1>3
<1>6. LinkShape'
  BY <1>1, <1>2, <1>3, <1>4, <1>5 DEF LinkShape
<1>7. \A q \in Requests, c \in Added : items'[q][c].step = "cache" <=> items[q][c].step = "cache"
  <2>1. \A c \in Added : items[r][c].step # "cache" /\ items'[r][c].step # "cache"
    BY <1>1, <1>3, <1>4
  <2> QED BY <1>4, <2>1
<1>8. \A c \in Added : c \notin suspect' => Faithful(c, consultant', attribution', items', resolves')
  BY <1>1, <1>7, FaithStays
<1> QED BY <1>6, <1>8 DEF LinkInv

(* Work on one candidate that leaves the attribution alone. *)
LEMMA ItemKeeps ==
  ASSUME LinkInv, NEW r \in Requests, NEW c \in Batch(r), NEW new \in Items,
         items' = [items EXCEPT ![r][c] = new],
         items[r][c].step # "cache", new.step # "cache",
         consultant' = consultant, attribution' = attribution, suspect' = suspect, resolves' = resolves,
         links' \in {links, links \cup {c}}, index' \in Seq(Added)
  PROVE  LinkInv'
<1>1. LinkShape
  BY DEF LinkInv
<1>2. /\ c \in Added /\ items' \in [Requests -> [Added -> Items]]
      /\ \A q \in Requests, d \in Added :
           items'[q][d] = IF q = r /\ d = c THEN new ELSE items[q][d]
      /\ \A q \in Requests, d \in Added : items'[q][d].step = "idle" \/ d \in Batch(q)
  BY <1>1, ItemGoesOn
<1>3. LinkShape'
  BY <1>1, <1>2 DEF LinkShape
<1>4. \A d \in Added : d \notin suspect' => Faithful(d, consultant', attribution', items', resolves')
  BY <1>2, FaithStays
<1> QED BY <1>3, <1>4 DEF LinkInv

LEMMA AddKeeps ==
  ASSUME LinkInv, NEW r \in Requests, NEW c \in Batch(r), Add(r, c)
  PROVE  LinkInv'
<1>1. LinkShape /\ index \in Seq(Added)
  BY DEF LinkInv, LinkShape
<1>2. /\ items[r][c].step = "add" /\ links' \in {links, links \cup {c}}
      /\ UNCHANGED <<consultant, attribution, index, resolves, suspect>>
  BY DEF Add
<1>3. \/ items' = [items EXCEPT ![r][c] =
                     [Untouched EXCEPT !.step = IF By(r) = NoOne THEN "read index" ELSE "set"]]
      \/ Goto(r, c, "error")
      \/ items[r][c].attempt < MaxAttempts /\ items' = [items EXCEPT ![r][c].attempt = @ + 1]
  BY DEF Add
<1>4. PICK new \in Items : items' = [items EXCEPT ![r][c] = new] /\ new.step # "cache"
  <2>1. CASE items' = [items EXCEPT ![r][c] =
                         [Untouched EXCEPT !.step = IF By(r) = NoOne THEN "read index" ELSE "set"]]
    <3>1. 1 \in 1 .. MaxAttempts /\ <<>> \in Seq(Added)
      BY EmptySeq DEF MaxAttempts
    <3>2. \A s \in LinkSteps : [Untouched EXCEPT !.step = s] \in Items /\ [Untouched EXCEPT !.step = s].step = s
      BY <3>1 DEF Untouched, Items
    <3> DEFINE s == IF By(r) = NoOne THEN "read index" ELSE "set"
    <3>3. s \in LinkSteps /\ s # "cache"
      BY DEF LinkSteps
    <3> QED BY <2>1, <3>2, <3>3
  <2>2. CASE Goto(r, c, "error")
    <3>1. "error" \in LinkSteps
      BY DEF LinkSteps
    <3>2. "error" # "cache"
      OBVIOUS
    <3> QED BY <1>1, <2>2, <3>1, <3>2, GoesTo
  <2>3. CASE items[r][c].attempt < MaxAttempts /\ items' = [items EXCEPT ![r][c].attempt = @ + 1]
    <3> DEFINE new == [items[r][c] EXCEPT !.attempt = items[r][c].attempt + 1]
    <3>1. items[r][c] \in Items /\ c \in Added
      BY <1>1, LinkFacts
    <3>2. items[r][c].attempt + 1 \in 1 .. MaxAttempts
      BY <2>3, <3>1 DEF Items, MaxAttempts
    <3>3. new \in Items /\ new.step = items[r][c].step
      BY <3>1, <3>2 DEF Items
    <3>4. items' = [items EXCEPT ![r][c] = new]
      BY <2>3
    <3> HIDE DEF new
    <3> QED BY <1>2, <3>3, <3>4
  <2> QED BY <1>3, <2>1, <2>2, <2>3
<1> QED BY <1>1, <1>2, <1>4, ItemKeeps

LEMMA IndexKeeps ==
  ASSUME LinkInv, NEW r \in Requests, NEW c \in Batch(r), ReadIndex(r, c) \/ WriteIndex(r, c)
  PROVE  LinkInv'
<1>1. LinkShape /\ index \in Seq(Added) /\ items[r][c] \in Items /\ c \in Added
  BY LinkFacts DEF LinkInv, LinkShape
<1>2. /\ items[r][c].step # "cache"
      /\ UNCHANGED <<links, consultant, attribution, resolves, suspect>>
  BY DEF ReadIndex, WriteIndex
<1>3. \/ /\ index' = index
         /\ items' = [items EXCEPT ![r][c] =
                        [@ EXCEPT !.step = IF \E i \in DOMAIN index : index[i] = c
                                             THEN "added" ELSE "write index",
                                  !.list = index]]
      \/ Goto(r, c, "unindexed") /\ index' = index
      \/ /\ index' = Append(items[r][c].list, c)
         /\ items' = [items EXCEPT ![r][c] = [Untouched EXCEPT !.step = "added"]]
  BY DEF ReadIndex, WriteIndex
<1>4. /\ index' \in Seq(Added)
      /\ \E new \in Items : items' = [items EXCEPT ![r][c] = new] /\ new.step # "cache"
  <2>1. ASSUME index' = index,
               items' = [items EXCEPT ![r][c] =
                           [@ EXCEPT !.step = IF \E i \in DOMAIN index : index[i] = c
                                                THEN "added" ELSE "write index",
                                     !.list = index]]
        PROVE  \E new \in Items : items' = [items EXCEPT ![r][c] = new] /\ new.step # "cache"
    <3> DEFINE s == IF \E i \in DOMAIN index : index[i] = c THEN "added" ELSE "write index"
               new == [items[r][c] EXCEPT !.step = s, !.list = index]
    <3>1. s \in {"added", "write index"}
      OBVIOUS
    <3>2. items' = [items EXCEPT ![r][c] = new]
      BY <2>1
    <3> HIDE DEF s
    <3>3. new \in Items /\ new.step # "cache"
      BY <1>1, <3>1 DEF Items, LinkSteps
    <3> HIDE DEF new
    <3> QED BY <3>2, <3>3
  <2>2. CASE Goto(r, c, "unindexed") /\ index' = index
    <3>1. "unindexed" \in LinkSteps
      BY DEF LinkSteps
    <3>2. "unindexed" # "cache"
      OBVIOUS
    <3> QED BY <1>1, <2>2, <3>1, <3>2, GoesTo
  <2>3. ASSUME index' = Append(items[r][c].list, c),
               items' = [items EXCEPT ![r][c] = [Untouched EXCEPT !.step = "added"]]
        PROVE  /\ index' \in Seq(Added)
               /\ \E new \in Items : items' = [items EXCEPT ![r][c] = new] /\ new.step # "cache"
    <3>1. 1 \in 1 .. MaxAttempts /\ <<>> \in Seq(Added)
      BY EmptySeq DEF MaxAttempts
    <3>2. [Untouched EXCEPT !.step = "added"] \in Items /\ [Untouched EXCEPT !.step = "added"].step = "added"
      BY <3>1 DEF Untouched, Items, LinkSteps
    <3>3. Append(items[r][c].list, c) \in Seq(Added)
      BY <1>1, AppendProperties DEF Items
    <3> QED BY <2>3, <3>2, <3>3
  <2> QED BY <1>1, <1>3, <2>1, <2>2, <2>3
<1> QED BY <1>1, <1>2, <1>4, ItemKeeps


LEMMA SetKeeps ==
  ASSUME LinkInv, NEW r \in Requests, NEW c \in Batch(r), SetConsultant(r, c)
  PROVE  LinkInv'
<1>1. /\ LinkShape /\ c \in Added /\ By(r) \in Holders
      /\ consultant \in [Added -> Holders]
  BY LinkFacts DEF LinkInv, LinkShape
<1>2. /\ items[r][c].step = "set"
      /\ consultant' \in {consultant, [consultant EXCEPT ![c] = By(r)]}
      /\ links' = links /\ attribution' = attribution /\ index' = index /\ resolves' = resolves
      /\ \/ /\ consultant' = [consultant EXCEPT ![c] = By(r)] /\ Goto(r, c, "cache")
            /\ suspect' = IF InHand(r, c) THEN suspect \cup {c} ELSE suspect \ {c}
         \/ Goto(r, c, "read index") /\ suspect' = suspect \cup {c}
  BY DEF SetConsultant
<1>3. consultant' \in [Added -> Holders] /\ \A d \in Added : d # c => consultant'[d] = consultant[d]
  BY <1>1, <1>2
<1>4. ASSUME NEW new \in Items, items' = [items EXCEPT ![r][c] = new],
             \/ /\ new.step = "cache" /\ consultant' = [consultant EXCEPT ![c] = By(r)]
                /\ suspect' = IF InHand(r, c) THEN suspect \cup {c} ELSE suspect \ {c}
             \/ suspect' = suspect \cup {c}
      PROVE  LinkInv'
  <2>1. /\ items' \in [Requests -> [Added -> Items]]
        /\ \A q \in Requests, d \in Added :
             items'[q][d] = IF q = r /\ d = c THEN new ELSE items[q][d]
        /\ \A q \in Requests, d \in Added : items'[q][d].step = "idle" \/ d \in Batch(q)
    BY <1>1, <1>4, ItemGoesOn
  <2>2. LinkShape'
    BY <1>1, <1>2, <1>3, <2>1 DEF LinkShape
  <2>3. ASSUME NEW d \in Added, d \notin suspect', d # c
        PROVE  Faithful(d, consultant', attribution', items', resolves')
    <3>1. d \notin suspect
      BY <1>4, <2>3
    <3>2. Faithful(d, consultant, attribution, items, resolves)
      BY <3>1 DEF LinkInv
    <3> QED BY <1>2, <1>3, <2>1, <2>3, <3>2 DEF Faithful
  <2>4. ASSUME c \notin suspect'
        PROVE  Faithful(c, consultant', attribution', items', resolves')
    <3>1. new.step = "cache" /\ consultant'[c] = By(r) /\ ~InHand(r, c)
      BY <1>1, <1>4, <2>4
    <3>2. /\ \A q \in Requests : q # r => items[q][c].step # "cache"
          /\ \A v \in Resolvers : resolves[v].of # c
      BY <3>1 DEF InHand
    <3> QED BY <1>1, <1>2, <2>1, <3>1, <3>2 DEF Faithful
  <2> QED BY <2>2, <2>3, <2>4 DEF LinkInv
<1>5. "cache" \in LinkSteps /\ "read index" \in LinkSteps
  BY DEF LinkSteps
<1>6. CASE /\ consultant' = [consultant EXCEPT ![c] = By(r)] /\ Goto(r, c, "cache")
           /\ suspect' = IF InHand(r, c) THEN suspect \cup {c} ELSE suspect \ {c}
  <2>1. /\ AtStep(r, c, "cache") \in Items /\ AtStep(r, c, "cache").step = "cache"
        /\ items' = [items EXCEPT ![r][c] = AtStep(r, c, "cache")]
    BY <1>1, <1>5, <1>6, GoesTo
  <2> QED BY <1>4, <1>6, <2>1
<1>7. CASE Goto(r, c, "read index") /\ suspect' = suspect \cup {c}
  <2>1. AtStep(r, c, "read index") \in Items /\ items' = [items EXCEPT ![r][c] = AtStep(r, c, "read index")]
    BY <1>1, <1>5, <1>7, GoesTo
  <2> QED BY <1>4, <1>7, <2>1
<1> QED BY <1>2, <1>6, <1>7

LEMMA CacheKeeps ==
  ASSUME LinkInv, NEW r \in Requests, NEW c \in Batch(r), CacheConsultant(r, c)
  PROVE  LinkInv'
<1>1. /\ LinkShape /\ c \in Added /\ By(r) \in Holders
      /\ attribution \in [Added -> Holders \cup {Missing}]
  BY LinkFacts DEF LinkInv, LinkShape
<1>2. /\ items[r][c].step = "cache" /\ Goto(r, c, "read index")
      /\ links' = links /\ consultant' = consultant /\ index' = index /\ resolves' = resolves
      /\ \/ attribution' = [attribution EXCEPT ![c] = By(r)] /\ suspect' = suspect
         \/ attribution' = attribution /\ suspect' = suspect \cup {c}
  BY DEF CacheConsultant
<1>3. /\ attribution' \in [Added -> Holders \cup {Missing}]
      /\ \A d \in Added : d # c => attribution'[d] = attribution[d]
  BY <1>1, <1>2
<1> DEFINE new == AtStep(r, c, "read index")
<1>4. new \in Items /\ items' = [items EXCEPT ![r][c] = new] /\ new.step = "read index"
  <2>1. "read index" \in LinkSteps /\ Goto(r, c, "read index")
    BY <1>2 DEF LinkSteps
  <2> QED BY <1>1, <2>1, GoesTo
<1> HIDE DEF new
<1>5. /\ items' \in [Requests -> [Added -> Items]]
      /\ \A q \in Requests, d \in Added :
           items'[q][d] = IF q = r /\ d = c THEN new ELSE items[q][d]
      /\ \A q \in Requests, d \in Added : items'[q][d].step = "idle" \/ d \in Batch(q)
  BY <1>1, <1>4, ItemGoesOn
<1>6. LinkShape'
  BY <1>1, <1>2, <1>3, <1>5 DEF LinkShape
<1>7. ASSUME NEW d \in Added, d \notin suspect'
      PROVE  Faithful(d, consultant', attribution', items', resolves')
  <2>1. Faithful(d, consultant, attribution, items, resolves)
    BY <1>2, <1>7 DEF LinkInv
  <2>2. CASE d # c
    BY <1>2, <1>3, <1>5, <2>1, <2>2 DEF Faithful
  <2>3. CASE d = c
    <3>1. attribution'[c] = By(r) /\ By(r) = consultant[c]
      BY <1>1, <1>2, <1>7, <2>1, <2>3 DEF Faithful
    <3> QED BY <1>2, <1>4, <1>5, <2>1, <2>3, <3>1 DEF Faithful
  <2> QED BY <2>2, <2>3
<1> QED BY <1>6, <1>7 DEF LinkInv

LEMMA ResolveKeeps ==
  ASSUME LinkInv, NEW v \in Resolvers,
         ReadConsultant(v) \/ CacheResolved(v) \/ \E c \in Added : Miss(v, c)
  PROVE  LinkInv'
<1>1. /\ LinkShape /\ links \subseteq Added /\ consultant \in [Added -> Holders]
      /\ attribution \in [Added -> Holders \cup {Missing}]
      /\ resolves \in [Resolvers -> Resolutions] /\ resolves[v] \in Resolutions
      /\ resolves[v] = Resting \/ resolves[v].of \in links
      /\ Resting \in Resolutions /\ Resting.step = "idle"
  BY DEF LinkInv, LinkShape, Resting, Resolutions, Holders
<1>2. /\ links' = links /\ consultant' = consultant /\ index' = index /\ items' = items
      /\ suspect' = suspect
  BY DEF ReadConsultant, CacheResolved, Miss
<1>3. ASSUME NEW new \in Resolutions, resolves' = [resolves EXCEPT ![v] = new],
             new = Resting \/ new.of \in links,
             attribution' = attribution,
             new.step = "cache" => new.value = consultant[new.of]
      PROVE  LinkInv'
  <2>1. \A w \in Resolvers : resolves'[w] = IF w = v THEN new ELSE resolves[w]
    BY <1>1, <1>3
  <2>2. LinkShape'
    BY <1>1, <1>2, <1>3, <2>1 DEF LinkShape
  <2>3. \A c \in Added : c \notin suspect' => Faithful(c, consultant', attribution', items', resolves')
    BY <1>2, <1>3, <2>1 DEF LinkInv, Faithful
  <2> QED BY <2>2, <2>3 DEF LinkInv
<1>4. ASSUME NEW c \in Added, Miss(v, c) PROVE LinkInv'
  <2> DEFINE new == [Resting EXCEPT !.step = "read", !.of = c]
  <2>1. /\ c \in links /\ attribution' = attribution /\ resolves' = [resolves EXCEPT ![v] = new]
    BY <1>4 DEF Miss
  <2>2. new \in Resolutions /\ new.of = c /\ new.step = "read"
    BY <1>1, <1>4 DEF Resolutions
  <2> HIDE DEF new
  <2> QED BY <1>3, <2>1, <2>2
<1>5. CASE ReadConsultant(v)
  <2> DEFINE c == resolves[v].of
             new == [resolves[v] EXCEPT !.step = "cache", !.value = consultant[c]]
  <2>1. /\ resolves[v].step = "read" /\ attribution' = attribution
        /\ \/ resolves' = [resolves EXCEPT ![v].step = "cache", ![v].value = consultant[c]]
           \/ resolves' = [resolves EXCEPT ![v] = Resting]
    BY <1>5 DEF ReadConsultant
  <2>2. c \in links /\ c \in Added /\ consultant[c] \in Holders
    BY <1>1, <2>1
  <2>3. new \in Resolutions /\ new.of = c /\ new.value = consultant[c]
    BY <1>1, <2>2 DEF Resolutions
  <2>4. CASE resolves' = [resolves EXCEPT ![v].step = "cache", ![v].value = consultant[c]]
    <3>1. resolves' = [resolves EXCEPT ![v] = new]
      BY <1>1, <2>4
    <3> HIDE DEF new
    <3> QED BY <1>3, <2>1, <2>2, <2>3, <3>1
  <2>5. CASE resolves' = [resolves EXCEPT ![v] = Resting]
    BY <1>1, <1>3, <2>1, <2>5
  <2> QED BY <2>1, <2>4, <2>5
<1>6. CASE CacheResolved(v)
  <2> DEFINE c == resolves[v].of
  <2>1. /\ resolves[v].step = "cache" /\ resolves' = [resolves EXCEPT ![v] = Resting]
        /\ attribution' = [attribution EXCEPT ![c] = resolves[v].value]
    BY <1>6 DEF CacheResolved
  <2>2. c \in Added /\ resolves[v].value \in Holders
    BY <1>1, <2>1 DEF Resolutions
  <2>3. /\ attribution' \in [Added -> Holders \cup {Missing}]
        /\ \A d \in Added : attribution'[d] = IF d = c THEN resolves[v].value ELSE attribution[d]
    BY <1>1, <2>1, <2>2
  <2>4. \A w \in Resolvers : resolves'[w] = IF w = v THEN Resting ELSE resolves[w]
    BY <1>1, <2>1
  <2>5. LinkShape'
    BY <1>1, <1>2, <2>1, <2>3, <2>4 DEF LinkShape
  <2>6. ASSUME NEW d \in Added, d \notin suspect'
        PROVE  Faithful(d, consultant', attribution', items', resolves')
    <3>1. Faithful(d, consultant, attribution, items, resolves)
      BY <1>2, <2>6 DEF LinkInv
    <3>2. d = c => resolves[v].value = consultant[d]
      BY <2>1, <3>1 DEF Faithful
    <3> QED BY <1>1, <1>2, <2>3, <2>4, <3>1, <3>2 DEF Faithful
  <2> QED BY <2>5, <2>6 DEF LinkInv
<1> QED BY <1>4, <1>5, <1>6

LEMMA LinkInvNext == LinkInv /\ [LinksNext]_linkVars => LinkInv'
<1> SUFFICES ASSUME LinkInv, [LinksNext]_linkVars PROVE LinkInv'
  OBVIOUS
<1>1. CASE UNCHANGED linkVars
  BY <1>1 DEF linkVars, LinkInv, LinkShape, Faithful
<1>2. CASE Expires
  <2>1. /\ links' = links /\ consultant' = consultant /\ items' = items /\ resolves' = resolves
        /\ suspect' = suspect
        /\ \/ index' = index /\ \E c \in Added : attribution' = [attribution EXCEPT ![c] = Missing]
           \/ index' = <<>> /\ attribution' = attribution
    BY <1>2 DEF Expires
  <2>2. attribution \in [Added -> Holders \cup {Missing}] /\ index \in Seq(Added)
    BY DEF LinkInv, LinkShape
  <2>3. /\ attribution' \in [Added -> Holders \cup {Missing}]
        /\ \A c \in Added : attribution'[c] \in {Missing, attribution[c]}
        /\ index' \in Seq(Added)
    BY <2>1, <2>2, EmptySeq
  <2>4. LinkShape'
    BY <2>1, <2>3 DEF LinkInv, LinkShape
  <2>5. \A c \in Added : c \notin suspect' => Faithful(c, consultant', attribution', items', resolves')
    BY <2>1, <2>3 DEF LinkInv, Faithful
  <2> QED BY <2>4, <2>5 DEF LinkInv
<1> QED BY <1>1, <1>2, RequestKeeps, AddKeeps, SetKeeps, CacheKeeps, IndexKeeps, ResolveKeeps
        DEF LinksNext

THEOREM LinksTyped == LinksSpec => []LinksTypeOK
<1>1. LinkInv => LinksTypeOK
  BY DEF LinkInv, LinkShape, LinksTypeOK, Items
<1> QED BY <1>1, LinkInvInit, LinkInvNext, PTL DEF LinksSpec

(***************************************************************************)
(* Unless two calls had a candidate's attribution in hand at once or one   *)
(* failed half way, KV has nothing of it or what Recruiterflow has: for    *)
(* any candidates, requests, consultants and resolutions.                  *)
(***************************************************************************)
THEOREM AttributionIsTrue == LinksSpec => []AttributionAgrees
<1>1. LinkInv => AttributionAgrees
  BY DEF LinkInv, Faithful, AttributionAgrees
<1> QED BY <1>1, LinkInvInit, LinkInvNext, PTL DEF LinksSpec

-----------------------------------------------------------------------------
(***************************************************************************)
(* The snapshot of the details.  How far it is behind Recruiterflow grows  *)
(* no faster than its life runs out, and began with the age of the answer  *)
(* that was put; and no load has an answer older than a mark in hand       *)
(* unless it had it when the mark was made.                                *)
(***************************************************************************)

LoadRecords == [step : {"idle", "fetch", "put", "shown"}, version : 0 .. MaxVersions,
                age : 0 .. FetchTime, shown : Nat]
Snapshots == [version : 0 .. MaxVersions, left : 0 .. Life]
Marks == [step : {"idle", "update", "delete", "answered"}, version : 0 .. MaxVersions]

SnapshotShape ==
    /\ clock \in 0 .. MaxClock /\ version \in 1 .. MaxVersions
    /\ changed \in [1 .. MaxVersions -> 0 .. MaxClock]
    /\ \A v \in 1 .. MaxVersions : v < version => changed[v] <= clock
    /\ snapshot \in Snapshots
    /\ snapshot # NoSnapshot => snapshot.version \in 1 .. version /\ snapshot.left \in 1 .. Life
    /\ loads \in [Loads -> LoadRecords]
    /\ \A l \in Loads : loads[l].version <= version
    /\ \A l \in Loads : loads[l].step = "put" => loads[l].version \in 1 .. version
    /\ mark \in Marks /\ mark.version <= version
    /\ mark.step \in {"idle", "update"} => mark.version = 0

\* A version is at most so far behind.
Late(v, by) == v = version \/ clock - changed[v] <= by

AgesBound ==
    /\ snapshot # NoSnapshot => Late(snapshot.version, Life - snapshot.left + FetchTime)
    /\ \A l \in Loads : loads[l].step = "put" => Late(loads[l].version, loads[l].age)
    /\ \A l \in Loads : loads[l].shown <= Life + FetchTime

MarkIsKnown ==
    ~overtaken =>
      /\ mark.step \in {"delete", "answered"} =>
           \A l \in Loads : loads[l].step = "put" => loads[l].version >= mark.version
      /\ mark.step = "answered" => snapshot = NoSnapshot \/ snapshot.version >= mark.version

SnapshotInv == SnapshotShape /\ AgesBound /\ MarkIsKnown

LEMMA SnapshotInvInit == SnapshotInit => SnapshotInv
<1> SUFFICES ASSUME SnapshotInit PROVE SnapshotInv
  OBVIOUS
<1>1. /\ clock = 0 /\ version = 1 /\ changed = [v \in 1 .. MaxVersions |-> MaxClock]
      /\ snapshot = NoSnapshot /\ loads = [l \in Loads |-> Ready]
      /\ mark = [step |-> "idle", version |-> 0]
  BY DEF SnapshotInit
<1>2. Ready \in LoadRecords /\ NoSnapshot \in Snapshots /\ mark \in Marks
  BY <1>1, SnapshotConstants DEF Ready, LoadRecords, NoSnapshot, Snapshots, Marks
<1>3. Ready.step = "idle" /\ Ready.version = 0 /\ Ready.shown = 0
  BY DEF Ready
<1>4. SnapshotShape
  BY <1>1, <1>2, <1>3, SnapshotConstants DEF SnapshotShape
<1>5. AgesBound
  BY <1>1, <1>3, SnapshotConstants DEF AgesBound
<1>6. MarkIsKnown
  BY <1>1, <1>3 DEF MarkIsKnown
<1> QED BY <1>4, <1>5, <1>6 DEF SnapshotInv

LEMMA SnapshotFacts ==
  ASSUME SnapshotShape
  PROVE  /\ clock \in Nat /\ version \in Nat \ {0} /\ version <= MaxVersions
         /\ Life \in Nat \ {0} /\ FetchTime \in Nat /\ MaxVersions \in Nat /\ MaxClock \in Nat
         /\ snapshot.version \in Nat /\ snapshot.left \in Nat
         /\ \A v \in 1 .. MaxVersions : changed[v] \in Nat
         /\ \A l \in Loads : /\ loads[l].version \in Nat /\ loads[l].age \in 0 .. FetchTime
                             /\ loads[l].age \in Nat /\ loads[l].shown \in Nat
                             /\ loads[l] \in LoadRecords
         /\ mark.version \in Nat
  BY SnapshotConstants DEF SnapshotShape, Snapshots, LoadRecords, Marks

LEMMA TicksKeep == ASSUME SnapshotInv, Ticks PROVE SnapshotInv'
<1>1. /\ clock < MaxClock /\ clock' = clock + 1
      /\ \A l \in Loads : loads[l].step \in {"fetch", "put"} => loads[l].age < FetchTime
      /\ snapshot' = IF snapshot.left > 1 THEN [snapshot EXCEPT !.left = @ - 1] ELSE NoSnapshot
      /\ loads' = [l \in Loads |-> IF loads[l].step \in {"fetch", "put"}
                                   THEN [loads[l] EXCEPT !.age = @ + 1] ELSE loads[l]]
      /\ version' = version /\ changed' = changed /\ mark' = mark /\ overtaken' = overtaken
  BY DEF Ticks
<1>2. SnapshotShape /\ AgesBound /\ MarkIsKnown
  BY DEF SnapshotInv
<1>3. ASSUME NEW l \in Loads
      PROVE  /\ loads'[l] \in LoadRecords /\ loads'[l].step = loads[l].step
             /\ loads'[l].version = loads[l].version /\ loads'[l].shown = loads[l].shown
             /\ loads[l].step = "put" => loads'[l].age = loads[l].age + 1
  BY <1>1, <1>2, SnapshotFacts DEF LoadRecords
<1>4. \/ snapshot' = NoSnapshot
      \/ /\ snapshot # NoSnapshot /\ snapshot' \in Snapshots /\ snapshot'.version = snapshot.version
         /\ snapshot'.left = snapshot.left - 1 /\ snapshot'.left \in 1 .. Life
  <2>1. CASE snapshot.left > 1
    <3>1. snapshot \in Snapshots /\ snapshot # NoSnapshot
      BY <1>2, <2>1 DEF SnapshotShape, NoSnapshot
    <3>2. snapshot.left \in 1 .. Life
      BY <1>2, <3>1 DEF SnapshotShape
    <3> QED BY <1>1, <2>1, <3>1, <3>2, SnapshotConstants DEF Snapshots
  <2>2. CASE ~(snapshot.left > 1)
    BY <1>1, <2>2
  <2> QED BY <2>1, <2>2
<1>5. SnapshotShape'
  <2>1. snapshot' \in Snapshots
    BY <1>4, SnapshotConstants DEF NoSnapshot, Snapshots
  <2>2. clock' \in 0 .. MaxClock /\ \A v \in 1 .. MaxVersions : v < version => changed[v] <= clock'
    BY <1>1, <1>2, SnapshotFacts DEF SnapshotShape
  <2>3. loads' \in [Loads -> LoadRecords]
    BY <1>1, <1>3
  <2> QED BY <1>1, <1>2, <1>3, <1>4, <2>1, <2>2, <2>3 DEF SnapshotShape
<1>6. AgesBound'
  <2>1. ASSUME NEW v \in 1 .. MaxVersions, NEW by \in Int, Late(v, by) PROVE v = version' \/ clock' - changed'[v] <= by + 1
    BY <1>1, <1>2, <2>1, SnapshotFacts DEF Late
  <2>2. ASSUME snapshot' # NoSnapshot
        PROVE  LET v == snapshot'.version
                   by == Life - snapshot'.left + FetchTime
               IN  v = version' \/ clock' - changed'[v] <= by
    <3>1. snapshot.version \in 1 .. MaxVersions
      BY <1>2, <1>4, <2>2, SnapshotFacts DEF SnapshotShape
    <3>2. Late(snapshot.version, Life - snapshot.left + FetchTime) /\ Life - snapshot.left + FetchTime \in Int
      BY <1>2, <1>4, <2>2, SnapshotFacts DEF AgesBound
    <3>3. Life - snapshot'.left + FetchTime = Life - snapshot.left + FetchTime + 1
      BY <1>2, <1>4, <2>2, SnapshotFacts
    <3> QED BY <1>4, <2>1, <2>2, <3>1, <3>2, <3>3
  <2>3. ASSUME NEW l \in Loads, loads'[l].step = "put"
        PROVE  loads'[l].version = version' \/ clock' - changed'[loads'[l].version] <= loads'[l].age
    <3>1. loads[l].version \in 1 .. MaxVersions
      BY <1>2, <1>3, <2>3, SnapshotFacts DEF SnapshotShape
    <3>2. Late(loads[l].version, loads[l].age) /\ loads[l].age \in Int
      BY <1>2, <1>3, <2>3, SnapshotFacts DEF AgesBound
    <3> QED BY <1>3, <2>1, <2>3, <3>1, <3>2
  <2>4. \A l \in Loads : loads'[l].shown <= Life + FetchTime
    BY <1>2, <1>3 DEF AgesBound
  <2> QED BY <2>2, <2>3, <2>4 DEF AgesBound, Late
<1>7. MarkIsKnown'
  BY <1>1, <1>2, <1>3, <1>4, Zenon DEF MarkIsKnown
<1> QED BY <1>5, <1>6, <1>7 DEF SnapshotInv


LEMMA ReplacesKeeps ==
  ASSUME SnapshotInv, Replaces, clock' = clock, snapshot' = snapshot, loads' = loads,
         mark' \in Marks, mark'.version <= version',
         mark'.step \in {"idle", "update"} => mark'.version = 0
  PROVE  SnapshotShape' /\ AgesBound'
<1>1. /\ version < MaxVersions /\ version' = version + 1 /\ changed' = [changed EXCEPT ![version] = clock]
  BY DEF Replaces
<1>2. SnapshotShape /\ AgesBound
  BY DEF SnapshotInv
<1>3. version \in 1 .. MaxVersions /\ version' \in 1 .. MaxVersions /\ clock \in 0 .. MaxClock
  BY <1>1, <1>2, SnapshotFacts DEF SnapshotShape
<1>4. /\ changed' \in [1 .. MaxVersions -> 0 .. MaxClock]
      /\ \A v \in 1 .. MaxVersions : changed'[v] = IF v = version THEN clock ELSE changed[v]
  BY <1>1, <1>2, <1>3 DEF SnapshotShape
<1>5. \A v \in 1 .. MaxVersions : v < version' => changed'[v] <= clock'
  <2> SUFFICES ASSUME NEW v \in 1 .. MaxVersions, v < version' PROVE changed'[v] <= clock
    OBVIOUS
  <2>1. v < version \/ v = version
    BY <1>1, <1>2, SnapshotFacts
  <2> QED BY <1>2, <1>4, <2>1, SnapshotFacts DEF SnapshotShape
<1>6. SnapshotShape'
  <2>1. /\ snapshot # NoSnapshot => snapshot.version \in 1 .. version'
        /\ \A l \in Loads : /\ loads[l].version <= version'
                            /\ loads[l].step = "put" => loads[l].version \in 1 .. version'
    BY <1>1, <1>2, SnapshotFacts DEF SnapshotShape
  <2> QED BY <1>2, <1>3, <1>4, <1>5, <2>1 DEF SnapshotShape
<1>7. ASSUME NEW v \in 1 .. version, NEW by \in Nat, Late(v, by)
      PROVE  v = version' \/ clock' - changed'[v] <= by
  <2>0. v \in 1 .. MaxVersions
    BY <1>2, SnapshotFacts
  <2>1. CASE v = version
    <3>1. changed'[v] = clock /\ clock \in Nat
      BY <1>2, <1>4, <2>0, <2>1, SnapshotFacts
    <3> QED BY <3>1
  <2>2. CASE v # version
    BY <1>4, <1>7, <2>0, <2>2 DEF Late
  <2> QED BY <2>1, <2>2
<1>8. AgesBound'
  <2>1. ASSUME snapshot # NoSnapshot
        PROVE  LET v == snapshot.version
                   by == Life - snapshot.left + FetchTime
               IN  v = version' \/ clock' - changed'[v] <= by
    <3>1. snapshot.version \in 1 .. version /\ Life - snapshot.left + FetchTime \in Nat
      BY <1>2, <2>1, SnapshotFacts DEF SnapshotShape
    <3> QED BY <1>2, <1>7, <2>1, <3>1 DEF AgesBound
  <2>2. ASSUME NEW l \in Loads, loads[l].step = "put"
        PROVE  loads[l].version = version' \/ clock' - changed'[loads[l].version] <= loads[l].age
    <3>1. loads[l].version \in 1 .. version /\ loads[l].age \in Nat
      BY <1>2, <2>2, SnapshotFacts DEF SnapshotShape
    <3> QED BY <1>2, <1>7, <2>2, <3>1 DEF AgesBound
  <2> QED BY <1>2, <2>1, <2>2 DEF AgesBound, Late
<1> QED BY <1>6, <1>8

LEMMA ChangesKeep == ASSUME SnapshotInv, Changes PROVE SnapshotInv'
<1>1. /\ Replaces /\ clock' = clock /\ snapshot' = snapshot /\ loads' = loads /\ mark' = mark
      /\ overtaken' = overtaken
  BY DEF Changes
<1>2. /\ mark' \in Marks /\ mark'.version <= version'
      /\ mark'.step \in {"idle", "update"} => mark'.version = 0
  BY <1>1, SnapshotFacts DEF SnapshotInv, SnapshotShape, Replaces
<1>3. MarkIsKnown'
  BY <1>1, Zenon DEF SnapshotInv, MarkIsKnown
<1> QED BY <1>1, <1>2, <1>3, ReplacesKeeps DEF SnapshotInv

LEMMA AddTagKeeps == ASSUME SnapshotInv, AddTag PROVE SnapshotInv'
<1>1. /\ Replaces /\ clock' = clock /\ snapshot' = snapshot /\ loads' = loads
      /\ mark' = [step |-> "delete", version |-> version']
      /\ overtaken' = \E l \in Loads : loads[l].step = "put"
  BY DEF AddTag
<1>2. version' \in 1 .. MaxVersions
  BY <1>1, SnapshotFacts DEF SnapshotInv, Replaces
<1>3. mark' \in Marks /\ mark'.version <= version' /\ mark'.step = "delete"
  BY <1>1, <1>2, SnapshotConstants DEF Marks
<1>4. MarkIsKnown'
  BY <1>1, <1>3, Zenon DEF MarkIsKnown
<1> QED BY <1>1, <1>3, <1>4, ReplacesKeeps DEF SnapshotInv

(* A step of one load that puts nothing. *)
LEMMA LoadKeeps ==
  ASSUME SnapshotInv, NEW l \in Loads, NEW new \in LoadRecords,
         loads' = [loads EXCEPT ![l] = new], new.version <= version,
         new.step = "put" => new.version = version, new.shown <= Life + FetchTime,
         UNCHANGED <<clock, version, changed, snapshot, mark, overtaken>>
  PROVE  SnapshotInv'
<1>1. SnapshotShape /\ AgesBound /\ MarkIsKnown
  BY DEF SnapshotInv
<1>2. loads' \in [Loads -> LoadRecords] /\ \A k \in Loads : loads'[k] = IF k = l THEN new ELSE loads[k]
  BY <1>1 DEF SnapshotShape
<1>3. SnapshotShape'
  <2>1. version \in 1 .. version
    BY <1>1, SnapshotFacts
  <2> QED BY <1>1, <1>2, <2>1 DEF SnapshotShape
<1>4. AgesBound'
  BY <1>1, <1>2 DEF AgesBound, Late
<1>5. MarkIsKnown'
  <2>1. version >= mark.version
    BY <1>1, SnapshotFacts DEF SnapshotShape
  <2>2. \A k \in Loads : loads'[k].step = "put" =>
           loads'[k].version = version \/ (loads[k].step = "put" /\ loads'[k].version = loads[k].version)
    BY <1>2
  <2> QED BY <1>1, <2>1, <2>2, Zenon DEF MarkIsKnown
<1> QED BY <1>3, <1>4, <1>5 DEF SnapshotInv

(* What is shown has been out of date for the snapshot's life at most. *)
LEMMA BehindIsBounded ==
  ASSUME SnapshotInv, NEW v \in 1 .. version, NEW by \in Nat, by <= Life + FetchTime, Late(v, by)
  PROVE  Behind(v) \in Nat /\ Behind(v) <= Life + FetchTime
<1>1. SnapshotShape
  BY DEF SnapshotInv
<1>2. v \in 1 .. MaxVersions /\ (v # version => v < version)
  BY <1>1, SnapshotFacts
<1>3. v # version => changed[v] <= clock
  BY <1>1, <1>2 DEF SnapshotShape
<1> QED BY <1>1, <1>2, <1>3, SnapshotFacts DEF Behind, Late

LEMMA LoadsKeep ==
  ASSUME SnapshotInv, NEW l \in Loads, Hit(l) \/ Misses(l) \/ Fetch(l) \/ Leaves(l)
  PROVE  SnapshotInv'
<1>1. SnapshotShape /\ AgesBound
  BY DEF SnapshotInv
<1>2. UNCHANGED <<clock, version, changed, snapshot, mark, overtaken>>
  BY DEF Hit, Misses, Fetch, Leaves
<1>3. /\ loads[l] \in LoadRecords /\ loads \in [Loads -> LoadRecords]
      /\ loads[l].shown <= Life + FetchTime /\ loads[l].version <= version
      /\ version \in 0 .. MaxVersions
  BY <1>1, SnapshotFacts DEF SnapshotShape, AgesBound
<1>4. CASE Hit(l)
  <2> DEFINE w == snapshot.version
             b == Behind(w)
             new == [loads[l] EXCEPT !.step = "shown", !.version = w, !.shown = b]
  <2>1. snapshot # NoSnapshot /\ loads' = [loads EXCEPT ![l] = new]
    BY <1>4 DEF Hit
  <2>2. w \in 1 .. version /\ snapshot.left \in 1 .. Life
    BY <1>1, <2>1 DEF SnapshotShape
  <2>3. /\ Late(w, Life - snapshot.left + FetchTime) /\ Life - snapshot.left + FetchTime \in Nat
        /\ Life - snapshot.left + FetchTime <= Life + FetchTime
    BY <1>1, <2>1, <2>2, SnapshotFacts DEF AgesBound
  <2>4. b \in Nat /\ b <= Life + FetchTime
    BY <2>2, <2>3, BehindIsBounded
  <2>5. w \in 0 .. MaxVersions /\ w <= version
    BY <1>1, <2>2, SnapshotFacts
  <2> HIDE DEF w, b
  <2>6. new \in LoadRecords /\ new.version = w /\ new.step = "shown" /\ new.shown = b
    BY <1>3, <2>4, <2>5 DEF LoadRecords
  <2> HIDE DEF new
  <2> QED BY <1>2, <2>1, <2>4, <2>5, <2>6, LoadKeeps
<1>5. CASE Misses(l)
  <2> DEFINE new == [loads[l] EXCEPT !.step = "fetch"]
  <2>1. loads' = [loads EXCEPT ![l] = new]
    BY <1>5 DEF Misses
  <2>2. /\ new \in LoadRecords /\ new.version = loads[l].version /\ new.step = "fetch"
        /\ new.shown = loads[l].shown
    BY <1>3 DEF LoadRecords
  <2> HIDE DEF new
  <2> QED BY <1>2, <1>3, <2>1, <2>2, LoadKeeps
<1>6. /\ Ready \in LoadRecords /\ Ready.step = "idle" /\ Ready.version <= version
      /\ Ready.shown <= Life + FetchTime
  BY <1>1, SnapshotFacts DEF Ready, LoadRecords
<1>7. CASE loads' = [loads EXCEPT ![l] = Ready]
  BY <1>2, <1>6, <1>7, LoadKeeps
<1>8. CASE Fetch(l) /\ loads' # [loads EXCEPT ![l] = Ready]
  <2> DEFINE new == [loads[l] EXCEPT !.step = "put", !.version = version]
  <2>1. loads' = [loads EXCEPT ![l] = new]
    BY <1>8 DEF Fetch
  <2>2. new \in LoadRecords /\ new.version = version /\ new.shown = loads[l].shown
    BY <1>3 DEF LoadRecords
  <2>3. version <= version
    BY <1>1, SnapshotFacts
  <2> HIDE DEF new
  <2> QED BY <1>2, <1>3, <2>1, <2>2, <2>3, LoadKeeps
<1> QED BY <1>4, <1>5, <1>7, <1>8 DEF Leaves

LEMMA PutsKeep == ASSUME SnapshotInv, NEW l \in Loads, Put(l) PROVE SnapshotInv'
<1> DEFINE w == loads[l].version
           b == Behind(w)
           new == [loads[l] EXCEPT !.step = "shown", !.age = 0, !.shown = b]
           snap == [version |-> w, left |-> Life]
<1>1. SnapshotShape /\ AgesBound /\ MarkIsKnown
  BY DEF SnapshotInv
<1>2. /\ loads[l].step = "put" /\ snapshot' = snap /\ loads' = [loads EXCEPT ![l] = new]
      /\ UNCHANGED <<clock, version, changed, mark, overtaken>>
  BY DEF Put
<1>3. /\ w \in 1 .. version /\ w \in 0 .. MaxVersions /\ loads[l] \in LoadRecords
      /\ loads \in [Loads -> LoadRecords] /\ loads[l].age \in Nat /\ loads[l].age <= FetchTime
      /\ Late(w, loads[l].age)
  BY <1>1, <1>2, SnapshotFacts DEF SnapshotShape, AgesBound
<1>4. b \in Nat /\ b <= Life + FetchTime
  <2>1. loads[l].age <= Life + FetchTime
    BY <1>1, <1>3, SnapshotFacts
  <2> QED BY <1>3, <2>1, BehindIsBounded
<1>5. snap \in Snapshots /\ snap # NoSnapshot /\ snap.version = w /\ snap.left = Life
  BY <1>3, SnapshotConstants DEF Snapshots, NoSnapshot
<1> HIDE DEF b, snap
<1>6. new \in LoadRecords /\ new.step = "shown" /\ new.version = w /\ new.shown = b
  <2>1. 0 \in 0 .. FetchTime
    BY SnapshotConstants
  <2> QED BY ONLY <1>3, <1>4, <2>1 DEF LoadRecords
<1> HIDE DEF w
<1> HIDE DEF new
<1>7. loads' \in [Loads -> LoadRecords] /\ \A k \in Loads : loads'[k] = IF k = l THEN new ELSE loads[k]
  BY <1>2, <1>3, <1>6
<1>8. SnapshotShape'
  <2>1. Life \in 1 .. Life /\ w <= version
    BY <1>1, <1>3, SnapshotFacts
  <2> QED BY <1>1, <1>2, <1>3, <1>5, <1>6, <1>7, <2>1 DEF SnapshotShape
<1>9. AgesBound'
  <2>1. w = version \/ clock - changed[w] <= Life - Life + FetchTime
    <3>1. w = version \/ clock - changed[w] <= loads[l].age
      BY <1>3 DEF Late
    <3>2. w \in 1 .. MaxVersions
      BY <1>1, <1>3, SnapshotFacts
    <3> QED BY <1>1, <1>3, <3>1, <3>2, SnapshotFacts
  <2> QED BY <1>1, <1>2, <1>4, <1>5, <1>6, <1>7, <2>1 DEF AgesBound, Late
<1>10. MarkIsKnown'
  <2>1. ~overtaken /\ mark.step \in {"delete", "answered"} => w >= mark.version
    BY <1>1, <1>2 DEF MarkIsKnown, w
  <2>2. \A k \in Loads : loads'[k].step = "put" => loads'[k] = loads[k]
    BY <1>6, <1>7
  <2> QED BY <1>1, <1>2, <1>5, <2>1, <2>2 DEF MarkIsKnown
<1> QED BY <1>8, <1>9, <1>10 DEF SnapshotInv

LEMMA MarksKeep ==
  ASSUME SnapshotInv, ReadTags \/ DeleteSnapshot \/ MarkFails
  PROVE  SnapshotInv'
<1>1. SnapshotShape /\ AgesBound /\ MarkIsKnown
  BY DEF SnapshotInv
<1>2. UNCHANGED <<clock, version, changed, loads, overtaken>>
  BY DEF ReadTags, DeleteSnapshot, MarkFails
<1>3. /\ mark' \in Marks /\ mark'.version <= version
      /\ snapshot' \in {snapshot, NoSnapshot}
      /\ \/ mark'.version = 0 /\ snapshot' = snapshot
         \/ mark'.version = mark.version /\ mark'.step = "answered" /\ mark.step = "delete"
            /\ snapshot' = NoSnapshot
  <2>0. /\ mark \in Marks /\ mark.version <= version /\ version \in Nat /\ 0 \in 0 .. MaxVersions
        /\ mark.step \in {"idle", "update"} => mark.version = 0
    BY <1>1, SnapshotFacts DEF SnapshotShape
  <2>1. CASE ReadTags
    BY <2>0, <2>1 DEF ReadTags, Marks
  <2>2. CASE DeleteSnapshot
    BY <2>0, <2>2 DEF DeleteSnapshot, Marks
  <2>3. CASE MarkFails
    BY <2>0, <2>3 DEF MarkFails, Marks
  <2> QED BY <2>1, <2>2, <2>3
<1>4. SnapshotShape'
  <2>1. NoSnapshot \in Snapshots
    BY SnapshotConstants DEF NoSnapshot, Snapshots
  <2> QED BY <1>1, <1>2, <1>3, <2>1 DEF SnapshotShape
<1>5. AgesBound'
  BY <1>1, <1>2, <1>3 DEF AgesBound, Late
<1>6. MarkIsKnown'
  <2>1. CASE mark'.version = 0 /\ snapshot' = snapshot
    <3>1. snapshot.version >= 0 /\ \A l \in Loads : loads[l].version >= 0
      BY <1>1, SnapshotFacts
    <3> QED BY <1>2, <2>1, <3>1 DEF MarkIsKnown
  <2>2. CASE mark'.version # 0 \/ snapshot' # snapshot
    BY <1>1, <1>2, <1>3, <2>2 DEF MarkIsKnown
  <2> QED BY <2>1, <2>2
<1> QED BY <1>4, <1>5, <1>6 DEF SnapshotInv

LEMMA SnapshotInvNext == ASSUME SnapshotInv, [SnapshotNext]_snapshotVars PROVE SnapshotInv'
<1>1. CASE SnapshotNext
  BY <1>1, TicksKeep, ChangesKeep, AddTagKeeps, LoadsKeep, PutsKeep, MarksKeep DEF SnapshotNext
<1>2. CASE UNCHANGED snapshotVars
  BY <1>2 DEF snapshotVars, SnapshotInv, SnapshotShape, AgesBound, MarkIsKnown, Late
<1> QED BY <1>1, <1>2

LEMMA SnapshotStays == SnapshotSpec => []SnapshotInv
<1> QED BY SnapshotInvInit, SnapshotInvNext, PTL DEF SnapshotSpec

(* What the snapshot and the loads of it hold, the versions in order and   *)
(* the snapshot's life within twenty minutes (candidates.js:98-113).       *)
THEOREM SnapshotTyped == SnapshotSpec => []SnapshotTypeOK
<1>1. SnapshotInv => SnapshotTypeOK
  BY SnapshotFacts DEF SnapshotInv, SnapshotShape, SnapshotTypeOK
<1> QED BY <1>1, SnapshotStays, PTL

(* For any number of loads, any life and any time a load takes: what is    *)
(* shown was true within the life and that time, and a mark that was       *)
(* answered is known to the snapshot or has removed it, unless a load had  *)
(* the older answer in hand (candidates.js:587-590).                       *)
THEOREM ShownIsInTime == SnapshotSpec => []ShownInTime
<1>1. SnapshotInv => ShownInTime
  BY SnapshotFacts DEF SnapshotInv, AgesBound, MarkIsKnown, ShownInTime
<1> QED BY <1>1, SnapshotStays, PTL

-----------------------------------------------------------------------------
(***************************************************************************)
(* The two systems.  While nobody hurries, all that is under way is the    *)
(* last edit: a system that does not have it is about to be told, by the   *)
(* one hook there is, and a cache that does not have it has a hook left    *)
(* that will put it there.                                                 *)
(***************************************************************************)

StepsOf(from) == IF from = "rf" THEN {"sent", "patch", "put", "flag", "cache"}
                                ELSE {"sent", "update", "flag", "cache"}
HookShapes == [id : 1 .. MaxInFlight, from : {"rf", "dialpad"}, content : Contents, whole : BOOLEAN,
               step : {"sent", "patch", "put", "flag", "cache", "update"}, age : 0 .. MaxDelay]
HookRecords == {h \in HookShapes : h.step \in StepsOf(h.from)}

HooksOK(H) ==
    /\ H \subseteq HookRecords /\ IsFiniteSet(H)
    /\ \A g, h \in H : g.id = h.id => g = h

SyncShape ==
    /\ rf \in Contents /\ dp \in Contents \cup {NoContact} /\ kv \in Contents \cup {NoContact}
    /\ complete \in BOOLEAN /\ hurried \in BOOLEAN /\ flag \in 0 .. TTL /\ edits \in 0 .. MaxEdits
    /\ HooksOK(hooks)

ToldBy(H, h) == H = {h} /\ h.from = "rf" /\ (h.step = "patch" \/ (h.step = "sent" /\ h.whole))
HeardBy(H, h) == H = {h} /\ h.from = "dialpad" /\ h.step \in {"sent", "update"}

RFLearns == rf # edits => dp = edits /\ flag = 0 /\ \E h \in hooks : HeardBy(hooks, h)
DialpadLearns == complete => dp \in {edits, NoContact} \/ \E h \in hooks : ToldBy(hooks, h)
CacheLearns == kv # edits => rf # edits \/ \E h \in hooks : h.from = "rf" \/ h.step # "sent"

QuietInv ==
    ~hurried =>
      /\ edits = 0 => hooks = {} /\ dp = NoContact
      /\ \A h \in hooks : h.content = edits
      /\ edits > 0 => RFLearns /\ DialpadLearns /\ CacheLearns

SyncInv == SyncShape /\ QuietInv

-----------------------------------------------------------------------------
\* The set of hooks

LEMMA SyncNats == /\ TTL \in Nat /\ MaxDelay \in Nat /\ MaxEdits \in Nat /\ MaxFaults \in Nat /\ MaxInFlight \in Nat
  BY SyncConstants

LEMMA StepChanges ==
  ASSUME NEW h \in HookRecords, NEW s \in StepsOf(h.from)
  PROVE  LET new == [h EXCEPT !.step = s]
         IN  /\ new \in HookRecords /\ new.id = h.id /\ new.from = h.from /\ new.content = h.content
             /\ new.whole = h.whole /\ new.step = s
  BY DEF HookRecords, HookShapes, StepsOf

LEMMA DoneIsOK ==
  ASSUME NEW H, HooksOK(H), NEW h PROVE HooksOK(H \ {h})
  BY FS_RemoveElement DEF HooksOK

LEMMA ToIsOK ==
  ASSUME HooksOK(hooks), NEW h \in hooks, NEW s \in StepsOf(h.from)
  PROVE  HooksOK(To(h, s))
<1> DEFINE new == [h EXCEPT !.step = s]
<1>1. h \in HookRecords
  BY DEF HooksOK
<1>2. new \in HookRecords /\ new.id = h.id
  BY <1>1, StepChanges
<1>3. To(h, s) = (hooks \ {h}) \cup {new}
  BY DEF To
<1> HIDE DEF new
<1>4. IsFiniteSet((hooks \ {h}) \cup {new})
  BY FS_RemoveElement, FS_AddElement DEF HooksOK
<1> QED BY <1>1, <1>2, <1>3, <1>4 DEF HooksOK

(* A free number is left when there is room.                               *)
LEMMA NumberIsFree ==
  ASSUME HooksOK(hooks), Room
  PROVE  /\ Min(1 .. MaxInFlight \ {h.id : h \in hooks}) \in 1 .. MaxInFlight
         /\ \A h \in hooks : h.id # Min(1 .. MaxInFlight \ {g.id : g \in hooks})
<1> DEFINE free == 1 .. MaxInFlight \ {h.id : h \in hooks}
           f == [i \in 1 .. MaxInFlight |-> CHOOSE h \in hooks : h.id = i]
<1>1. free # {}
  <2> SUFFICES ASSUME free = {} PROVE FALSE
    OBVIOUS
  <2>1. \A i \in 1 .. MaxInFlight : \E h \in hooks : h.id = i
    OBVIOUS
  <2>2. \A i \in 1 .. MaxInFlight : f[i] \in hooks /\ f[i].id = i
    BY <2>1
  <2>3. f \in [1 .. MaxInFlight -> hooks]
    BY <2>2
  <2>4. IsFiniteSet(1 .. MaxInFlight) /\ Cardinality(1 .. MaxInFlight) = MaxInFlight
    BY SyncNats, FS_Interval
  <2>5. IsFiniteSet(hooks) /\ Cardinality(hooks) < Cardinality(1 .. MaxInFlight)
    BY <2>4 DEF HooksOK, Room
  <2> DEFINE numbers == 1 .. MaxInFlight
  <2>6. /\ f \in [numbers -> hooks] /\ IsFiniteSet(numbers) /\ IsFiniteSet(hooks)
        /\ Cardinality(hooks) < Cardinality(numbers)
    BY <2>3, <2>4, <2>5
  <2> HIDE DEF f, numbers
  <2>7. \E x, y \in numbers : x # y /\ f[x] = f[y]
    BY <2>6, FS_PigeonHole
  <2> QED BY <2>2, <2>7 DEF numbers
<1>2. free \subseteq Nat
  BY SyncNats
<1>3. Min(free) \in free
  <2> HIDE DEF free
  <2>1. \E x \in free : \A y \in free : x =< y
    BY <1>1, <1>2, FirstExists
  <2> QED BY <2>1 DEF Min
<1> QED BY <1>3

LEMMA HookIsOK ==
  ASSUME HooksOK(hooks), Room, NEW G, HooksOK(G), \A g \in G : \E h \in hooks : g.id = h.id,
         NEW from \in {"rf", "dialpad"}, NEW content \in Contents, NEW whole \in BOOLEAN
  PROVE  /\ HooksOK(G \cup {Hook(from, content, whole)})
         /\ Hook(from, content, whole).from = from /\ Hook(from, content, whole).content = content
         /\ Hook(from, content, whole).whole = whole /\ Hook(from, content, whole).step = "sent"
<1> DEFINE new == Hook(from, content, whole)
           n == Min(1 .. MaxInFlight \ {h.id : h \in hooks})
<1>1. n \in 1 .. MaxInFlight /\ \A h \in hooks : h.id # n
  BY NumberIsFree
<1>2. new = [id |-> n, from |-> from, content |-> content, whole |-> whole, step |-> "sent", age |-> 0]
  BY DEF Hook
<1> HIDE DEF n
<1>3. new.id = n /\ new.from = from /\ new.content = content /\ new.whole = whole /\ new.step = "sent"
  BY <1>2
<1>4. new \in HookRecords
  BY <1>1, <1>2, SyncNats DEF HookRecords, HookShapes, StepsOf
<1> HIDE DEF new
<1>5. IsFiniteSet(G \cup {new})
  BY FS_AddElement DEF HooksOK
<1>6. HooksOK(G \cup {new})
  BY <1>1, <1>3, <1>4, <1>5 DEF HooksOK
<1> QED BY <1>3, <1>6 DEF new

LEMMA AgedIsOK ==
  ASSUME HooksOK(hooks), \A h \in hooks : h.age < MaxDelay
  PROVE  LET aged == {[h EXCEPT !.age = @ + 1] : h \in hooks}
         IN  /\ HooksOK(aged)
             /\ \A h \in hooks : [h EXCEPT !.age = @ + 1] \in aged
             /\ \A g \in aged : \E h \in hooks : g = [h EXCEPT !.age = @ + 1]
             /\ \A h \in hooks : LET g == [h EXCEPT !.age = @ + 1]
                                 IN  /\ g.from = h.from /\ g.content = h.content
                                     /\ g.whole = h.whole /\ g.step = h.step
<1> DEFINE Aged(h) == [h EXCEPT !.age = @ + 1]
           aged == {Aged(h) : h \in hooks}
           f == [h \in hooks |-> Aged(h)]
<1>1. ASSUME NEW h \in hooks
      PROVE  /\ Aged(h) \in HookRecords /\ Aged(h).id = h.id /\ Aged(h).from = h.from
             /\ Aged(h).content = h.content /\ Aged(h).whole = h.whole /\ Aged(h).step = h.step
  <2> DEFINE a == h.age + 1
  <2>1. h \in HookRecords /\ h \in HookShapes /\ h.step \in StepsOf(h.from)
    BY DEF HooksOK, HookRecords
  <2>2. a \in 0 .. MaxDelay /\ Aged(h) = [h EXCEPT !.age = a]
    BY <2>1, SyncNats DEF HookShapes
  <2> HIDE DEF a
  <2> QED BY <2>1, <2>2 DEF HookShapes, HookRecords
<1> HIDE DEF Aged
<1>2. f \in Surjection(hooks, aged)
  BY DEF Surjection
<1>3. IsFiniteSet(aged)
  <2> HIDE DEF f, aged
  <2> QED BY <1>2, FS_Surjection DEF HooksOK
<1>4. HooksOK(aged)
  <2>1. aged \subseteq HookRecords
    BY <1>1
  <2>2. \A g, h \in aged : g.id = h.id => g = h
    BY <1>1 DEF HooksOK
  <2> QED BY <1>3, <2>1, <2>2 DEF HooksOK
<1> QED BY <1>1, <1>4 DEF Aged

-----------------------------------------------------------------------------
\* The actions

LEMMA SyncInvInit == SyncInit => SyncInv
<1> SUFFICES ASSUME SyncInit PROVE SyncInv
  OBVIOUS
<1>1. /\ flag = 0 /\ rf = Nothing /\ dp = NoContact /\ kv = NoContact /\ complete = FALSE
      /\ hooks = {} /\ edits = 0 /\ hurried = FALSE
  BY DEF SyncInit
<1>2. HooksOK({})
  BY FS_EmptySet DEF HooksOK
<1>3. 0 \in 0 .. MaxEdits /\ 0 \in 0 .. TTL
  BY SyncNats
<1>4. SyncShape
  BY <1>1, <1>2, <1>3 DEF SyncShape, Nothing, Contents
<1>5. QuietInv
  BY <1>1 DEF QuietInv
<1> QED BY <1>4, <1>5 DEF SyncInv

LEMMA EditsKeep ==
  ASSUME SyncInv, NEW content \in Contents,
         EditDialpad(content) \/ \E whole \in BOOLEAN : EditRF(content, whole)
  PROVE  SyncInv'
<1>1. SyncShape /\ QuietInv /\ HooksOK(hooks)
  BY DEF SyncInv, SyncShape
<1>2. /\ edits < MaxEdits /\ Room /\ content \in {Nothing, edits + 1} /\ edits' = edits + 1
      /\ hurried' = (hurried \/ ~Settled \/ content = Nothing)
      /\ flag' = flag /\ kv' = kv
  BY DEF EditDialpad, EditRF, Edit
<1>3. /\ edits \in Nat /\ edits' \in 0 .. MaxEdits /\ edits' # edits /\ edits' > 0 /\ NoContact # edits'
  BY <1>1, <1>2, SyncNats DEF SyncShape, NoContact
<1>4. hurried' \in BOOLEAN
  BY <1>2
<1>5. ~hurried' => ~hurried /\ hooks = {} /\ flag = 0 /\ content = edits'
  <2>1. ~hurried' => ~hurried /\ Settled /\ content # Nothing
    BY <1>2, Zenon
  <2>2. Settled => hooks = {} /\ flag = 0
    BY <1>1, SyncNats DEF Settled, Debounced, SyncShape
  <2> QED BY <1>2, <2>1, <2>2
<1>6. \A g \in hooks : \E h \in hooks : g.id = h.id
  OBVIOUS
<1>7. ASSUME NEW whole \in BOOLEAN, EditRF(content, whole) PROVE SyncInv'
  <2> DEFINE w == complete \/ whole
             new == Hook("rf", content, w)
  <2>1. /\ rf' = content /\ complete' = w /\ hooks' = hooks \cup {new} /\ dp' = dp
    BY <1>7 DEF EditRF
  <2>2. w \in BOOLEAN
    BY <1>1 DEF SyncShape
  <2> HIDE DEF w
  <2>3. HooksOK(hooks') /\ new.from = "rf" /\ new.content = content /\ new.whole = w /\ new.step = "sent"
    BY <1>1, <1>2, <1>6, <2>1, <2>2, HookIsOK
  <2> HIDE DEF new
  <2>4. SyncShape'
    BY <1>1, <1>2, <1>3, <1>4, <2>1, <2>2, <2>3 DEF SyncShape
  <2>5. QuietInv'
    <3> SUFFICES ASSUME ~hurried' PROVE QuietInv'
      BY DEF QuietInv
    <3>1. hooks' = {new} /\ rf' = edits' /\ new.content = edits'
      BY <1>5, <2>1, <2>3
    <3>2. w => ToldBy(hooks', new)
      BY <2>3, <3>1 DEF ToldBy
    <3>3. RFLearns' /\ CacheLearns'
      BY <2>3, <3>1 DEF RFLearns, CacheLearns
    <3>4. DialpadLearns'
      BY <2>1, <3>1, <3>2 DEF DialpadLearns
    <3> QED BY <1>3, <3>1, <3>3, <3>4 DEF QuietInv
  <2> QED BY <2>4, <2>5 DEF SyncInv
<1>8. CASE EditDialpad(content)
  <2> DEFINE new == Hook("dialpad", content, TRUE)
  <2>1. /\ dp # NoContact /\ dp' = content /\ hooks' = hooks \cup {new} /\ rf' = rf /\ complete' = complete
    BY <1>8 DEF EditDialpad
  <2>2. HooksOK(hooks') /\ new.from = "dialpad" /\ new.content = content /\ new.step = "sent"
    BY <1>1, <1>2, <1>6, <2>1, HookIsOK
  <2> HIDE DEF new
  <2>3. SyncShape'
    BY <1>1, <1>2, <1>3, <1>4, <2>1, <2>2 DEF SyncShape
  <2>4. QuietInv'
    <3> SUFFICES ASSUME ~hurried' PROVE QuietInv'
      BY DEF QuietInv
    <3>1. hooks' = {new} /\ dp' = edits' /\ new.content = edits' /\ flag' = 0
      BY <1>2, <1>5, <2>1, <2>2
    <3>2. HeardBy(hooks', new)
      BY <2>2, <3>1 DEF HeardBy
    <3>3. rf = edits
      BY <1>1, <1>3, <1>5, <2>1 DEF QuietInv, RFLearns
    <3>4. RFLearns' /\ DialpadLearns' /\ CacheLearns'
      BY <1>3, <2>1, <2>2, <3>1, <3>2, <3>3 DEF RFLearns, DialpadLearns, CacheLearns
    <3> QED BY <1>3, <3>1, <3>4 DEF QuietInv
  <2> QED BY <2>3, <2>4 DEF SyncInv
<1> QED BY <1>7, <1>8

LEMMA TickKeeps == ASSUME SyncInv, Tick PROVE SyncInv'
<1> DEFINE Aged(h) == [h EXCEPT !.age = @ + 1]
<1>1. SyncShape /\ QuietInv /\ HooksOK(hooks)
  BY DEF SyncInv, SyncShape
<1>2. /\ \A h \in hooks : h.age < MaxDelay
      /\ flag' = Max({0, flag - 1}) /\ hooks' = {Aged(h) : h \in hooks}
      /\ UNCHANGED <<rf, dp, complete, kv, edits, faults, hurried>>
  BY DEF Tick
<1>3. flag' \in 0 .. TTL /\ (flag = 0 => flag' = 0)
  <2>1. flag \in 0 .. TTL
    BY <1>1 DEF SyncShape
  <2>2. \E x \in {0, flag - 1} : \A y \in {0, flag - 1} : x >= y
    BY <2>1, SyncNats
  <2>3. flag' \in {0, flag - 1} /\ flag' >= 0
    BY <1>2, <2>2 DEF Max
  <2> QED BY <2>1, <2>3, SyncNats
<1>4. /\ HooksOK(hooks')
      /\ \A h \in hooks : Aged(h) \in hooks'
      /\ \A g \in hooks' : \E h \in hooks : g = Aged(h)
      /\ \A h \in hooks : /\ Aged(h).from = h.from /\ Aged(h).content = h.content
                          /\ Aged(h).whole = h.whole /\ Aged(h).step = h.step
  BY <1>1, <1>2, AgedIsOK
<1> HIDE DEF Aged
<1>5. SyncShape'
  BY <1>1, <1>2, <1>3, <1>4 DEF SyncShape
<1>6. QuietInv'
  <2> SUFFICES ASSUME ~hurried PROVE QuietInv'
    BY <1>2 DEF QuietInv
  <2>1. \A h \in hooks : ToldBy(hooks, h) => ToldBy(hooks', Aged(h))
    BY <1>2, <1>4 DEF ToldBy
  <2>2. \A h \in hooks : HeardBy(hooks, h) => HeardBy(hooks', Aged(h))
    BY <1>2, <1>4 DEF HeardBy
  <2>3. edits = 0 => hooks' = {} /\ dp' = NoContact
    BY <1>1, <1>2 DEF QuietInv
  <2>4. \A h \in hooks' : h.content = edits'
    BY <1>1, <1>2, <1>4 DEF QuietInv
  <2>5. RFLearns => RFLearns'
    BY <1>2, <1>3, <1>4, <2>2 DEF RFLearns
  <2>6. DialpadLearns => DialpadLearns'
    BY <1>2, <1>4, <2>1 DEF DialpadLearns
  <2>7. CacheLearns => CacheLearns'
    BY <1>2, <1>4 DEF CacheLearns
  <2> QED BY <1>1, <1>2, <2>3, <2>4, <2>5, <2>6, <2>7 DEF QuietInv
<1> QED BY <1>5, <1>6 DEF SyncInv

(* A handler that only goes on to its next step.                           *)
LEMMA StepKeeps ==
  ASSUME SyncInv, NEW h \in hooks, NEW s \in StepsOf(h.from), hooks' = To(h, s),
         s # "sent", h.step = "sent" => (h.from = "rf" /\ (s = "patch" <=> h.whole)) \/ s = "update",
         h.step # "sent" => h.from = "rf" /\ s = "put" /\ dp = NoContact,
         UNCHANGED <<rf, dp, complete, flag, kv, edits, faults, hurried>>
  PROVE  SyncInv'
<1> DEFINE new == [h EXCEPT !.step = s]
<1>1. SyncShape /\ QuietInv /\ HooksOK(hooks)
  BY DEF SyncInv, SyncShape
<1>2. h \in HookRecords
  BY <1>1 DEF HooksOK
<1>3. /\ new.id = h.id /\ new.from = h.from /\ new.content = h.content
      /\ new.whole = h.whole /\ new.step = s
  BY <1>2, StepChanges
<1>4. hooks' = (hooks \ {h}) \cup {new}
  BY DEF To
<1> HIDE DEF new
<1>5. SyncShape'
  BY <1>1, ToIsOK DEF SyncShape
<1>6. QuietInv'
  <2> SUFFICES ASSUME ~hurried PROVE QuietInv'
    BY DEF QuietInv
  <2>1. edits # 0 /\ \A g \in hooks : g.content = edits
    BY <1>1 DEF QuietInv
  <2>2. edits > 0 /\ RFLearns /\ DialpadLearns /\ CacheLearns
    BY <1>1, <2>1, SyncNats DEF QuietInv, SyncShape
  <2>3. RFLearns'
    BY <1>3, <1>4, <2>2 DEF RFLearns, HeardBy
  <2>4. DialpadLearns'
    BY <1>3, <1>4, <2>2 DEF DialpadLearns, ToldBy, StepsOf
  <2>5. CacheLearns'
    BY <1>3, <1>4, <2>2 DEF CacheLearns
  <2> QED BY <1>3, <1>4, <2>1, <2>2, <2>3, <2>4, <2>5 DEF QuietInv
<1> QED BY <1>5, <1>6 DEF SyncInv

(* A handler that ends, or has told a system of the edit and has more to do. *)
LEMMA HandlersKeep == ASSUME SyncInv, NEW h \in hooks, Handles(h) PROVE SyncInv'
<1>1. SyncShape /\ QuietInv /\ HooksOK(hooks)
  BY DEF SyncInv, SyncShape
<1>2. h \in HookRecords /\ h.content \in Contents /\ h.step \in StepsOf(h.from) /\ h.from \in {"rf", "dialpad"}
      /\ h.whole \in BOOLEAN
  BY <1>1 DEF HooksOK, HookRecords, HookShapes
<1>3. ~hurried => /\ edits # 0 /\ edits > 0 /\ \A g \in hooks : g.content = edits
                  /\ RFLearns /\ DialpadLearns /\ CacheLearns
  BY <1>1, SyncNats DEF QuietInv, SyncShape
<1>4. NoContact # edits /\ edits \in 0 .. MaxEdits
  BY <1>1, SyncNats DEF NoContact, SyncShape
<1>5. CASE ValidateRF(h)
  <2> DEFINE s == IF h.whole THEN "patch" ELSE "cache"
  <2>1. /\ h.from = "rf" /\ h.step = "sent" /\ hooks' = To(h, s)
        /\ UNCHANGED <<rf, dp, complete, flag, kv, edits, faults, hurried>>
    BY <1>5 DEF ValidateRF
  <2>2. s \in StepsOf(h.from) /\ s # "sent" /\ (s = "patch" <=> h.whole)
    BY <1>2, <2>1 DEF StepsOf
  <2> HIDE DEF s
  <2> QED BY <2>1, <2>2, StepKeeps
<1>6. CASE PatchDialpad(h) /\ dp = NoContact
  <2>1. /\ h.step = "patch" /\ hooks' = To(h, "put")
        /\ UNCHANGED <<rf, dp, complete, flag, kv, edits, faults, hurried>>
    BY <1>6 DEF PatchDialpad
  <2>2. h.from = "rf" /\ "put" \in StepsOf(h.from)
    BY <1>2, <2>1 DEF StepsOf
  <2> QED BY <1>6, <2>1, <2>2, StepKeeps
<1>7. CASE CheckFlag(h) /\ ~Skipped(h)
  <2>1. /\ h.from = "dialpad" /\ h.step = "sent" /\ hooks' = To(h, "update")
        /\ UNCHANGED <<rf, dp, complete, flag, kv, edits, faults, hurried>>
    BY <1>7 DEF CheckFlag
  <2>2. "update" \in StepsOf(h.from)
    BY <2>1 DEF StepsOf
  <2> QED BY <2>1, <2>2, StepKeeps
\* What comes after a step that every system has learnt by.
<1>8. ASSUME SyncShape', edits' = edits, hurried' = hurried, complete' = complete,
             ~hurried => /\ \A g \in hooks' : g.content = edits
                         /\ rf' = edits /\ dp' \in {dp, edits} /\ \A g \in hooks : ~ToldBy(hooks, g) \/ dp' = edits
                         /\ kv' = edits \/ \E g \in hooks' : g.from = "rf" \/ g.step # "sent"
      PROVE  SyncInv'
  <2> SUFFICES ASSUME ~hurried PROVE QuietInv'
    BY <1>8 DEF SyncInv, QuietInv
  <2>1. RFLearns' /\ CacheLearns'
    BY <1>8 DEF RFLearns, CacheLearns
  <2>2. DialpadLearns'
    BY <1>3, <1>8 DEF DialpadLearns
  <2> QED BY <1>3, <1>8, <2>1, <2>2 DEF QuietInv
<1>9. ~hurried /\ h.step \notin {"sent", "update"} => rf = edits
  BY <1>3 DEF RFLearns, HeardBy
<1>10. ~hurried /\ h.step \notin {"sent", "patch"} => \A g \in hooks : ~ToldBy(hooks, g)
  BY DEF ToldBy
<1>11. ~hurried /\ h.from = "dialpad" => \A g \in hooks : ~ToldBy(hooks, g)
  BY DEF ToldBy
<1>12. CASE PatchDialpad(h) /\ dp # NoContact
  <2> DEFINE new == Hook("dialpad", dp', TRUE)
             next == [h EXCEPT !.step = "flag"]
  <2>1. /\ h.step = "patch" /\ Room /\ dp' = Patched(dp, h) /\ hooks' = To(h, "flag") \cup {new}
        /\ UNCHANGED <<rf, complete, flag, kv, edits, faults, hurried>>
    BY <1>12 DEF PatchDialpad
  <2>2. "flag" \in StepsOf(h.from)
    BY DEF StepsOf
  <2>3. dp' \in Contents /\ (~hurried => dp' = edits)
    BY <1>1, <1>2, <1>3, <1>12, <2>1 DEF Patched, Nothing, SyncShape
  <2>4. HooksOK(To(h, "flag")) /\ next.id = h.id /\ next.content = h.content /\ next.step = "flag"
    BY <1>1, <1>2, <2>2, ToIsOK, StepChanges
  <2>5. To(h, "flag") = (hooks \ {h}) \cup {next}
    BY DEF To
  <2>6. HooksOK(hooks') /\ new.content = dp'
    <3>1. \A g \in To(h, "flag") : \E k \in hooks : g.id = k.id
      BY <2>4, <2>5
    <3> DEFINE c == dp'
               G == To(h, "flag")
    <3>2. c \in Contents /\ HooksOK(G) /\ HooksOK(hooks) /\ Room /\ \A g \in G : \E k \in hooks : g.id = k.id
      BY <1>1, <2>1, <2>3, <2>4, <3>1
    <3> HIDE DEF c, G
    <3>3. HooksOK(G \cup {Hook("dialpad", c, TRUE)}) /\ Hook("dialpad", c, TRUE).content = c
      BY ONLY <3>2, HookIsOK
    <3> QED BY <2>1, <3>3 DEF c, G
  <2> HIDE DEF new, next
  <2>7. SyncShape'
    BY <1>1, <2>1, <2>3, <2>6 DEF SyncShape
  <2> QED BY <1>3, <1>8, <1>9, <2>1, <2>3, <2>4, <2>5, <2>6, <2>7
<1>13. CASE PutDialpad(h)
  <2> DEFINE next == [h EXCEPT !.step = "flag"]
  <2>1. /\ h.step = "put" /\ dp' = h.content /\ hooks' = To(h, "flag")
        /\ UNCHANGED <<rf, complete, flag, kv, edits, faults, hurried>>
    BY <1>13 DEF PutDialpad
  <2>2. "flag" \in StepsOf(h.from)
    BY DEF StepsOf
  <2>3. HooksOK(hooks') /\ next.content = h.content /\ next.step = "flag"
    BY <1>1, <1>2, <2>1, <2>2, ToIsOK, StepChanges
  <2>4. hooks' = (hooks \ {h}) \cup {next}
    BY <2>1 DEF To
  <2> HIDE DEF next
  <2>5. SyncShape'
    BY <1>1, <1>2, <2>1, <2>3 DEF SyncShape
  <2> QED BY <1>3, <1>8, <1>9, <2>1, <2>3, <2>4, <2>5
<1>14. CASE PutFlag(h)
  <2> DEFINE next == [h EXCEPT !.step = "cache"]
  <2>1. /\ h.step = "flag" /\ flag' = TTL /\ hooks' = To(h, "cache")
        /\ UNCHANGED <<rf, dp, complete, kv, edits, faults, hurried>>
    BY <1>14 DEF PutFlag
  <2>2. "cache" \in StepsOf(h.from) /\ TTL \in 0 .. TTL
    BY SyncNats DEF StepsOf
  <2>3. HooksOK(hooks') /\ next.content = h.content /\ next.step = "cache"
    BY <1>1, <1>2, <2>1, <2>2, ToIsOK, StepChanges
  <2>4. hooks' = (hooks \ {h}) \cup {next}
    BY <2>1 DEF To
  <2> HIDE DEF next
  <2>5. SyncShape'
    BY <1>1, <2>1, <2>2, <2>3 DEF SyncShape
  <2> QED BY <1>3, <1>8, <1>9, <1>10, <2>1, <2>3, <2>4, <2>5
<1>15. CASE CacheRF(h) \/ CacheDialpad(h)
  <2>1. /\ h.step = "cache" /\ hooks' = hooks \ {h}
        /\ kv' \in {h.content, rf} /\ UNCHANGED <<rf, dp, complete, flag, edits, faults, hurried>>
    BY <1>15 DEF CacheRF, CacheDialpad, Done
  <2>2. SyncShape'
    BY <1>1, <1>2, <2>1, DoneIsOK DEF SyncShape
  <2> QED BY <1>3, <1>8, <1>9, <1>10, <2>1, <2>2
<1>16. CASE UpdateRF(h)
  <2> DEFINE new == Hook("rf", h.content, complete)
             next == [h EXCEPT !.step = "flag"]
  <2>1. /\ h.step = "update" /\ Room /\ rf' = h.content /\ hooks' = To(h, "flag") \cup {new}
        /\ UNCHANGED <<dp, complete, flag, kv, edits, faults, hurried>>
    BY <1>16 DEF UpdateRF
  <2>2. "flag" \in StepsOf(h.from) /\ h.from = "dialpad"
    BY <1>2, <2>1 DEF StepsOf
  <2>3. HooksOK(To(h, "flag")) /\ next.id = h.id /\ next.content = h.content /\ next.step = "flag"
    BY <1>1, <1>2, <2>2, ToIsOK, StepChanges
  <2>4. To(h, "flag") = (hooks \ {h}) \cup {next}
    BY DEF To
  <2>5. \A g \in To(h, "flag") : \E k \in hooks : g.id = k.id
    BY <2>3, <2>4
  <2>6. complete \in BOOLEAN
    BY <1>1 DEF SyncShape
  <2>7. HooksOK(hooks') /\ new.content = h.content
    BY <1>1, <1>2, <2>1, <2>3, <2>5, <2>6, HookIsOK
  <2> HIDE DEF new, next
  <2>8. SyncShape'
    BY <1>1, <1>2, <2>1, <2>7 DEF SyncShape
  <2> QED BY <1>3, <1>8, <1>11, <2>1, <2>2, <2>3, <2>4, <2>7, <2>8
<1>17. CASE CheckFlag(h) /\ Skipped(h)
  <2>1. /\ h.from = "dialpad" /\ h.step = "sent" /\ hooks' = hooks \ {h}
        /\ UNCHANGED <<rf, dp, complete, flag, kv, edits, faults, hurried>>
    BY <1>17 DEF CheckFlag, Done
  <2>2. SyncShape'
    BY <1>1, <2>1, DoneIsOK DEF SyncShape
  <2>3. ~hurried => flag > 0
    BY <1>3, <1>17 DEF Skipped, Debounced, Nothing
  <2>4. ~hurried => rf = edits
    BY <1>3, <2>3 DEF RFLearns
  <2>5. ~hurried => kv' = edits \/ \E g \in hooks' : g.from = "rf" \/ g.step # "sent"
    BY <1>3, <2>1, <2>4 DEF CacheLearns
  <2> QED BY <1>3, <1>8, <1>11, <2>1, <2>2, <2>4, <2>5
<1> QED BY <1>5, <1>6, <1>7, <1>12, <1>13, <1>14, <1>15, <1>16, <1>17 DEF Handles

LEMMA FailsKeeps == ASSUME SyncInv, NEW h \in hooks, Fails(h) PROVE SyncInv'
<1> DEFINE again == [h EXCEPT !.step = "sent", !.age = 0]
<1>1. SyncShape /\ HooksOK(hooks)
  BY DEF SyncInv, SyncShape
<1>2. /\ hooks' \in {hooks \ {h}, (hooks \ {h}) \cup {again}}
      /\ hurried' = TRUE /\ UNCHANGED <<rf, dp, complete, flag, kv, edits>>
  BY DEF Fails, Done
<1>3. again \in HookRecords /\ again.id = h.id
  <2>1. h \in HookShapes /\ 0 \in 0 .. MaxDelay
    BY <1>1, SyncNats DEF HooksOK, HookRecords
  <2> QED BY <2>1 DEF HookRecords, HookShapes, StepsOf
<1> HIDE DEF again
<1>4. IsFiniteSet((hooks \ {h}) \cup {again})
  BY <1>1, FS_RemoveElement, FS_AddElement DEF HooksOK
<1>5. HooksOK((hooks \ {h}) \cup {again})
  BY <1>1, <1>3, <1>4 DEF HooksOK
<1>6. HooksOK(hooks')
  BY <1>1, <1>2, <1>5, DoneIsOK
<1> QED BY <1>1, <1>2, <1>6 DEF SyncInv, SyncShape, QuietInv

LEMMA SyncInvNext == ASSUME SyncInv, [SyncNext]_syncVars PROVE SyncInv'
<1>1. CASE SyncNext
  BY <1>1, EditsKeep, TickKeeps, HandlersKeep, FailsKeeps DEF SyncNext
<1>2. CASE UNCHANGED syncVars
  BY <1>2 DEF syncVars, SyncInv, SyncShape, QuietInv, RFLearns, DialpadLearns, CacheLearns
<1> QED BY <1>1, <1>2

LEMMA SyncStays == SyncSpec => []SyncInv
<1> QED BY SyncInvInit, SyncInvNext, PTL DEF SyncSpec

(* A hook in flight has a number of its own, whatever comes back to the    *)
(* worker of what it did itself.                                           *)
THEOREM SyncTyped == SyncSpec => []SyncTypeOK
<1>1. ASSUME SyncInv PROVE SyncTypeOK
  <2> DEFINE ids == {h.id : h \in hooks}
             f == [h \in hooks |-> h.id]
  <2>1. SyncShape /\ HooksOK(hooks)
    BY <1>1 DEF SyncInv, SyncShape
  <2>2. f \in Surjection(hooks, ids) /\ f \in Injection(hooks, ids)
    <3>1. f \in [hooks -> ids] /\ \A h \in hooks : f[h] = h.id
      OBVIOUS
    <3>2. \A i \in ids : \E h \in hooks : f[h] = i
      BY <3>1
    <3>3. \A g, h \in hooks : f[g] = f[h] => g = h
      BY <2>1, <3>1 DEF HooksOK
    <3> HIDE DEF f, ids
    <3> QED BY <3>1, <3>2, <3>3 DEF Surjection, Injection, IsInjective
  <2>3. Cardinality(ids) = Cardinality(hooks)
    <3> HIDE DEF f, ids
    <3> QED BY <2>1, <2>2, FS_Surjection DEF HooksOK
  <2>4. \A h \in hooks : h.content \in Contents /\ h.age <= MaxDelay
    BY <2>1, SyncNats DEF HooksOK, HookRecords, HookShapes
  <2> QED BY <2>1, <2>3, <2>4 DEF SyncShape, SyncTypeOK
<1> QED BY <1>1, SyncStays, PTL

(* However many edits are made, in either system and one at a time, and    *)
(* however the webhooks they cause are interleaved: when the last has been *)
(* handled both systems and the cache have the same                        *)
(* (docs/architecture.md, the two data flows).                             *)
THEOREM QuietEditsReach == SyncSpec => []QuietEditsConverge
<1>1. SyncInv => QuietEditsConverge
  BY DEF SyncInv, QuietInv, RFLearns, DialpadLearns, CacheLearns, QuietEditsConverge
<1> QED BY <1>1, SyncStays, PTL

-----------------------------------------------------------------------------
(***************************************************************************)
(* Stage moves.  What a handler has read of a job is what the job is,      *)
(* until the job is moved, and what it resolved of a link is what the link *)
(* is, until it is re-attributed; and of two choices that see the links    *)
(* alike, the one that asks for more agrees with the other where that one  *)
(* suits it too.                                                           *)
(***************************************************************************)

Stages == {"Sourced", "Replied", "CallBooked", "Interview"} \cup UNION {Offers(j) : j \in CandidateJobs}
Places == {<<>>} \cup [CandidateJobs -> Stages]
JobLists == {<<>>} \cup SetToSeqs(CandidateJobs)
Views == [CandidateJobs -> Attributions \cup {Unresolved}]
MoverRecords == [step : {"new", "gate", "read", "unsourced", "moved", "done"}, stage : Places,
                 open : SUBSET CandidateJobs, jobs : JobLists, latest : CandidateJobs \cup {NoJob},
                 gate : CandidateJobs \cup {NoJob}, seen : Views, since : SUBSET CandidateJobs,
                 attributed : SUBSET CandidateJobs]

\* The gate is what a choice gives by a view of the links that is right but for the
\* links that were re-attributed.
GateIsChosen(r, caller, now) ==
    \E who \in Views :
        /\ caller # NoConsultant => \A j \in SourcedIn(r) \ r.attributed : who[j] = now[j]
        /\ r.gate = SelectConsultantJob(r.jobs, who, caller, SourcedIn(r))

\* What m decides on.
MoverTrue(m, r, stages, now) ==
    /\ r.step \in {"gate", "read"} => \A j \in CandidateJobs \ r.since : r.stage[j] = stages[j]
    /\ r.step \in {"gate", "read"} => \A j \in CandidateJobs \ r.attributed : r.seen[j] \in {Unresolved, now[j]}
    /\ r.step = "read" /\ m \in AnsweredCalls => r.gate # NoJob /\ GateIsChosen(r, CallerOf(m), now)

ReadIsKept(m) == MoverTrue(m, movers[m], stage, assigned)

MovesInv ==
    /\ stage \in [CandidateJobs -> Stages] /\ assigned \in [CandidateJobs -> Attributions]
    /\ MovesTypeOK
    /\ movers \in [Movers -> MoverRecords]
    /\ \A m \in Movers : ReadIsKept(m)

LEMMA JobListDomain == ASSUME NEW jobs \in JobLists PROVE DOMAIN jobs \subseteq Nat
<1>1. Cardinality(CandidateJobs) \in Nat
  BY MoveConstants, FS_CardinalityType
<1> QED BY <1>1 DEF JobLists, SetToSeqs

LEMMA LeastIs == ASSUME NEW mine, mine \subseteq Nat, mine # {}
                 PROVE  Min(mine) \in mine /\ \A y \in mine : Min(mine) =< y
<1>1. \E x \in mine : \A y \in mine : x =< y
  BY FirstExists
<1> QED BY <1>1 DEF Min

LEMMA ChoiceSuits ==
  ASSUME NEW jobs \in JobLists, NEW who, NEW caller, NEW suiting
  PROVE  SelectConsultantJob(jobs, who, caller, suiting) \in suiting \cup {NoJob}
<1> DEFINE mine == {i \in DOMAIN jobs : jobs[i] \in suiting /\ who[jobs[i]] = caller}
<1>1. mine \subseteq Nat
  BY JobListDomain
<1>2. mine # {} => Min(mine) \in mine
  <2> HIDE DEF mine
  <2> QED BY <1>1, LeastIs
<1> QED BY <1>2 DEF SelectConsultantJob

(* A choice among fewer jobs is the choice that was made among all, where that *)
(* suits, unless one of the two is a job of which the links were seen unlike.  *)
LEMMA ChoicesAgree ==
  ASSUME NEW jobs \in JobLists, NEW who, NEW again, NEW caller, NEW all, NEW few, NEW unlike,
         few \subseteq all, NoJob \notin all,
         caller # NoConsultant => \A j \in few \ unlike : who[j] = again[j],
         SelectConsultantJob(jobs, who, caller, all) \in few,
         SelectConsultantJob(jobs, again, caller, few) # NoJob
  PROVE  \/ SelectConsultantJob(jobs, again, caller, few) = SelectConsultantJob(jobs, who, caller, all)
         \/ SelectConsultantJob(jobs, again, caller, few) \in unlike
         \/ SelectConsultantJob(jobs, who, caller, all) \in unlike
<1> DEFINE mine(w, s) == {i \in DOMAIN jobs : jobs[i] \in s /\ w[jobs[i]] = caller}
           first == SelectConsultantJob(jobs, who, caller, all)
           second == SelectConsultantJob(jobs, again, caller, few)
<1>1. /\ mine(who, all) # {} => Min(mine(who, all)) \in mine(who, all)
                              /\ \A y \in mine(who, all) : Min(mine(who, all)) =< y
      /\ mine(again, few) # {} => Min(mine(again, few)) \in mine(again, few)
                              /\ \A y \in mine(again, few) : Min(mine(again, few)) =< y
      /\ DOMAIN jobs \subseteq Nat
  <2>1. mine(who, all) \subseteq Nat /\ mine(again, few) \subseteq Nat
    BY JobListDomain
  <2> HIDE DEF mine
  <2> QED BY <2>1, LeastIs, JobListDomain
<1>2. CASE caller = NoConsultant
  BY <1>2 DEF SelectConsultantJob
<1>3. CASE caller # NoConsultant /\ mine(again, few) = {}
  <2>1. second = jobs[1] /\ jobs[1] \in few
    BY <1>3 DEF SelectConsultantJob
  <2>2. CASE mine(who, all) = {}
    BY <2>1, <2>2 DEF SelectConsultantJob
  <2>3. CASE mine(who, all) # {}
    <3> DEFINE i == Min(mine(who, all))
    <3>1. first = jobs[i]
      BY <1>3, <2>3 DEF SelectConsultantJob
    <3>2. i \in DOMAIN jobs /\ who[jobs[i]] = caller
      BY <1>1, <2>3
    <3> HIDE DEF i
    <3>3. jobs[i] \in few /\ again[jobs[i]] # caller
      BY <1>3, <3>1, <3>2
    <3> QED BY <1>3, <3>1, <3>2, <3>3
  <2> QED BY <2>2, <2>3
<1>4. CASE caller # NoConsultant /\ mine(again, few) # {}
  <2> DEFINE k == Min(mine(again, few))
  <2>1. second = jobs[k]
    BY <1>4 DEF SelectConsultantJob
  <2>2. k \in DOMAIN jobs /\ jobs[k] \in few /\ again[jobs[k]] = caller /\ \A y \in mine(again, few) : k =< y
    BY <1>1, <1>4
  <2> HIDE DEF k
  <2>3. SUFFICES ASSUME jobs[k] \notin unlike, first \notin unlike PROVE jobs[k] = first
    BY <2>1
  <2>4. k \in mine(who, all)
    BY <1>4, <2>2, <2>3
  <2> DEFINE i == Min(mine(who, all))
  <2>5. first = jobs[i] /\ i \in DOMAIN jobs /\ who[jobs[i]] = caller /\ i =< k
    BY <1>1, <1>4, <2>4 DEF SelectConsultantJob
  <2> HIDE DEF i
  <2>6. i \in mine(again, few)
    BY <1>4, <2>3, <2>5
  <2>7. k =< i
    BY <2>2, <2>6
  <2> QED BY <1>1, <2>2, <2>5, <2>7
<1> QED BY <1>2, <1>3, <1>4

LEMMA FirstViews == NoneSeen \in Views /\ \A j \in CandidateJobs : NoneSeen[j] = Unresolved
BY DEF NoneSeen, Views

LEMMA NotReadIsRecord == NotRead \in MoverRecords /\ NotRead.step = "new"
BY FirstViews DEF NotRead, MoverRecords, Places, JobLists

LEMMA MovesInvInit == MovesInit => MovesInv
<1> SUFFICES ASSUME MovesInit PROVE MovesInv
  OBVIOUS
<1>1. movers \in [Movers -> MoverRecords] /\ \A m \in Movers : movers[m].step = "new"
  BY NotReadIsRecord DEF MovesInit
<1>2. /\ stage \in [CandidateJobs -> Stages] /\ latest \in CandidateJobs
      /\ assigned \in [CandidateJobs -> Attributions]
      /\ openJobs \subseteq CandidateJobs /\ recruited \in 0 .. MaxMoves
  <2>1. {"Sourced", "Replied", "Interview"} \subseteq Stages
    BY DEF Stages
  <2>2. recruited = 0 /\ 0 \in 0 .. MaxMoves
    BY MoveConstants DEF MovesInit
  <2> QED BY <2>1, <2>2 DEF MovesInit
<1> QED BY <1>1, <1>2 DEF MovesInv, MovesTypeOK, ReadIsKept, MoverTrue

(* A job that moves is noted by every handler that has read it.            *)
LEMMA NotedKeeps ==
  ASSUME MovesInv, NEW j \in CandidateJobs, NEW m \in Movers
  PROVE  /\ Noted(movers, j)[m] \in MoverRecords
         /\ Noted(movers, j)[m].since = movers[m].since \cup {j}
         /\ Noted(movers, j)[m].step = movers[m].step
         /\ Noted(movers, j)[m].stage = movers[m].stage
         /\ Noted(movers, j)[m].open = movers[m].open
         /\ Noted(movers, j)[m].jobs = movers[m].jobs
         /\ Noted(movers, j)[m].gate = movers[m].gate
         /\ Noted(movers, j)[m].seen = movers[m].seen
         /\ Noted(movers, j)[m].attributed = movers[m].attributed
<1>1. movers[m] \in MoverRecords
  BY DEF MovesInv
<1>2. Noted(movers, j)[m] = [movers[m] EXCEPT !.since = @ \cup {j}]
  BY DEF Noted
<1> DEFINE r == movers[m]
           more == r.since \cup {j}
           new == [r EXCEPT !.since = more]
<1>3. r \in MoverRecords /\ more \in SUBSET CandidateJobs
  BY <1>1 DEF MoverRecords
<1> HIDE DEF r, more
<1>4. /\ new \in MoverRecords
      /\ new.step = r.step /\ new.stage = r.stage /\ new.open = r.open /\ new.jobs = r.jobs
      /\ new.gate = r.gate /\ new.seen = r.seen /\ new.attributed = r.attributed /\ new.since = more
  BY <1>3 DEF MoverRecords
<1> HIDE DEF new
<1>5. Noted(movers, j)[m] = new
  BY <1>2 DEF r, more, new
<1> QED BY <1>4, <1>5 DEF r, more

LEMMA GateOfSame ==
  ASSUME NEW a \in MoverRecords, NEW b \in MoverRecords, NEW caller, NEW now,
         a.stage = b.stage, a.open = b.open, a.jobs = b.jobs, a.gate = b.gate,
         a.attributed = b.attributed, GateIsChosen(a, caller, now)
  PROVE  GateIsChosen(b, caller, now)
BY DEF GateIsChosen, SourcedIn

LEMMA MovedKeeps ==
  ASSUME MovesInv, NEW j \in CandidateJobs, NEW s \in Stages, NEW m \in Movers, Moved(j, s),
         movers'[m] = Noted(movers, j)[m], UNCHANGED assigned
  PROVE  ReadIsKept(m)'
<1>1. /\ movers[m] \in MoverRecords /\ stage \in [CandidateJobs -> Stages] /\ ReadIsKept(m)
  BY DEF MovesInv
<1>2. GateIsChosen(movers[m], CallerOf(m), assigned) => GateIsChosen(movers'[m], CallerOf(m), assigned)
  BY <1>1, NotedKeeps, GateOfSame
<1>3. \A k \in CandidateJobs : k # j => stage'[k] = stage[k]
  BY <1>1 DEF Moved
<1>4. MoverTrue(m, movers'[m], stage', assigned)
  BY <1>1, <1>2, <1>3, NotedKeeps DEF ReadIsKept, MoverTrue
<1> QED BY <1>4 DEF ReadIsKept

LEMMA CountedInBounds ==
  ASSUME MovesInv, recruited < MaxMoves, recruited' = recruited + 1 PROVE recruited' \in 0 .. MaxMoves
BY MoveConstants DEF MovesInv, MovesTypeOK

LEMMA RecruitsKeeps == ASSUME MovesInv, NEW j \in CandidateJobs, NEW s \in Stages, Recruits(j, s) PROVE MovesInv'
<1>1. /\ recruited < MaxMoves /\ recruited' = recruited + 1 /\ Moved(j, s)
      /\ movers' = Noted(movers, j) /\ openJobs' = openJobs /\ assigned' = assigned
  BY DEF Recruits
<1>2. movers' \in [Movers -> MoverRecords]
  BY <1>1, NotedKeeps DEF Noted
<1>3. \A m \in Movers : ReadIsKept(m)'
  BY <1>1, MovedKeeps
<1>4. stage' \in [CandidateJobs -> Stages] /\ latest' = j
  BY <1>1 DEF MovesInv, Moved
<1>5. MovesTypeOK'
  <2>1. recruited' \in 0 .. MaxMoves
    BY <1>1, CountedInBounds
  <2>2. \A m \in Movers : movers'[m].step = movers[m].step
    BY <1>1, NotedKeeps
  <2> QED BY <1>1, <1>4, <2>1, <2>2 DEF MovesInv, MovesTypeOK
<1> QED BY <1>1, <1>2, <1>3, <1>4, <1>5 DEF MovesInv

(* A link that is re-attributed is noted by every handler too.             *)
LEMMA AttributedKeeps ==
  ASSUME MovesInv, NEW j \in CandidateJobs, NEW c \in Attributions, Reattributes(j, c) PROVE MovesInv'
<1>1. /\ recruited < MaxMoves /\ recruited' = recruited + 1
      /\ assigned' = [assigned EXCEPT ![j] = c]
      /\ movers' = [m \in Movers |-> [movers[m] EXCEPT !.attributed = @ \cup {j}]]
      /\ UNCHANGED <<stage, openJobs, latest>>
  BY DEF Reattributes
<1>2. assigned' \in [CandidateJobs -> Attributions] /\ \A k \in CandidateJobs : k # j => assigned'[k] = assigned[k]
  BY <1>1 DEF MovesInv
<1>3. ASSUME NEW m \in Movers
      PROVE  movers'[m] \in MoverRecords /\ movers'[m].step = movers[m].step /\ ReadIsKept(m)'
  <2> DEFINE r == movers[m]
             more == r.attributed \cup {j}
             new == [r EXCEPT !.attributed = more]
  <2>1. r \in MoverRecords /\ more \in SUBSET CandidateJobs /\ MoverTrue(m, r, stage, assigned)
    BY DEF MovesInv, MoverRecords, ReadIsKept
  <2>2. movers'[m] = new
    BY <1>1
  <2>3. r.attributed \subseteq more /\ j \in more
    OBVIOUS
  <2> HIDE DEF r, more
  <2>4. /\ new \in MoverRecords
        /\ new.step = r.step /\ new.stage = r.stage /\ new.open = r.open /\ new.jobs = r.jobs
        /\ new.gate = r.gate /\ new.seen = r.seen /\ new.since = r.since /\ new.attributed = more
    BY <2>1 DEF MoverRecords
  <2> HIDE DEF new
  <2>5. GateIsChosen(r, CallerOf(m), assigned) => GateIsChosen(new, CallerOf(m), assigned')
    <3>1. SourcedIn(new) = SourcedIn(r) /\ SourcedIn(r) \subseteq CandidateJobs
      BY <2>1, <2>4 DEF SourcedIn, MoverRecords
    <3> QED BY <1>2, <2>3, <2>4, <3>1 DEF GateIsChosen
  <2>6. MoverTrue(m, new, stage', assigned')
    BY <1>1, <1>2, <2>1, <2>3, <2>4, <2>5 DEF MoverTrue
  <2> QED BY <2>2, <2>4, <2>6 DEF ReadIsKept, r
<1>4. movers' \in [Movers -> MoverRecords]
  BY <1>1, <1>3
<1>5. MovesTypeOK'
  BY <1>1, <1>3, CountedInBounds DEF MovesInv, MovesTypeOK
<1> QED BY <1>1, <1>2, <1>3, <1>4, <1>5 DEF MovesInv

(* A handler's own step that moves nothing.                                *)
LEMMA MoverKeeps ==
  ASSUME MovesInv, NEW m \in Movers, NEW new \in MoverRecords, movers' = [movers EXCEPT ![m] = new],
         UNCHANGED <<stage, openJobs, latest, assigned, recruited>>, MoverTrue(m, new, stage, assigned)
  PROVE  MovesInv'
<1>1. /\ movers' \in [Movers -> MoverRecords]
      /\ \A k \in Movers : movers'[k] = IF k = m THEN new ELSE movers[k]
  BY DEF MovesInv
<1>2. \A k \in Movers : ReadIsKept(k)'
  BY <1>1 DEF MovesInv, ReadIsKept
<1>3. MovesTypeOK'
  BY <1>1 DEF MovesInv, MovesTypeOK, MoverRecords
<1> QED BY <1>1, <1>2, <1>3 DEF MovesInv

LEMMA EndsAreRecords ==
  ASSUME NEW s \in {"unsourced", "moved", "done"}
  PROVE  /\ [NotRead EXCEPT !.step = s] \in MoverRecords /\ [NotRead EXCEPT !.step = s].step = s
         /\ \A m, stages, now : MoverTrue(m, [NotRead EXCEPT !.step = s], stages, now)
<1> DEFINE end == [NotRead EXCEPT !.step = s]
<1>1. end \in MoverRecords /\ end.step = s
  <2> HIDE DEF NotRead
  <2> QED BY NotReadIsRecord DEF MoverRecords
<1> HIDE DEF end
<1>2. \A m, stages, now : MoverTrue(m, end, stages, now)
  BY <1>1 DEF MoverTrue
<1> QED BY <1>1, <1>2 DEF end

(* A handler's step that moves a job.                                      *)
LEMMA MovesToKeeps ==
  ASSUME MovesInv, NEW m \in Movers, NEW j \in CandidateJobs \cup {NoJob}, NEW s \in Stages, MovesTo(m, j, s),
         UNCHANGED <<openJobs, assigned, recruited>>
  PROVE  MovesInv'
<1>1. CASE j = NoJob
  BY <1>1, MoverKeeps, EndsAreRecords DEF MovesTo
<1>2. CASE j # NoJob
  <2> DEFINE new == [NotRead EXCEPT !.step = "moved"]
  <2>1. Moved(j, s) /\ movers' = [Noted(movers, j) EXCEPT ![m] = new] /\ j \in CandidateJobs
    BY <1>2 DEF MovesTo
  <2>2. new \in MoverRecords /\ new.step = "moved" /\ MoverTrue(m, new, stage', assigned')
    BY EndsAreRecords
  <2> HIDE DEF new
  <2>3. /\ movers' \in [Movers -> MoverRecords]
        /\ \A k \in Movers : movers'[k] = IF k = m THEN new ELSE Noted(movers, j)[k]
    BY <2>1, <2>2, NotedKeeps DEF Noted
  <2>4. \A k \in Movers : ReadIsKept(k)'
    <3>1. \A k \in Movers \ {m} : ReadIsKept(k)'
      BY <2>1, <2>3, MovedKeeps
    <3>2. ReadIsKept(m)'
      BY <2>2, <2>3 DEF ReadIsKept
    <3> QED BY <3>1, <3>2
  <2>5. stage' \in [CandidateJobs -> Stages] /\ latest' = j
    BY <2>1 DEF MovesInv, Moved
  <2>6. MovesTypeOK'
    BY <2>1, <2>3, <2>5 DEF MovesInv, MovesTypeOK, MoverRecords
  <2> QED BY <2>3, <2>4, <2>5, <2>6 DEF MovesInv
<1> QED BY <1>1, <1>2

LEMMA ReadsKeep ==
  ASSUME MovesInv, NEW m \in Movers, NEW order \in SetToSeqs(CandidateJobs), ReadsCandidate(m, order)
  PROVE  MovesInv'
<1> DEFINE new == Read(m, order)
<1>1. /\ movers' = [movers EXCEPT ![m] = new] /\ UNCHANGED <<stage, openJobs, latest, assigned, recruited>>
  BY DEF ReadsCandidate
<1>2. /\ new \in MoverRecords /\ new.stage = stage /\ new.seen = NoneSeen
      /\ new.step = IF m \in AnsweredCalls THEN "gate" ELSE "read"
  BY NotReadIsRecord DEF Read, NotRead, MoverRecords, Places, JobLists, MovesInv, MovesTypeOK
<1> HIDE DEF new
<1>3. MoverTrue(m, new, stage, assigned)
  BY <1>2, FirstViews DEF MoverTrue
<1> QED BY <1>1, <1>2, <1>3, MoverKeeps

LEMMA ResolvesKeeps ==
  ASSUME MovesInv, NEW m \in Movers, NEW j \in CandidateJobs, ResolvesConsultant(m, j) PROVE MovesInv'
<1> DEFINE r == movers[m]
           view == [r.seen EXCEPT ![j] = assigned[j]]
           new == [r EXCEPT !.seen = view]
<1>1. UNCHANGED <<stage, openJobs, latest, assigned, recruited>>
  BY DEF ResolvesConsultant
<1>2. r \in MoverRecords /\ assigned \in [CandidateJobs -> Attributions] /\ MoverTrue(m, r, stage, assigned)
  BY DEF MovesInv, ReadIsKept
<1>3. movers' = [movers EXCEPT ![m] = new]
  <2>1. movers' = [movers EXCEPT ![m].seen[j] = assigned[j]]
    BY DEF ResolvesConsultant
  <2> QED BY <2>1
<1>4. view \in Views /\ \A k \in CandidateJobs : view[k] \in {r.seen[k], assigned[k]}
  BY <1>2 DEF MoverRecords, Views
<1> HIDE DEF r, view
<1>5. /\ new \in MoverRecords /\ new.seen = view
      /\ new.step = r.step /\ new.stage = r.stage /\ new.open = r.open /\ new.jobs = r.jobs
      /\ new.gate = r.gate /\ new.since = r.since /\ new.attributed = r.attributed
  BY <1>2, <1>4 DEF MoverRecords
<1> HIDE DEF new
<1>6. GateIsChosen(r, CallerOf(m), assigned) => GateIsChosen(new, CallerOf(m), assigned)
  BY <1>2, <1>5, GateOfSame
<1>7. MoverTrue(m, new, stage, assigned)
  BY <1>2, <1>4, <1>5, <1>6 DEF MoverTrue
<1> QED BY <1>1, <1>3, <1>5, <1>7, MoverKeeps

(* What a call has resolved is right but for the links re-attributed since. *)
LEMMA SeenIsTrue ==
  ASSUME MovesInv, NEW m \in Movers, Chooses(m), movers[m].step \in {"gate", "read"}
  PROVE  /\ movers[m].seen \in Views
         /\ CallerOf(m) # NoConsultant =>
              \A j \in Suiting(m) \ movers[m].attributed : movers[m].seen[j] = assigned[j]
<1>1. movers[m] \in MoverRecords /\ ReadIsKept(m)
  BY DEF MovesInv
<1>2. Suiting(m) \subseteq CandidateJobs
  BY <1>1 DEF Suiting, SourcedIn, Movable, MoverRecords
<1> QED BY <1>1, <1>2 DEF ReadIsKept, MoverTrue, Chooses, MoverRecords

LEMMA PassesKeeps == ASSUME MovesInv, NEW m \in Movers, PassesGate(m) PROVE MovesInv'
<1> DEFINE r == movers[m]
           job == SelectSourcedJob(r, CallerOf(m))
           new == [r EXCEPT !.step = "read", !.gate = job, !.seen = NoneSeen]
<1>1. r.step = "gate" /\ Chooses(m) /\ UNCHANGED <<stage, openJobs, latest, assigned, recruited>>
  BY DEF PassesGate
<1>2. r \in MoverRecords /\ MoverTrue(m, r, stage, assigned)
  BY DEF MovesInv, ReadIsKept
<1>3. SourcedIn(r) \subseteq CandidateJobs
  BY <1>2 DEF SourcedIn, MoverRecords
<1>4. job \in CandidateJobs \cup {NoJob}
  BY <1>2, <1>3, ChoiceSuits DEF SelectSourcedJob, MoverRecords
<1>5. CASE job = NoJob
  <2>1. movers' = [movers EXCEPT ![m] = [NotRead EXCEPT !.step = "unsourced"]]
    BY <1>5 DEF PassesGate
  <2> QED BY <1>1, <2>1, MoverKeeps, EndsAreRecords
<1>6. CASE job # NoJob
  <2>1. movers' = [movers EXCEPT ![m] = new]
    BY <1>6 DEF PassesGate
  <2>2. /\ r.seen \in Views
        /\ CallerOf(m) # NoConsultant => \A j \in SourcedIn(r) \ r.attributed : r.seen[j] = assigned[j]
    BY <1>1, SeenIsTrue DEF Suiting
  <2>3. job = SelectConsultantJob(r.jobs, r.seen, CallerOf(m), SourcedIn(r))
    BY DEF SelectSourcedJob
  <2> HIDE DEF r, job
  <2>4. /\ new \in MoverRecords /\ new.step = "read" /\ new.gate = job /\ new.seen = NoneSeen
        /\ new.stage = r.stage /\ new.open = r.open /\ new.jobs = r.jobs
        /\ new.since = r.since /\ new.attributed = r.attributed
    BY <1>2, <1>4, FirstViews DEF MoverRecords
  <2> HIDE DEF new
  <2>5. SourcedIn(new) = SourcedIn(r)
    BY <2>4 DEF SourcedIn
  <2>6. GateIsChosen(new, CallerOf(m), assigned)
    BY <2>2, <2>3, <2>4, <2>5 DEF GateIsChosen
  <2>7. MoverTrue(m, new, stage, assigned)
    BY <1>1, <1>2, <1>6, <2>4, <2>6, FirstViews DEF MoverTrue, r
  <2> QED BY <1>1, <2>1, <2>4, <2>7, MoverKeeps
<1> QED BY <1>5, <1>6

LEMMA MovableAre ==
  ASSUME NEW r \in MoverRecords
  PROVE  /\ Movable(r) \subseteq SourcedIn(r) /\ SourcedIn(r) \subseteq CandidateJobs
         /\ NoJob \notin SourcedIn(r) /\ r.jobs \in JobLists
BY MoveConstants DEF Movable, SourcedIn, MoverRecords

LEMMA MovesInvNext == ASSUME MovesInv, [MovesNext]_moveVars PROVE MovesInv'
<1>1. ASSUME NEW j \in CandidateJobs, Closes(j) PROVE MovesInv'
  <2>1. /\ recruited < MaxMoves /\ recruited' = recruited + 1 /\ openJobs' = openJobs \ {j}
        /\ UNCHANGED <<stage, latest, assigned, movers>>
    BY <1>1 DEF Closes
  <2>2. recruited' \in 0 .. MaxMoves
    BY <2>1, CountedInBounds
  <2>3. \A m \in Movers : ReadIsKept(m)'
    BY <2>1 DEF MovesInv, ReadIsKept
  <2> QED BY <2>1, <2>2, <2>3 DEF MovesInv, MovesTypeOK
<1>2. ASSUME NEW j \in CandidateJobs, NEW s \in Offers(j), Recruits(j, s) PROVE MovesInv'
  BY <1>2, RecruitsKeeps DEF Stages
<1>3. ASSUME NEW m \in Movers, MoveJobsToStage(m) PROVE MovesInv'
  <2>1. FindJobForStageMove(movers[m], CallerOf(m)) \in CandidateJobs \cup {NoJob}
    <3>1. movers[m] \in MoverRecords
      BY DEF MovesInv
    <3> QED BY <3>1, MovableAre, ChoiceSuits DEF FindJobForStageMove
  <2>2. "Replied" \in Stages
    BY DEF Stages
  <2> QED BY <1>3, <2>1, <2>2, MovesToKeeps DEF MoveJobsToStage
<1>4. ASSUME NEW m \in Movers, MoveToCallBooked(m) PROVE MovesInv'
  <2>1. FindEligibleJob(movers[m]) \in CandidateJobs \cup {NoJob}
    BY DEF FindEligibleJob, MovesInv, MoverRecords
  <2>2. "CallBooked" \in Stages
    BY DEF Stages
  <2> QED BY <1>4, <2>1, <2>2, MovesToKeeps DEF MoveToCallBooked
<1>5. ASSUME NEW m \in Movers, MovesNothing(m) PROVE MovesInv'
  <2>1. /\ movers' = [movers EXCEPT ![m] = [NotRead EXCEPT !.step = "done"]]
        /\ UNCHANGED <<stage, openJobs, latest, assigned, recruited>>
    BY <1>5 DEF MovesNothing
  <2> QED BY <2>1, MoverKeeps, EndsAreRecords
<1>6. CASE UNCHANGED moveVars
  BY <1>6 DEF moveVars, MovesInv, MovesTypeOK, ReadIsKept
<1> QED BY <1>1, <1>2, <1>3, <1>4, <1>5, <1>6, AttributedKeeps, ReadsKeep, ResolvesKeeps, PassesKeeps DEF MovesNext

(* What a step moves, it moves up from what was read.                      *)
LEMMA MovesAreUp == ASSUME MovesInv, [MovesNext]_moveVars PROVE [MovesUp]_moveVars
<1> SUFFICES ASSUME NEW m \in Movers, movers[m].step = "read", movers'[m].step = "moved"
             PROVE  /\ \A j \in CandidateJobs :
                         latest' = j /\ Level(stage'[j]) <= Level(stage[j]) => j \in movers[m].since
                    /\ m \in AnsweredCalls /\ "Replied" \in Offers(movers[m].gate) =>
                         \/ latest' = movers[m].gate
                         \/ {latest', movers[m].gate} \cap movers[m].attributed # {}
  BY Zenon DEF MovesUp
<1>1. /\ movers[m] \in MoverRecords /\ stage \in [CandidateJobs -> Stages] /\ ReadIsKept(m)
      /\ movers \in [Movers -> MoverRecords]
  BY DEF MovesInv
<1> DEFINE few == Movable(movers[m])
           gate == movers[m].gate
<1>2. /\ few \subseteq SourcedIn(movers[m]) /\ SourcedIn(movers[m]) \subseteq CandidateJobs
      /\ NoJob \notin few /\ NoJob \notin SourcedIn(movers[m]) /\ movers[m].jobs \in JobLists
  BY <1>1, MovableAre
<1>3. ASSUME NEW j, NEW s, MovesTo(m, j, s) PROVE j # NoJob /\ latest' = j /\ stage' = [stage EXCEPT ![j] = s]
  <2>1. j # NoJob
    <3>1. [NotRead EXCEPT !.step = "done"].step = "done"
      BY EndsAreRecords
    <3> QED BY <1>1, <1>3, <3>1 DEF MovesTo
  <2> QED BY <1>3, <2>1 DEF MovesTo, Moved
<1>4. CASE MoveJobsToStage(m)
  <2> DEFINE j == FindJobForStageMove(movers[m], CallerOf(m))
  <2>1. m \in AnsweredCalls /\ MovesTo(m, j, "Replied") /\ Chooses(m)
    BY <1>4 DEF MoveJobsToStage
  <2>2. j # NoJob /\ latest' = j /\ stage' = [stage EXCEPT ![j] = "Replied"]
    BY <1>3, <2>1
  <2>3. j \in few
    <3>1. j = SelectConsultantJob(movers[m].jobs, movers[m].seen, CallerOf(m), few)
      BY DEF FindJobForStageMove
    <3> HIDE DEF j, few
    <3> QED BY <1>2, <2>2, <3>1, ChoiceSuits
  <2>4. j \in CandidateJobs /\ movers[m].stage[j] = "Sourced"
    BY <1>2, <2>3 DEF SourcedIn
  <2>5. stage'[j] = "Replied"
    BY <1>1, <2>2, <2>4
  <2>6. ASSUME j \notin movers[m].since PROVE ~(Level(stage'[j]) <= Level(stage[j]))
    <3>1. stage[j] = "Sourced"
      BY <1>1, <2>4, <2>6 DEF ReadIsKept, MoverTrue
    <3> QED BY <2>5, <3>1 DEF Level
  <2>7. ASSUME "Replied" \in Offers(gate) PROVE j = gate \/ {j, gate} \cap movers[m].attributed # {}
    <3> DEFINE again == movers[m].seen
               unlike == movers[m].attributed
    <3>1. PICK who \in Views :
            /\ CallerOf(m) # NoConsultant => \A k \in SourcedIn(movers[m]) \ unlike : who[k] = assigned[k]
            /\ gate = SelectConsultantJob(movers[m].jobs, who, CallerOf(m), SourcedIn(movers[m]))
      BY <1>1, <2>1 DEF ReadIsKept, MoverTrue, GateIsChosen
    <3>2. gate \in few
      <4>1. gate # NoJob
        BY <1>1, <2>1 DEF ReadIsKept, MoverTrue
      <4>2. gate \in SourcedIn(movers[m])
        BY <1>2, <3>1, <4>1, ChoiceSuits
      <4> QED BY <2>7, <4>2 DEF Movable
    <3>3. CallerOf(m) # NoConsultant => \A k \in few \ unlike : who[k] = again[k]
      <4>1. CallerOf(m) # NoConsultant => \A k \in few \ unlike : again[k] = assigned[k]
        BY <2>1, SeenIsTrue DEF Suiting
      <4> QED BY <1>2, <3>1, <4>1
    <3>4. j = SelectConsultantJob(movers[m].jobs, again, CallerOf(m), few)
      BY DEF FindJobForStageMove
    <3> HIDE DEF j, gate, few, again, unlike
    <3>5. \/ j = gate \/ j \in unlike \/ gate \in unlike
      BY <1>2, <2>2, <3>1, <3>2, <3>3, <3>4, ChoicesAgree
    <3> QED BY <3>5 DEF unlike
  <2> QED BY <2>2, <2>6, <2>7
<1>5. CASE MoveToCallBooked(m)
  <2> DEFINE j == FindEligibleJob(movers[m])
  <2>1. m \in CallBookings /\ MovesTo(m, j, "CallBooked")
    BY <1>5 DEF MoveToCallBooked
  <2>2. j # NoJob /\ latest' = j /\ stage' = [stage EXCEPT ![j] = "CallBooked"]
    BY <1>3, <2>1
  <2>3. movers[m].stage[j] \in CallBookedEligible
    BY <2>2 DEF FindEligibleJob
  <2>4. ASSUME j \in CandidateJobs, j \notin movers[m].since PROVE ~(Level(stage'[j]) <= Level(stage[j]))
    <3>1. stage[j] \in CallBookedEligible /\ stage'[j] = "CallBooked"
      BY <1>1, <2>2, <2>3, <2>4 DEF ReadIsKept, MoverTrue
    <3>2. Level("CallBooked") = 2
      BY DEF Level
    <3>3. \A s \in CallBookedEligible : Level(s) \in {0, 1}
      BY DEF Level, CallBookedEligible
    <3>4. Level(stage'[j]) = 2
      BY <3>1, <3>2
    <3>5. Level(stage[j]) \in {0, 1}
      BY <3>1, <3>3
    <3>6. \A a, b : a = 2 /\ b \in {0, 1} => ~(a <= b)
      OBVIOUS
    <3> QED BY <3>4, <3>5, <3>6
  <2>5. m \notin AnsweredCalls
    BY <2>1, MoveConstants
  <2> QED BY <2>2, <2>4, <2>5
<1>6. CASE ~MoveJobsToStage(m) /\ ~MoveToCallBooked(m)
  <2>1. ASSUME NEW k \in Movers \ {m}, NEW j, NEW s, MovesTo(k, j, s) PROVE FALSE
    <3>1. CASE j = NoJob
      BY <1>1, <2>1, <3>1 DEF MovesTo
    <3>2. CASE j # NoJob
      <4>1. movers'[m] = [movers[m] EXCEPT !.since = @ \cup {j}]
        BY <2>1, <3>2 DEF MovesTo, Noted
      <4> QED BY <1>1, <4>1 DEF MoverRecords
    <3> QED BY <3>1, <3>2
  <2>2. ASSUME NEW j, NEW s, Recruits(j, s) PROVE FALSE
    <3>1. movers'[m] = [movers[m] EXCEPT !.since = @ \cup {j}]
      BY <2>2 DEF Recruits, Noted
    <3> QED BY <1>1, <3>1 DEF MoverRecords
  <2>3. ASSUME NEW k \in Movers, MovesNothing(k) PROVE FALSE
    <3>1. [NotRead EXCEPT !.step = "done"].step = "done"
      BY EndsAreRecords
    <3> QED BY <1>1, <2>3, <3>1 DEF MovesNothing
  <2>4. ASSUME NEW k \in Movers, NEW order, ReadsCandidate(k, order) PROVE FALSE
    <3>1. k # m
      BY <2>4 DEF ReadsCandidate
    <3> QED BY <1>1, <2>4, <3>1 DEF ReadsCandidate
  <2>7. ASSUME NEW k \in Movers, NEW j \in CandidateJobs, ResolvesConsultant(k, j) PROVE FALSE
    <3>1. movers'[m] = movers[m] \/ movers'[m] = [movers[m] EXCEPT !.seen[j] = assigned[j]]
      BY <1>1, <2>7 DEF ResolvesConsultant
    <3> QED BY <1>1, <3>1 DEF MoverRecords
  <2>8. ASSUME NEW k \in Movers, PassesGate(k) PROVE FALSE
    <3>1. k # m
      BY <2>8 DEF PassesGate
    <3> QED BY <1>1, <2>8, <3>1 DEF PassesGate
  <2>9. ASSUME NEW j, NEW c, Reattributes(j, c) PROVE FALSE
    <3>1. movers'[m] = [movers[m] EXCEPT !.attributed = @ \cup {j}]
      BY <2>9 DEF Reattributes
    <3> QED BY <1>1, <3>1 DEF MoverRecords
  <2>5. movers' # movers
    OBVIOUS
  <2>6. ~UNCHANGED moveVars /\ \A j : ~Closes(j)
    BY <2>5 DEF moveVars, Closes
  <2> QED BY <1>6, <2>1, <2>2, <2>3, <2>4, <2>6, <2>7, <2>8, <2>9 DEF MovesNext, MoveJobsToStage, MoveToCallBooked
<1> QED BY <1>4, <1>5, <1>6

LEMMA MovesStay == MovesSpec => []MovesInv
<1> QED BY MovesInvInit, MovesInvNext, PTL DEF MovesSpec

(* A handler is at one of its steps, and the jobs are the candidate's.     *)
THEOREM MovesTyped == MovesSpec => []MovesTypeOK
<1>1. MovesInv => MovesTypeOK
  BY DEF MovesInv
<1> QED BY <1>1, MovesStay, PTL

(* For any number of jobs, calls and bookings and any lists and pipelines  *)
(* of theirs: no handler takes a job down that nobody has moved since it   *)
(* read the candidate, and a call moves the job it passed the gate for,    *)
(* unless one of the two was re-attributed after it had read the candidate *)
(* (rf-client.js:1217-1242 and :1344-1398, cold-call.js:318 and :434).     *)
THEOREM StagesMoveUp == MovesSpec => StageMovesHold
<1> QED BY MovesStay, MovesAreUp, PTL DEF MovesSpec, StageMovesHold

-----------------------------------------------------------------------------
(* Every part of a behaviour of MCRequests is a behaviour of that part.    *)

LEMMA PartsStep ==
  ASSUME [RequestsNext]_requestsVars
  PROVE  /\ [SyncNext]_syncVars /\ [ExtensionNext]_callVars /\ [LinksNext]_linkVars
         /\ [PrewarmNext]_prewarmVars /\ [SnapshotNext]_snapshotVars /\ [RateNext]_rateVars
         /\ [MovesNext]_moveVars /\ [SearchNext]_searchVars
         /\ part = "write" => [WritesNext]_writeVars
         /\ part = "names" => [NamesNext]_nameVars
         /\ UNCHANGED part
<1>1. CASE UNCHANGED requestsVars
  BY <1>1 DEF requestsVars, syncVars, callVars, linkVars, prewarmVars, snapshotVars, rateVars, moveVars,
     writeVars, nameVars, searchVars
<1>2. ASSUME NEW p, Others(p)
      PROVE  /\ p # "sync" => UNCHANGED syncVars
             /\ p # "call" => UNCHANGED callVars
             /\ p # "link" => UNCHANGED linkVars
             /\ p # "prewarm" => UNCHANGED prewarmVars
             /\ p # "snapshot" => UNCHANGED snapshotVars
             /\ p # "rate" => UNCHANGED rateVars
             /\ p # "moves" => UNCHANGED moveVars
             /\ p # "search" => UNCHANGED searchVars
  BY <1>2, Zenon DEF Others
<1>3. CASE Does("sync", SyncNext)
  BY <1>2, <1>3 DEF Does
<1>4. CASE Does("call", ExtensionNext)
  BY <1>2, <1>4 DEF Does
<1>5. CASE Does("link", LinksNext)
  BY <1>2, <1>5 DEF Does
<1>6. CASE Does("prewarm", PrewarmNext)
  BY <1>2, <1>6 DEF Does
<1>7. CASE Does("snapshot", SnapshotNext)
  BY <1>2, <1>7 DEF Does
<1>8. CASE Does("rate", RateNext /\ InTurn)
  BY <1>2, <1>8 DEF Does
<1>9. CASE Does("moves", MovesNext)
  BY <1>2, <1>9 DEF Does
<1>10. CASE Does("search", SearchNext)
  BY <1>2, <1>10 DEF Does
<1>11. CASE Does("write", WritesNext /\ UNCHANGED <<open, exact>>)
  BY <1>2, <1>11 DEF Does
<1>12. CASE Does("names", NamesNext)
  BY <1>2, <1>12 DEF Does
<1> QED BY <1>1, <1>3, <1>4, <1>5, <1>6, <1>7, <1>8, <1>9, <1>10, <1>11, <1>12, Zenon DEF RequestsNext

LEMMA PartsInit ==
  RequestsInit => /\ SyncInit /\ ExtensionInit /\ LinksInit /\ PrewarmInit /\ SnapshotInit
                  /\ RateInit /\ MovesInit /\ SearchInit
                  /\ part = "write" => WritesInit
                  /\ part = "names" => NamesInit
BY DEF RequestsInit

LEMMA PartsRun ==
  RequestsSpec => /\ SyncSpec /\ ExtensionSpec /\ LinksSpec /\ PrewarmSpec /\ SnapshotSpec
                  /\ RateSpec /\ MovesSpec /\ SearchSpec
BY PartsInit, PartsStep, PTL DEF RequestsSpec, SyncSpec, ExtensionSpec, LinksSpec, PrewarmSpec,
   SnapshotSpec, RateSpec, MovesSpec, SearchSpec

(* What is proved of the parts holds where they run together.              *)
THEOREM RequestsHold ==
  RequestsSpec => /\ [](QuietEditsConverge /\ CallRecordHolds /\ AttributionAgrees)
                  /\ [](NextWasWarmed /\ ShownInTime /\ RateHeld)
                  /\ StageMovesHold
BY PartsRun, QuietEditsReach, CallRecordIsRight, AttributionIsTrue, PrewarmWarmsNext,
   ShownIsInTime, RateIsLimited, StagesMoveUp, PTL

\* A write and the other names have their variables in common: each is right
\* while it is the part that runs.
NamedInv == (part = "write" => WritesInv) /\ (part = "names" => NamesInv)

LEMMA NamedStays == RequestsSpec => []NamedInv
<1>1. RequestsInit => NamedInv
  BY PartsInit, WritesInvInit, NamesInvInit DEF NamedInv
<1>2. ASSUME NamedInv, [RequestsNext]_requestsVars PROVE NamedInv'
  BY <1>2, PartsStep, WritesInvNext, NamesInvNext DEF NamedInv
<1> QED BY <1>1, <1>2, PTL DEF RequestsSpec

(* For any cache, scores and limits, whichever fetches fail: the assistant *)
(* writes to the candidate, and takes the job, that is meant, and shows    *)
(* what was asked for, up to the exceptions that the parts name.           *)
THEOREM AssistantHolds == RequestsSpec => []AssistantIsRight
<1>1. NamedInv /\ ShownIsAsked => AssistantIsRight
  BY WritesInvSays, NamesInvSays DEF NamedInv, AssistantIsRight
<1> QED BY <1>1, PartsRun, NamedStays, ShownAreAsked, PTL

(* The states of every part are well formed, for any of their constants.   *)
THEOREM RequestsTyped == RequestsSpec => []RequestTypesOK
<1>1. /\ SyncTypeOK /\ ExtensionTypeOK /\ LinksTypeOK /\ PrewarmTypeOK /\ SnapshotTypeOK
      /\ RateTypeOK /\ MovesTypeOK /\ SearchTypeOK /\ NamedInv
      => RequestTypesOK
  BY WritesInvSays, NamesInvSays DEF NamedInv, RequestTypesOK
<1> QED BY <1>1, PartsRun, NamedStays, SyncTyped, ExtensionTyped, LinksTyped, PrewarmTyped, SnapshotTyped,
           RateTyped, MovesTyped, SearchTyped, PTL
=============================================================================

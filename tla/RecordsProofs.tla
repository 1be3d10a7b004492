----------------------------- MODULE RecordsProofs -----------------------------
(***************************************************************************)
(* Proofs about what the workers write of a candidate: each part's         *)
(* property from an inductive invariant of its own, for every value of its *)
(* constants, then all of them for the specification that TLC checks.      *)
(***************************************************************************)
EXTENDS MCRecords, TLAPS, FiniteSetTheorems, FunctionTheorems, SequenceTheorems, WellFoundedInduction

LEMMA FirstExists ==
  ASSUME NEW S, S \subseteq Nat, S # {}
  PROVE  \E x \in S : \A y \in S : x <= y
<1>1. \E x \in S : \A y \in S : ~(<<y, x>> \in OpToRel(<, Nat))
  BY NatLessThanWellFounded, WFMin
<1>2. \A x, y \in Nat : x < y => <<x, y>> \in OpToRel(<, Nat)
  BY DEF OpToRel
<1>3. \A x, y \in S : x \in Nat /\ y \in Nat /\ (~(y < x) => x <= y)
  OBVIOUS
<1> QED BY <1>1, <1>2, <1>3

LEMMA MinIs ==
  ASSUME NEW S, S \subseteq Nat, S # {}
  PROVE  Min(S) \in S /\ \A y \in S : Min(S) <= y
BY FirstExists DEF Min

\* Those of I that come no later than i does, by their keys.
UpTo(I, key, i) == {j \in I : key[j] <= key[i]}

LEMMA Places ==
  ASSUME NEW I, IsFiniteSet(I), NEW key \in [I -> Nat], \A i, j \in I : key[i] = key[j] => i = j
  PROVE  /\ \A i \in I : Cardinality(UpTo(I, key, i)) \in 1 .. Cardinality(I)
         /\ \A i, j \in I : Cardinality(UpTo(I, key, i)) = Cardinality(UpTo(I, key, j)) => i = j
         /\ \A k \in 1 .. Cardinality(I) : \E i \in I : Cardinality(UpTo(I, key, i)) = k
<1>0. Cardinality(I) \in Nat
  BY FS_CardinalityType
<1>1. \A i \in I : /\ IsFiniteSet(UpTo(I, key, i)) /\ Cardinality(UpTo(I, key, i)) \in Nat
                   /\ Cardinality(UpTo(I, key, i)) <= Cardinality(I) /\ i \in UpTo(I, key, i)
  <2> SUFFICES ASSUME NEW i \in I
               PROVE  /\ IsFiniteSet(UpTo(I, key, i)) /\ Cardinality(UpTo(I, key, i)) \in Nat
                      /\ Cardinality(UpTo(I, key, i)) <= Cardinality(I) /\ i \in UpTo(I, key, i)
    OBVIOUS
  <2>1. UpTo(I, key, i) \in SUBSET I /\ i \in UpTo(I, key, i)
    BY DEF UpTo
  <2>2. IsFiniteSet(UpTo(I, key, i)) /\ Cardinality(UpTo(I, key, i)) <= Cardinality(I)
    BY <2>1, FS_Subset
  <2> QED BY <2>1, <2>2, FS_CardinalityType
<1>2. \A i \in I : Cardinality(UpTo(I, key, i)) \in 1 .. Cardinality(I)
  <2> SUFFICES ASSUME NEW i \in I PROVE Cardinality(UpTo(I, key, i)) \in 1 .. Cardinality(I)
    OBVIOUS
  <2>1. Cardinality(UpTo(I, key, i)) # 0
    BY <1>1, FS_EmptySet
  <2> QED BY <1>0, <1>1, <2>1
<1>3. ASSUME NEW i \in I, NEW j \in I, key[i] < key[j]
      PROVE  Cardinality(UpTo(I, key, i)) # Cardinality(UpTo(I, key, j))
  <2>1. UpTo(I, key, i) \in SUBSET UpTo(I, key, j) /\ j \notin UpTo(I, key, i)
    BY <1>3 DEF UpTo
  <2> QED BY <1>1, <2>1, FS_Subset
<1>4. \A i, j \in I : Cardinality(UpTo(I, key, i)) = Cardinality(UpTo(I, key, j)) => i = j
  <2> SUFFICES ASSUME NEW i \in I, NEW j \in I, i # j,
                      Cardinality(UpTo(I, key, i)) = Cardinality(UpTo(I, key, j))
               PROVE  FALSE
    OBVIOUS
  <2>1. key[i] < key[j] \/ key[j] < key[i]
    OBVIOUS
  <2> QED BY <1>3, <2>1
<1> DEFINE f == [i \in I |-> Cardinality(UpTo(I, key, i))]
<1>5. f \in Injection(I, 1 .. Cardinality(I))
  BY <1>2, <1>4 DEF Injection, IsInjective
<1>6. IsFiniteSet(1 .. Cardinality(I)) /\ Cardinality(1 .. Cardinality(I)) = Cardinality(I)
  BY <1>0, FS_Interval
<1>7. f \in Surjection(I, 1 .. Cardinality(I))
  BY <1>5, <1>6, FS_Injection
<1>8. \A k \in 1 .. Cardinality(I) : \E i \in I : Cardinality(UpTo(I, key, i)) = k
  BY <1>7 DEF Surjection
<1> QED BY <1>2, <1>4, <1>8

-----------------------------------------------------------------------------
(* ContactConflict: whose phone or email it is. *)

ConflictSteps == {"idle", "update", "search", "get", "strip"} \cup Outcomes
ConflictCalls ==
    [step : ConflictSteps, target : Holders \cup {Nobody}, wants : SUBSET Values, pass : 0 .. Passes,
     field : {"none"} \cup Fields(Values), todo : SUBSET Values, freed : BOOLEAN,
     owner : Holders \cup {Nobody}, value : Values \cup {Nobody}, read : SUBSET Values]

\* What a call knows is what it needs at its step.
CallShape(c) ==
    /\ c.step = "idle" => c.wants = {}
    /\ c.step # "idle" => c.target \in Holders
    /\ c.todo \subseteq Of(c.wants, c.field)
    /\ c.step \in {"search", "get", "strip"} => c.pass < Passes
    /\ c.step \in {"get", "strip"} => c.owner \in Holders /\ c.value \in c.todo

Disjoint(h) == \A c, d \in Holders : c # d => h[c] \cap h[d] = {}
OneTarget ==
    \A k, l \in Callers :
        k # l /\ calls[k].step # "idle" /\ calls[l].step # "idle" => calls[k].target # calls[l].target

ConflictShape ==
    /\ holds \in [Holders -> SUBSET Values] /\ Disjoint(holds)
    /\ calls \in [Callers -> ConflictCalls] /\ \A k \in Callers : CallShape(calls[k])
    /\ OneTarget
    /\ misses \in 0 .. MaxMisses /\ clobbered \in BOOLEAN

\* A call under way wants all that its target has of the fields it replaces.
WantsWhole(c, h) ==
    c.step \in {"update", "search", "get", "strip"} =>
        \A v \in h[c.target] : Field(v) \in Fields(c.wants) => v \in c.wants

ConflictInv ==
    /\ ConflictShape
    /\ clobbered \/ \A k \in Callers : WantsWhole(calls[k], holds)
    /\ LostOnlyInHandover

-----------------------------------------------------------------------------
LEMMA AtShape ==
  ASSUME NEW c \in ConflictCalls, c.target \in Holders, NEW s \in {"update", "ok", "unresolved", "error"}
  PROVE  /\ At(c, s) \in ConflictCalls /\ CallShape(At(c, s))
         /\ At(c, s).step = s /\ At(c, s).target = c.target /\ At(c, s).wants = c.wants
<1> DEFINE n == IF s = "update" THEN c.pass ELSE 0
           a == [Idle EXCEPT !.step = s, !.target = c.target, !.wants = c.wants, !.pass = n]
<1>1. At(c, s) = a
  BY DEF At
<1>2. c.target \in Holders /\ c.wants \in SUBSET Values /\ n \in 0 .. Passes
  BY ConflictConstants DEF CallShape, ConflictCalls
<1> HIDE DEF n
<1>3. a.step = s /\ a.target = c.target /\ a.wants = c.wants /\ a.todo = {}
  BY DEF Idle
<1>4. a \in ConflictCalls
  BY <1>2 DEF Idle, ConflictCalls, ConflictSteps, Outcomes
<1> HIDE DEF a
<1> QED BY <1>1, <1>2, <1>3, <1>4 DEF CallShape

LEMMA AfterShape ==
  ASSUME ConflictShape, NEW k \in Callers, calls[k].step \in {"search", "get", "strip"}, NEW v
  PROVE  /\ After(k, v) \in ConflictCalls /\ CallShape(After(k, v))
         /\ After(k, v).step = "search" /\ After(k, v).target = calls[k].target
         /\ After(k, v).wants = calls[k].wants
<1> DEFINE c == calls[k]
<1>1. c \in ConflictCalls /\ CallShape(c)
  BY DEF ConflictShape
<1>2. After(k, v) = [c EXCEPT !.step = "search", !.todo = @ \ {v}, !.owner = Nobody, !.value = Nobody, !.read = {}]
  BY DEF After
<1> HIDE DEF c
<1>3. c.todo \ {v} \subseteq Of(c.wants, c.field)
  BY <1>1 DEF CallShape
<1>4. After(k, v) \in ConflictCalls
  BY <1>1, <1>2 DEF ConflictCalls, ConflictSteps
<1>5. After(k, v).todo = c.todo \ {v} /\ After(k, v).step = "search" /\ After(k, v).target = c.target
      /\ After(k, v).wants = c.wants /\ After(k, v).field = c.field /\ After(k, v).pass = c.pass
  BY <1>1, <1>2 DEF ConflictCalls
<1> QED BY <1>1, <1>3, <1>4, <1>5 DEF CallShape, c

(* What a call does to itself, of which nobody is answered, changes nothing. *)
LEMMA CallMoves ==
  ASSUME ConflictInv, NEW k \in Callers, calls[k].step # "ok", NEW c \in ConflictCalls, CallShape(c),
         calls' = [calls EXCEPT ![k] = c], c.step \notin {"idle", "ok"},
         c.target = calls[k].target /\ c.wants = calls[k].wants /\ calls[k].step # "idle",
         c.step \in Outcomes \/ calls[k].step \in {"update", "search", "get", "strip"},
         holds' = holds, clobbered' = clobbered, misses' \in 0 .. MaxMisses
  PROVE  ConflictInv'
<1>1. ConflictShape'
  <2>1. calls' \in [Callers -> ConflictCalls] /\ \A l \in Callers : CallShape(calls'[l])
    BY DEF ConflictInv, ConflictShape
  <2>2. OneTarget'
    BY DEF ConflictInv, ConflictShape, OneTarget
  <2> QED BY <2>1, <2>2 DEF ConflictInv, ConflictShape, Disjoint
<1>2. clobbered' \/ \A l \in Callers : WantsWhole(calls'[l], holds')
  BY DEF ConflictInv, ConflictShape, WantsWhole, Outcomes
<1>3. LostOnlyInHandover'
  BY DEF ConflictInv, ConflictShape, LostOnlyInHandover, Orphan
<1> QED BY <1>1, <1>2, <1>3 DEF ConflictInv

LEMMA BeginKeeps ==
  ASSUME ConflictInv, NEW k \in Callers, NEW c \in Holders, NEW new \in SUBSET Values \ {{}}, Begin(k, c, new)
  PROVE  ConflictInv'
<1> DEFINE b == [calls[k] EXCEPT !.step = "update", !.target = c,
                    !.wants = new \cup {v \in holds[c] : Field(v) \in Fields(new)}]
<1>1. calls' = [calls EXCEPT ![k] = b]
  BY DEF Begin
<1>2. b \in ConflictCalls /\ CallShape(b) /\ b.step = "update" /\ b.target = c /\ WantsWhole(b, holds)
  <2>1. /\ calls[k] \in ConflictCalls /\ calls[k].step = "idle" /\ calls[k].wants = {} /\ holds[c] \in SUBSET Values
        /\ calls[k].todo = {}
    BY DEF Begin, ConflictInv, ConflictShape, CallShape, Of
  <2>2. new \cup {v \in holds[c] : Field(v) \in Fields(new)} \in SUBSET Values
    BY <2>1
  <2>3. Fields(b.wants) = Fields(new) /\ b.step = "update" /\ b.target = c
        /\ b.wants = new \cup {v \in holds[c] : Field(v) \in Fields(new)}
    BY <2>1 DEF ConflictCalls, Fields
  <2>4. b \in ConflictCalls
    BY <2>1, <2>2 DEF ConflictCalls, ConflictSteps
  <2>5. CallShape(b)
    BY <2>1, <2>3 DEF CallShape, ConflictCalls
  <2> QED BY <2>3, <2>4, <2>5 DEF WantsWhole
<1> HIDE DEF b
<1>3. ConflictShape'
  <2>1. calls' \in [Callers -> ConflictCalls] /\ \A l \in Callers : CallShape(calls'[l])
    BY <1>1, <1>2 DEF ConflictInv, ConflictShape
  <2>2. OneTarget'
    BY <1>1, <1>2 DEF Begin, ConflictInv, ConflictShape, OneTarget
  <2> QED BY <2>1, <2>2 DEF Begin, ConflictInv, ConflictShape, Disjoint
<1>4. clobbered' \/ \A l \in Callers : WantsWhole(calls'[l], holds')
  BY <1>1, <1>2 DEF Begin, ConflictInv, ConflictShape
<1>5. LostOnlyInHandover'
  BY <1>1, <1>2 DEF Begin, ConflictInv, ConflictShape, LostOnlyInHandover, Orphan, CallShape
<1> QED BY <1>3, <1>4, <1>5 DEF ConflictInv

LEMMA AcceptedKeeps == ASSUME ConflictInv, NEW k \in Callers, Accepted(k) PROVE ConflictInv'
<1> DEFINE c == calls[k]
           t == c.target
           a == At(c, "ok")
           h == c.wants \cup {v \in holds[t] : Field(v) \notin Fields(c.wants)}
<1>1. /\ c \in ConflictCalls /\ CallShape(c) /\ c.step = "update" /\ t \in Holders
      /\ holds \in [Holders -> SUBSET Values] /\ calls \in [Callers -> ConflictCalls]
  BY DEF Accepted, ConflictInv, ConflictShape, CallShape
<1>2. a \in ConflictCalls /\ CallShape(a) /\ a.step = "ok" /\ a.target = t /\ a.wants = c.wants
  BY <1>1, AtShape DEF CallShape
<1>3. /\ calls' = [calls EXCEPT ![k] = a] /\ holds' = [holds EXCEPT ![t] = h]
      /\ misses' = misses /\ clobbered' = clobbered
      /\ \A v \in c.wants : \A d \in Holders \ {t} : v \notin holds[d]
  BY DEF Accepted, Contested, HeldByOther
<1>4. clobbered \/ holds[t] \subseteq h
  BY <1>1 DEF ConflictInv, WantsWhole
<1>5. h \in SUBSET Values /\ c.wants \subseteq h /\ h \subseteq c.wants \cup holds[t]
  BY <1>1 DEF ConflictCalls
<1> HIDE DEF a, h, t, c
<1>6. ConflictShape'
  <2>1. calls' \in [Callers -> ConflictCalls] /\ \A l \in Callers : CallShape(calls'[l])
    BY <1>1, <1>2, <1>3 DEF ConflictInv, ConflictShape
  <2>2. OneTarget'
    BY <1>1, <1>2, <1>3 DEF ConflictInv, ConflictShape, OneTarget, c, t
  <2>3. holds' \in [Holders -> SUBSET Values] /\ Disjoint(holds')
    BY <1>1, <1>3, <1>5 DEF ConflictInv, ConflictShape, Disjoint
  <2> QED BY <1>3, <2>1, <2>2, <2>3 DEF ConflictInv, ConflictShape
<1>7. ASSUME ~clobbered PROVE \A l \in Callers : WantsWhole(calls'[l], holds')
  <2> TAKE l \in Callers
  <2>1. CASE l = k
    BY <1>1, <1>2, <1>3, <2>1 DEF WantsWhole
  <2>2. CASE l # k
    <3>1. calls'[l] = calls[l] /\ WantsWhole(calls[l], holds)
      BY <1>1, <1>3, <1>7, <2>2 DEF ConflictInv
    <3>2. calls[l].step # "idle" => calls[l].target # t /\ calls[l].target \in Holders
      BY <1>1, <2>2 DEF ConflictInv, ConflictShape, OneTarget, CallShape, c, t
    <3> QED BY <1>1, <1>3, <3>1, <3>2 DEF WantsWhole
  <2> QED BY <2>1, <2>2
<1>8. LostOnlyInHandover'
  <2> SUFFICES ASSUME ~clobbered, NEW v \in Values, Orphan(v)', NEW l \in Callers,
                      v \in calls'[l].wants, calls'[l].step = "ok"
               PROVE  \E m \in Callers : v \in calls'[m].wants /\ calls'[m].step # "ok"
    BY <1>3 DEF LostOnlyInHandover
  <2>1. v \notin c.wants /\ Orphan(v)
    BY <1>1, <1>3, <1>4, <1>5 DEF Orphan
  <2>2. l # k
    BY <1>1, <1>2, <1>3, <2>1
  <2>3. PICK m \in Callers : v \in calls[m].wants /\ calls[m].step # "ok"
    BY <1>1, <1>3, <2>1, <2>2 DEF ConflictInv, LostOnlyInHandover
  <2>4. m # k
    BY <2>1, <2>3 DEF c
  <2> QED BY <1>1, <1>3, <2>3, <2>4
<1> QED BY <1>3, <1>6, <1>7, <1>8 DEF ConflictInv

LEMMA StripKeeps == ASSUME ConflictInv, NEW k \in Callers, Strip(k) PROVE ConflictInv'
<1> DEFINE c == calls[k]
           o == c.owner
           a == After(k, c.value)
           b == [a EXCEPT !.freed = TRUE]
           kept == c.read \ {c.value}
           h == kept \cup {v \in holds[o] : Field(v) # c.field}
<1>1. /\ c \in ConflictCalls /\ CallShape(c) /\ c.step = "strip" /\ o \in Holders
      /\ c.value \in c.todo /\ c.value \in c.wants
      /\ holds \in [Holders -> SUBSET Values] /\ calls \in [Callers -> ConflictCalls]
  BY DEF Strip, ConflictInv, ConflictShape, CallShape, Of
<1>2. a \in ConflictCalls /\ CallShape(a) /\ a.step = "search" /\ a.target = c.target /\ a.wants = c.wants
  BY <1>1, AfterShape DEF ConflictInv
<1>3. CASE \E v \in kept : HeldByOther(v, o)
  <2>1. calls' = [calls EXCEPT ![k] = At(c, "error")] /\ UNCHANGED <<holds, misses, clobbered>>
    BY <1>3 DEF Strip
  <2> QED BY <1>1, <2>1, AtShape, CallMoves DEF CallShape, ConflictInv, ConflictShape, Outcomes
<1>4. CASE \A v \in kept : ~HeldByOther(v, o)
  <2>1. /\ calls' = [calls EXCEPT ![k] = b] /\ holds' = [holds EXCEPT ![o] = h] /\ misses' = misses
        /\ clobbered' = (clobbered \/ Of(holds[o], c.field) # c.read)
        /\ \A v \in kept : \A d \in Holders \ {o} : v \notin holds[d]
    BY <1>4 DEF Strip, HeldByOther
  <2> HIDE DEF a
  <2>2. b \in ConflictCalls /\ CallShape(b) /\ b.step = "search" /\ b.target = c.target /\ b.wants = c.wants
    BY <1>2 DEF ConflictCalls, CallShape
  <2>3. ~clobbered' => ~clobbered /\ h = holds[o] \ {c.value}
    BY <2>1, <1>1 DEF Of, CallShape, ConflictCalls
  <2>4. h \in SUBSET Values /\ h \subseteq kept \cup holds[o]
    BY <1>1 DEF ConflictCalls
  <2> HIDE DEF b, h, c, o, kept
  <2>5. ConflictShape'
    <3>1. calls' \in [Callers -> ConflictCalls] /\ \A l \in Callers : CallShape(calls'[l])
      BY <1>1, <2>1, <2>2 DEF ConflictInv, ConflictShape
    <3>2. OneTarget'
      BY <1>1, <2>1, <2>2 DEF ConflictInv, ConflictShape, OneTarget, c
    <3>3. holds' \in [Holders -> SUBSET Values] /\ Disjoint(holds')
      BY <1>1, <2>1, <2>4 DEF ConflictInv, ConflictShape, Disjoint
    <3>4. clobbered' \in BOOLEAN
      BY <2>1, Zenon
    <3> QED BY <2>1, <3>1, <3>2, <3>3, <3>4 DEF ConflictInv, ConflictShape
  <2>6. ASSUME ~clobbered' PROVE \A l \in Callers : WantsWhole(calls'[l], holds')
    <3>1. \A l \in Callers : calls[l].step # "idle" => calls[l].target \in Holders
      BY DEF ConflictInv, ConflictShape, CallShape
    <3>2. \A d \in Holders : holds'[d] \subseteq holds[d]
      BY <1>1, <2>1, <2>3, <2>6
    <3>3. \A l \in Callers : WantsWhole(calls[l], holds)
      BY <2>3, <2>6 DEF ConflictInv
    <3>4. \A l \in Callers : calls'[l].wants = calls[l].wants /\ calls'[l].target = calls[l].target
      BY <1>1, <2>1, <2>2 DEF c
    <3>5. \A l \in Callers : calls'[l].step = calls[l].step \/ l = k
      BY <1>1, <2>1
    <3> QED BY <1>1, <3>1, <3>2, <3>3, <3>4, <3>5 DEF WantsWhole, c
  <2>7. LostOnlyInHandover'
    <3> SUFFICES ASSUME ~clobbered', NEW v \in Values, Orphan(v)', NEW l \in Callers,
                        v \in calls'[l].wants, calls'[l].step = "ok"
                 PROVE  \E m \in Callers : v \in calls'[m].wants /\ calls'[m].step # "ok"
      BY DEF LostOnlyInHandover
    <3>1. calls'[l] = calls[l]
      BY <1>1, <2>1, <2>2
    <3>2. CASE Orphan(v)
      <4>1. PICK m \in Callers : v \in calls[m].wants /\ calls[m].step # "ok"
        BY <2>3, <3>1, <3>2 DEF ConflictInv, LostOnlyInHandover
      <4> QED BY <1>1, <2>1, <2>2, <4>1 DEF c
    <3>3. CASE ~Orphan(v)
      <4>1. v = c.value
        BY <1>1, <2>1, <2>3, <3>3 DEF Orphan
      <4>2. calls'[k] = b
        BY <1>1, <2>1
      <4> QED BY <1>1, <2>2, <4>1, <4>2
    <3> QED BY <3>2, <3>3
  <2> QED BY <2>5, <2>6, <2>7 DEF ConflictInv
<1> QED BY <1>3, <1>4

LEMMA ConflictKept == ConflictInv /\ [ConflictNext]_conflictVars => ConflictInv'
<1> SUFFICES ASSUME ConflictInv, [ConflictNext]_conflictVars PROVE ConflictInv'
  OBVIOUS
<1>0. ASSUME NEW k \in Callers
      PROVE  calls[k] \in ConflictCalls /\ CallShape(calls[k]) /\ misses \in 0 .. MaxMisses
  BY DEF ConflictInv, ConflictShape
<1>1. ASSUME NEW k \in Callers, Refused(k) PROVE ConflictInv'
  <2>1. CASE calls[k].pass = Passes /\ calls' = [calls EXCEPT ![k] = At(@, "unresolved")]
    <3>1. calls' = [calls EXCEPT ![k] = At(calls[k], "unresolved")] /\ calls[k].step = "update"
      BY <1>1, <2>1 DEF Refused
    <3> QED BY <1>0, <1>1, <3>1, AtShape, CallMoves DEF CallShape, Refused, Outcomes
  <2>2. ASSUME NEW field \in Fields(Contested(k)), calls[k].pass < Passes,
               calls' = [calls EXCEPT ![k].step = "search", ![k].field = field,
                                      ![k].todo = Of(calls[k].wants, field)]
        PROVE  ConflictInv'
    <3> DEFINE c == [calls[k] EXCEPT !.step = "search", !.field = field, !.todo = Of(calls[k].wants, field)]
    <3>1. calls' = [calls EXCEPT ![k] = c] /\ calls[k].step = "update"
      BY <1>1, <2>2 DEF Refused
    <3>2. c \in ConflictCalls /\ CallShape(c) /\ c.step = "search" /\ c.target = calls[k].target
          /\ c.wants = calls[k].wants
      BY <1>0, <1>1, <2>2 DEF Refused, Contested, ConflictCalls, ConflictSteps, CallShape, Of, Fields
    <3> HIDE DEF c
    <3> QED BY <1>0, <1>1, <3>1, <3>2, CallMoves DEF Refused
  <2> QED BY <1>1, <2>1, <2>2 DEF Refused
<1>2. ASSUME NEW k \in Callers, NEW v \in Values, Search(k, v) PROVE ConflictInv'
  <2>0. misses' \in 0 .. MaxMisses
    <3>1. misses' = misses \/ (misses < MaxMisses /\ misses' = misses + 1)
      BY <1>2, Zenon DEF Search
    <3> QED BY <1>0, <3>1, ConflictConstants
  <2>1. ASSUME NEW o \in Holders \ {calls[k].target},
               calls' = [calls EXCEPT ![k].step = "get", ![k].owner = o, ![k].value = v]
        PROVE  ConflictInv'
    <3> DEFINE c == [calls[k] EXCEPT !.step = "get", !.owner = o, !.value = v]
    <3>1. calls' = [calls EXCEPT ![k] = c] /\ calls[k].step = "search"
      BY <1>2, <2>1 DEF Search
    <3>2. c \in ConflictCalls /\ CallShape(c) /\ c.step = "get" /\ c.target = calls[k].target
          /\ c.wants = calls[k].wants
      BY <1>0, <1>2, <2>1 DEF Search, ConflictCalls, ConflictSteps, CallShape, Of
    <3> HIDE DEF c
    <3> QED BY <1>0, <1>2, <2>0, <3>1, <3>2, CallMoves DEF Search
  <2>2. CASE calls' = [calls EXCEPT ![k] = After(k, v)]
    <3> QED BY <1>0, <1>2, <2>0, <2>2, AfterShape, CallMoves DEF Search, ConflictInv
  <2> QED BY <1>2, <2>1, <2>2 DEF Search
<1>3. ASSUME NEW k \in Callers, GetOwner(k) PROVE ConflictInv'
  <2>1. CASE calls' = [calls EXCEPT ![k] = After(k, calls[k].value)]
    BY <1>0, <1>3, <2>1, AfterShape, CallMoves DEF GetOwner, ConflictInv
  <2>2. CASE calls' = [calls EXCEPT ![k] = [calls[k] EXCEPT !.step = "strip",
                                              !.read = Of(holds[calls[k].owner], calls[k].field)]]
    <3> DEFINE c == [calls[k] EXCEPT !.step = "strip", !.read = Of(holds[calls[k].owner], calls[k].field)]
    <3>1. calls' = [calls EXCEPT ![k] = c] /\ calls[k].step = "get"
      BY <1>3, <2>2 DEF GetOwner
    <3>2. holds[calls[k].owner] \in SUBSET Values
      BY <1>0, <3>1 DEF CallShape, ConflictInv, ConflictShape
    <3>3. c \in ConflictCalls /\ CallShape(c) /\ c.step = "strip" /\ c.target = calls[k].target
          /\ c.wants = calls[k].wants
      BY <1>0, <3>1, <3>2 DEF ConflictCalls, ConflictSteps, CallShape, Of
    <3> HIDE DEF c
    <3> QED BY <1>0, <1>3, <3>1, <3>3, CallMoves DEF GetOwner
  <2> QED BY <1>3, <2>1, <2>2 DEF GetOwner
<1>4. ASSUME NEW k \in Callers, Resolve(k) PROVE ConflictInv'
  <2> DEFINE c == calls[k]
             d == [c EXCEPT !.pass = @ + 1]
             r == At(d, IF d.freed THEN "update" ELSE "unresolved")
  <2>1. calls' = [calls EXCEPT ![k] = r] /\ c.step = "search"
    BY <1>4 DEF Resolve, Resolved
  <2>2. c \in ConflictCalls /\ CallShape(c)
    BY <1>0
  <2> HIDE DEF c
  <2>3. d \in ConflictCalls /\ d.step = "search" /\ d.target = c.target /\ d.wants = c.wants
        /\ c.target \in Holders
    BY <2>1, <2>2, ConflictConstants DEF ConflictCalls, CallShape
  <2> HIDE DEF d
  <2>4. r \in ConflictCalls /\ CallShape(r) /\ r.step \in {"update", "unresolved"} /\ r.target = c.target
        /\ r.wants = c.wants
    BY <2>3, AtShape
  <2> HIDE DEF r
  <2> QED BY <1>0, <1>4, <2>1, <2>4, CallMoves DEF Resolve, c
<1>5. ASSUME NEW k \in Callers, Errs(k) PROVE ConflictInv'
  <2>1. misses' \in 0 .. MaxMisses
    BY <1>0, <1>5, ConflictConstants DEF Errs
  <2> QED BY <1>0, <1>5, <2>1, AtShape, CallMoves DEF CallShape, Errs, Outcomes
<1>6. CASE UNCHANGED conflictVars
  BY <1>6 DEF conflictVars, ConflictInv, ConflictShape, Disjoint, OneTarget, LostOnlyInHandover, Orphan
<1> QED BY <1>1, <1>2, <1>3, <1>4, <1>5, <1>6, BeginKeeps, AcceptedKeeps, StripKeeps
        DEF ConflictNext, ConflictStep

(***************************************************************************)
(* updateRFCandidate: a phone or an email is on no record only while a     *)
(* call has still to give it away, or failed to, or a list was written     *)
(* over a record that had changed; for any number of calls and values.     *)
(***************************************************************************)
LEMMA ConflictStarts == ConflictInit => ConflictInv
<1> SUFFICES ASSUME ConflictInit PROVE ConflictInv
  OBVIOUS
<1>1. Idle \in ConflictCalls /\ CallShape(Idle) /\ Idle.step = "idle"
  BY ConflictConstants DEF Idle, ConflictCalls, ConflictSteps, CallShape, Of, Nobody
<1> HIDE DEF Idle
<1>2. calls \in [Callers -> ConflictCalls] /\ \A k \in Callers : calls[k] = Idle
  BY <1>1 DEF ConflictInit
<1>3. holds \in [Holders -> SUBSET Values] /\ Disjoint(holds) /\ misses = 0 /\ clobbered = FALSE
  BY DEF ConflictInit, Disjoint
<1>4. ConflictShape
  <2>0. misses \in 0 .. MaxMisses
    BY <1>3, ConflictConstants
  <2>1. clobbered \in BOOLEAN
    BY <1>3, Zenon
  <2>2. OneTarget /\ \A k \in Callers : CallShape(calls[k])
    BY <1>1, <1>2 DEF OneTarget
  <2> QED BY <1>2, <1>3, <2>0, <2>1, <2>2 DEF ConflictShape
<1> QED BY <1>1, <1>2, <1>4 DEF ConflictInv, WantsWhole, LostOnlyInHandover

(* rf-client.js:203-212, 405-443: a value that some call was answered for belongs to   *)
(* someone, but while it is handed over or where a record had changed under a writer.   *)
THEOREM NoneLostButInHandover == ConflictSpec => [](LostOnlyInHandover /\ ConflictTypeOK)
<1>1. ConflictInv => LostOnlyInHandover /\ ConflictTypeOK
  BY ConflictConstants DEF ConflictInv, ConflictShape, ConflictTypeOK, Disjoint, CallShape, ConflictCalls,
     ConflictSteps
<1> QED BY <1>1, ConflictStarts, ConflictKept, PTL DEF ConflictSpec

-----------------------------------------------------------------------------
(* PhoneReveal: the order of the numbers, and the two lists. *)

(* Keys that differ. *)
Keyed(I, key) == key \in [I -> Nat] /\ \A i, j \in I : key[i] = key[j] => i = j

LEMMA ArrangedIs ==
  ASSUME NEW T, NEW s \in Seq(T), NEW I, I \subseteq DOMAIN s, NEW key, Keyed(I, key)
  PROVE  /\ Arranged(s, I, key) \in Seq(T)
         /\ Range(Arranged(s, I, key)) = {s[i] : i \in I}
         /\ (\A i, j \in I : s[i] = s[j] => i = j) => IsInjective(Arranged(s, I, key))
<1> DEFINE n == Cardinality(I)
           at(k) == CHOOSE i \in I : Cardinality(UpTo(I, key, i)) = k
           result == Arranged(s, I, key)
<1>1. DOMAIN s = 1 .. Len(s) /\ Len(s) \in Nat
  OBVIOUS
<1>2. IsFiniteSet(I) /\ n \in Nat
  <2>1. IsFiniteSet(1 .. Len(s))
    BY <1>1, FS_Interval
  <2>2. IsFiniteSet(I)
    BY <1>1, <2>1, FS_Subset
  <2> QED BY <2>2, FS_CardinalityType
<1>3. /\ \A i \in I : Cardinality(UpTo(I, key, i)) \in 1 .. n
      /\ \A i, j \in I : Cardinality(UpTo(I, key, i)) = Cardinality(UpTo(I, key, j)) => i = j
      /\ \A k \in 1 .. n : \E i \in I : Cardinality(UpTo(I, key, i)) = k
  BY <1>2, Places DEF Keyed
<1>4. result = [k \in 1 .. n |-> s[at(k)]]
  BY DEF Arranged, UpTo
<1>5. \A k \in 1 .. n : at(k) \in I /\ Cardinality(UpTo(I, key, at(k))) = k
  BY <1>3
<1>6. \A i \in I : \E k \in 1 .. n : at(k) = i
  BY <1>3, <1>5
<1> HIDE DEF at, n, result
<1>7. DOMAIN result = 1 .. n /\ \A k \in 1 .. n : result[k] = s[at(k)]
  BY <1>4
<1>8. result \in Seq(T)
  <2>1. \A k \in 1 .. n : s[at(k)] \in T
    BY <1>1, <1>5
  <2>2. result \in [1 .. n -> T]
    BY <1>4, <2>1
  <2> QED BY <1>2, <2>2, SeqDef
<1>9. Range(result) = {s[i] : i \in I}
  <2>1. \A k \in 1 .. n : result[k] \in {s[i] : i \in I}
    BY <1>5, <1>7
  <2>2. \A i \in I : \E k \in 1 .. n : result[k] = s[i]
    BY <1>6, <1>7
  <2>3. Range(result) = {result[k] : k \in 1 .. n}
    BY <1>7 DEF Range
  <2> QED BY <2>1, <2>2, <2>3
<1>10. ASSUME \A i, j \in I : s[i] = s[j] => i = j PROVE IsInjective(result)
  <2>1. \A k, l \in 1 .. n : result[k] = result[l] => k = l
    BY <1>5, <1>7, <1>10
  <2> QED BY <1>7, <2>1 DEF IsInjective
<1> QED BY <1>8, <1>9, <1>10 DEF result

LEMMA KeptIs ==
  ASSUME NEW T, NEW s \in Seq(T), NEW I, I \subseteq DOMAIN s
  PROVE  /\ Kept(s, I) \in Seq(T) /\ Range(Kept(s, I)) = {s[i] : i \in I}
         /\ (\A i, j \in I : s[i] = s[j] => i = j) => IsInjective(Kept(s, I))
<1> DEFINE key == [i \in I |-> i]
<1>1. Keyed(I, key)
  <2>1. \A i \in I : i \in Nat
    OBVIOUS
  <2>2. key \in [I -> Nat] /\ \A i, j \in I : key[i] = key[j] => i = j
    BY <2>1
  <2> QED BY <2>2 DEF Keyed
<1>2. Kept(s, I) = Arranged(s, I, key)
  BY DEF Kept
<1> HIDE DEF key
<1> QED BY <1>1, <1>2, ArrangedIs

LEMMA DedupeIs ==
  ASSUME NEW T, NEW s \in Seq(T)
  PROVE  /\ DedupeByDigits(s) \in Seq(T) /\ IsInjective(DedupeByDigits(s))
         /\ Range(DedupeByDigits(s)) = Range(s)
<1> DEFINE I == {i \in DOMAIN s : \A j \in 1 .. i - 1 : s[j] # s[i]}
<1>1. DOMAIN s = 1 .. Len(s) /\ Len(s) \in Nat /\ I \subseteq DOMAIN s
  OBVIOUS
<1>2. \A i, j \in I : s[i] = s[j] => i = j
  <2> SUFFICES ASSUME NEW i \in I, NEW j \in I, s[i] = s[j], i # j PROVE FALSE
    OBVIOUS
  <2>1. i \in Nat /\ j \in Nat /\ i >= 1 /\ j >= 1 /\ (i < j \/ j < i)
    BY <1>1
  <2>2. i < j => i \in 1 .. j - 1
    BY <2>1
  <2>3. j < i => j \in 1 .. i - 1
    BY <2>1
  <2> QED BY <2>1, <2>2, <2>3
<1>3. Range(s) = {s[i] : i \in I}
  <2>1. ASSUME NEW k \in DOMAIN s PROVE \E i \in I : s[i] = s[k]
    <3> DEFINE same == {i \in DOMAIN s : s[i] = s[k]}
    <3>1. same \subseteq Nat /\ same # {}
      BY <1>1
    <3>2. PICK i \in same : \A j \in same : i <= j
      BY <3>1, FirstExists
    <3>3. \A j \in 1 .. i - 1 : j \in DOMAIN s /\ j < i
      BY <1>1, <3>2
    <3>4. i \in I
      BY <1>1, <3>2, <3>3
    <3> QED BY <3>2, <3>4
  <2> QED BY <1>1, <2>1 DEF Range
<1>4. DedupeByDigits(s) = Kept(s, I)
  BY DEF DedupeByDigits
<1> HIDE DEF I
<1> QED BY <1>1, <1>2, <1>3, <1>4, KeptIs

LEMMA ByRankIs ==
  ASSUME NEW s \in Seq(Numbers)
  PROVE  ByRank(s) \in Seq(Numbers) /\ Range(ByRank(s)) = Range(s)
<1> DEFINE key == [i \in DOMAIN s |-> Rank(s[i]) * Len(s) + i]
           I == DOMAIN s
<1>1. I = 1 .. Len(s) /\ Len(s) \in Nat /\ \A i \in I : Rank(s[i]) \in 0 .. 3
  BY RevealConstants
<1>2. key \in [I -> Nat] /\ \A i \in I : key[i] = Rank(s[i]) * Len(s) + i
  BY <1>1
<1>3. \A i, j \in I : key[i] = key[j] => i = j
  <2> SUFFICES ASSUME NEW i \in I, NEW j \in I, key[i] = key[j] PROVE i = j
    OBVIOUS
  <2>1. Rank(s[i]) * Len(s) + i = Rank(s[j]) * Len(s) + j
    BY <1>2
  <2>2. \A L \in Nat : \A p, q \in 0 .. 3 : \A x, y \in 1 .. L : p * L + x = q * L + y => x = y
    <3> SUFFICES ASSUME NEW L \in Nat, NEW p \in 0 .. 3, NEW q \in 0 .. 3, NEW x \in 1 .. L, NEW y \in 1 .. L,
                        p * L + x = q * L + y
                 PROVE  x = y
      OBVIOUS
    <3>1. p \in {0, 1, 2, 3} /\ q \in {0, 1, 2, 3}
      OBVIOUS
    <3>2. CASE p = 0
      BY <3>1, <3>2
    <3>3. CASE p = 1
      BY <3>1, <3>3
    <3>4. CASE p = 2
      BY <3>1, <3>4
    <3>5. CASE p = 3
      BY <3>1, <3>5
    <3> QED BY <3>1, <3>2, <3>3, <3>4, <3>5
  <2> QED BY <1>1, <2>1, <2>2
<1>4. ByRank(s) = Arranged(s, I, key) /\ I \subseteq DOMAIN s /\ Range(s) = {s[i] : i \in I}
  BY DEF ByRank, Range
<1> HIDE DEF key, I
<1>5. Keyed(I, key)
  BY <1>2, <1>3 DEF Keyed
<1> QED BY <1>4, <1>5, ArrangedIs

LEMMA RankedIs ==
  ASSUME NEW entries \in Seq(Numbers \cup Excluded \cup Unreadable)
  PROVE  Ranked(entries) \in Seq(Numbers)
<1> DEFINE I == {i \in DOMAIN entries : entries[i] \notin Excluded \cup Unreadable}
           kept == Kept(entries, I)
<1>1. I \subseteq DOMAIN entries /\ \A i \in I : entries[i] \in Numbers
  OBVIOUS
<1>2. Ranked(entries) = ByRank(kept)
  BY DEF Ranked
<1> HIDE DEF I
<1>3. kept \in Seq(Numbers \cup Excluded \cup Unreadable) /\ Range(kept) = {entries[i] : i \in I}
  BY <1>1, KeptIs
<1> HIDE DEF kept
<1>4. kept \in Seq(Numbers)
  <2>1. \A k \in DOMAIN kept : kept[k] \in Numbers
    BY <1>1, <1>3 DEF Range
  <2>2. DOMAIN kept = 1 .. Len(kept) /\ Len(kept) \in Nat /\ kept = [k \in DOMAIN kept |-> kept[k]]
    BY <1>3
  <2>3. kept \in [1 .. Len(kept) -> Numbers]
    BY <2>1, <2>2
  <2> QED BY <2>2, <2>3, SeqDef
<1> QED BY <1>2, <1>4, ByRankIs

(* The order keeps every number that was there, and lists none twice. *)
LEMMA OrderIs ==
  ASSUME NEW existing \in Seq(Numbers), NEW r \in Reveals
  PROVE  /\ BuildPhoneOrder(existing, Brings(r)) \in Seq(Numbers)
         /\ IsInjective(BuildPhoneOrder(existing, Brings(r)))
         /\ Range(existing) \subseteq Range(BuildPhoneOrder(existing, Brings(r)))
<1> DEFINE ranked == Ranked(Brings(r))
           I == {i \in DOMAIN existing : existing[i] \notin Range(ranked)}
           rest == Without(existing, ranked)
           order == BuildPhoneOrder(existing, Brings(r))
<1>1. ranked \in Seq(Numbers)
  BY RevealConstants, RankedIs
<1> HIDE DEF ranked
<1>2. rest = Kept(existing, I) /\ I \subseteq DOMAIN existing
  BY DEF Without
<1>3. rest \in Seq(Numbers) /\ Range(rest) = {existing[i] : i \in I}
  <2> HIDE DEF rest, I
  <2> QED BY <1>2, KeptIs
<1>4. order = DedupeByDigits(rest \o ranked)
  BY DEF BuildPhoneOrder, ranked
<1>5. \A x \in Range(existing) : x \in Range(rest) \/ x \in Range(ranked)
  <2> HIDE DEF rest
  <2> QED BY <1>3 DEF Range
<1> HIDE DEF rest, I, order
<1>6. /\ rest \o ranked \in Seq(Numbers)
      /\ \A x : x \in Range(rest) \/ x \in Range(ranked) => x \in Range(rest \o ranked)
  <2>1. /\ rest \o ranked \in Seq(Numbers) /\ Len(rest \o ranked) = Len(rest) + Len(ranked)
        /\ \A k \in 1 .. Len(rest) : (rest \o ranked)[k] = rest[k]
        /\ \A k \in 1 .. Len(ranked) : (rest \o ranked)[Len(rest) + k] = ranked[k]
        /\ DOMAIN rest = 1 .. Len(rest) /\ DOMAIN ranked = 1 .. Len(ranked)
        /\ DOMAIN (rest \o ranked) = 1 .. Len(rest) + Len(ranked)
        /\ Len(rest) \in Nat /\ Len(ranked) \in Nat
    BY <1>1, <1>3
  <2> DEFINE both == rest \o ranked
             m == Len(rest)
             l == Len(ranked)
  <2> HIDE DEF both, m, l
  <2>2. /\ \A k \in 1 .. m : both[k] = rest[k] /\ k \in DOMAIN both
        /\ \A k \in 1 .. l : both[m + k] = ranked[k] /\ m + k \in DOMAIN both
        /\ DOMAIN rest = 1 .. m /\ DOMAIN ranked = 1 .. l
    BY <2>1 DEF both, m, l
  <2>3. \A x : x \in Range(rest) \/ x \in Range(ranked) => x \in Range(both)
    BY <2>2 DEF Range
  <2> QED BY <2>1, <2>3 DEF both
<1>7. order \in Seq(Numbers) /\ IsInjective(order) /\ Range(order) = Range(rest \o ranked)
  BY <1>4, <1>6, DedupeIs
<1> QED BY <1>5, <1>6, <1>7 DEF order

-----------------------------------------------------------------------------
Phones == Seq(Numbers)
RevealSteps == {"waiting", "get_rf", "get_dp", "write_rf", "write_dp", "cache", "failed", "ok"}
Handlings ==
    [step : RevealSteps, rf : Phones, dp : Phones, ordered : Phones, sawDp : BOOLEAN,
     rfFailed : BOOLEAN, dpFailed : BOOLEAN]

RevealShape ==
    /\ rfPhones \in Phones /\ (dpPhones = NoContact \/ dpPhones \in Phones) /\ shown \in Phones
    /\ manual \subseteq Numbers
    /\ touched \in BOOLEAN /\ raced \in BOOLEAN /\ blind \in BOOLEAN
    /\ added \in 0 .. MaxAdded /\ broken \in 0 .. MaxBroken
    /\ reveals \in [Reveals -> Handlings]
    /\ \A r \in Reveals : IsInjective(reveals[r].ordered)

DpAsRead(dp, saw) == IF saw /\ dp # NoContact THEN dp ELSE <<>>

(* What a delivery knows of the two lists, if nobody wrote since it read them. *)
Knows(v, rf, dp) ==
    /\ v.step \in {"get_dp", "write_rf"} => v.rf = rf
    /\ v.step \in {"write_rf", "write_dp"} =>
         /\ v.dp = DpAsRead(dp, v.sawDp)
         /\ Range(v.rf) \subseteq Range(v.ordered) /\ Range(v.dp) \subseteq Range(v.ordered)
    /\ v.step \in {"write_dp", "cache"} => v.rfFailed \/ v.ordered = <<>> \/ rf = v.ordered
    /\ v.step = "cache" => v.dpFailed \/ v.ordered = <<>> \/ dp = v.ordered

Agreed == ~touched => \/ rfPhones = dpPhones
                      \/ \E r \in Reveals : HalfWritten(r) /\ Ordered(r) # <<>>
NumbersKept == ~blind => \A n \in manual : n \in Range(rfPhones) \/ n \in Range(dpPhones)

RevealInv ==
    /\ RevealShape
    /\ ~raced => /\ \A r \in Reveals : Knows(reveals[r], rfPhones, dpPhones)
                 /\ Agreed /\ NumbersKept /\ Range(shown) \subseteq Range(rfPhones)

LEMMA RevealImplies == RevealInv => RevealTypeOK /\ RevealsMerge
<1> SUFFICES ASSUME RevealInv PROVE RevealTypeOK /\ RevealsMerge
  OBVIOUS
<1>1. \A s \in Phones : Range(s) \subseteq Numbers
  BY DEF Phones, Range
<1>2. RevealTypeOK
  BY <1>1 DEF RevealInv, RevealShape, RevealTypeOK, Ordered
<1>3. RevealsMerge
  BY DEF RevealInv, Agreed, NumbersKept, RevealsMerge
<1> QED BY <1>2, <1>3

LEMMA EmptyList == <<>> \in Phones /\ IsInjective(<<>>) /\ Range(<<>>) = {}
BY DEF Phones, IsInjective, Range

LEMMA WaitingIs ==
  ASSUME NEW step \in RevealSteps
  PROVE  LET v == [Waiting EXCEPT !.step = step] IN
         v \in Handlings /\ v.step = step /\ v.ordered = <<>>
<1> DEFINE v == [Waiting EXCEPT !.step = step]
<1>1. v.step = step /\ v.ordered = <<>> /\ v.rf = <<>> /\ v.dp = <<>> /\ v.sawDp = TRUE
      /\ v.rfFailed = FALSE /\ v.dpFailed = FALSE
  BY DEF Waiting
<1>2. v \in Handlings
  BY EmptyList DEF Waiting, Handlings
<1> QED BY <1>1, <1>2

LEMMA RevealStarts == RevealInit => RevealInv
<1> SUFFICES ASSUME RevealInit PROVE RevealInv
  OBVIOUS
<1>1. Waiting \in Handlings /\ Waiting.step = "waiting" /\ Waiting.ordered = <<>>
  BY EmptyList DEF Waiting, Handlings, RevealSteps
<1>2. \A r \in Reveals : reveals[r] = Waiting
  BY DEF RevealInit
<1> HIDE DEF Waiting
<1>3. reveals \in [Reveals -> Handlings]
  BY <1>1 DEF RevealInit
<1>4. RevealShape
  <2>1. \A r \in Reveals : IsInjective(reveals[r].ordered)
    BY <1>1, <1>2, EmptyList
  <2>2. rfPhones \in Phones /\ (dpPhones = NoContact \/ dpPhones \in Phones) /\ shown \in Phones
    BY EmptyList DEF RevealInit
  <2>3. manual \subseteq Numbers /\ added \in 0 .. MaxAdded /\ broken \in 0 .. MaxBroken
    BY RevealConstants DEF RevealInit
  <2>4. touched = TRUE /\ raced = FALSE /\ blind = FALSE
    BY DEF RevealInit
  <2> QED BY <1>3, <2>1, <2>2, <2>3, <2>4 DEF RevealShape
<1>5. /\ \A r \in Reveals : Knows(reveals[r], rfPhones, dpPhones)
      /\ Agreed /\ NumbersKept /\ Range(shown) \subseteq Range(rfPhones)
  BY <1>1, <1>2 DEF RevealInit, Knows, Agreed, NumbersKept
<1> QED BY <1>4, <1>5 DEF RevealInv

(* A step of one delivery. *)
Handles(r, v) == v \in Handlings /\ IsInjective(v.ordered) /\ reveals' = [reveals EXCEPT ![r] = v]

LEMMA HandlesIs ==
  ASSUME RevealShape, NEW r \in Reveals, NEW v, Handles(r, v)
  PROVE  /\ reveals' \in [Reveals -> Handlings]
         /\ \A q \in Reveals : IsInjective(reveals'[q].ordered)
         /\ reveals'[r] = v /\ \A q \in Reveals \ {r} : reveals'[q] = reveals[q]
<1>1. reveals'[r] = v /\ (\A q \in Reveals \ {r} : reveals'[q] = reveals[q]) /\ reveals' \in [Reveals -> Handlings]
  BY DEF Handles, RevealShape
<1> QED BY <1>1 DEF Handles, RevealShape

(* What a delivery has half written it leaves to be finished. *)
StaysHalf(r, v) == HalfWritten(r) => v.step \in {"write_dp", "cache"} /\ v.ordered = Ordered(r)

(* Steps that read only, and writes that fail. *)
LEMMA ReadingKeeps ==
  ASSUME RevealInv, NEW r \in Reveals, NEW v, Handles(r, v),
         UNCHANGED <<rfPhones, dpPhones, shown, raced, added, manual, touched, blind>>,
         broken' \in 0 .. MaxBroken,
         ~raced => Knows(v, rfPhones, dpPhones), StaysHalf(r, v)
  PROVE  RevealInv'
<1>0. RevealShape
  BY DEF RevealInv
<1>1. /\ reveals' \in [Reveals -> Handlings]
      /\ \A q \in Reveals : IsInjective(reveals'[q].ordered)
      /\ reveals'[r] = v /\ \A q \in Reveals \ {r} : reveals'[q] = reveals[q]
  BY <1>0, HandlesIs
<1>2. RevealShape'
  BY <1>0, <1>1 DEF RevealShape
<1>3. ASSUME ~raced
      PROVE  /\ \A q \in Reveals : Knows(reveals'[q], rfPhones', dpPhones')
             /\ Agreed' /\ NumbersKept' /\ Range(shown') \subseteq Range(rfPhones')
  <2>1. /\ \A q \in Reveals : Knows(reveals[q], rfPhones, dpPhones)
        /\ Agreed /\ NumbersKept /\ Range(shown) \subseteq Range(rfPhones)
    BY <1>3 DEF RevealInv
  <2>2. \A q \in Reveals : Knows(reveals'[q], rfPhones, dpPhones)
    BY <1>1, <1>3, <2>1
  <2>3. Agreed'
    <3>1. \A q \in Reveals : HalfWritten(q) => HalfWritten(q)' /\ Ordered(q)' = Ordered(q)
      BY <1>1 DEF HalfWritten, Ordered, StaysHalf
    <3> QED BY <2>1, <3>1 DEF Agreed
  <2>4. NumbersKept' /\ Range(shown') \subseteq Range(rfPhones')
    BY <2>1 DEF NumbersKept
  <2> QED BY <2>2, <2>3, <2>4
<1> QED BY <1>2, <1>3 DEF RevealInv

LEMMA AddsKeep ==
  ASSUME RevealInv, NEW n \in Numbers, AddsInRF(n) \/ AddsInDialpad(n)
  PROVE  RevealInv'
<1>0. RevealShape
  BY DEF RevealInv
<1>1. /\ UNCHANGED <<shown, reveals, broken, blind>> /\ added' = added + 1 /\ added < MaxAdded
      /\ touched' = TRUE /\ manual' = manual \cup {n}
      /\ raced' = (raced \/ \E r \in Reveals : Between(r))
  BY DEF AddsInRF, AddsInDialpad, Writes
<1>2. \/ rfPhones' = Append(rfPhones, n) /\ dpPhones' = dpPhones
      \/ dpPhones' = Append(dpPhones, n) /\ rfPhones' = rfPhones /\ dpPhones # NoContact
  BY DEF AddsInRF, AddsInDialpad
<1>3. \A s \in Phones : Append(s, n) \in Phones /\ Range(Append(s, n)) = Range(s) \cup {n}
  <2> SUFFICES ASSUME NEW s \in Phones PROVE Append(s, n) \in Phones /\ Range(Append(s, n)) = Range(s) \cup {n}
    OBVIOUS
  <2>1. /\ Append(s, n) \in Phones /\ DOMAIN Append(s, n) = 1 .. Len(s) + 1 /\ DOMAIN s = 1 .. Len(s)
        /\ Len(s) \in Nat /\ Append(s, n)[Len(s) + 1] = n /\ \A i \in 1 .. Len(s) : Append(s, n)[i] = s[i]
    BY DEF Phones
  <2>2. \A i \in 1 .. Len(s) + 1 : i \in 1 .. Len(s) \/ i = Len(s) + 1
    BY <2>1
  <2>3. Len(s) + 1 \in 1 .. Len(s) + 1 /\ \A i \in 1 .. Len(s) : i \in 1 .. Len(s) + 1
    BY <2>1
  <2> DEFINE t == Append(s, n)
             m == Len(s)
  <2> HIDE DEF t, m
  <2>4. /\ DOMAIN t = 1 .. m + 1 /\ DOMAIN s = 1 .. m /\ t[m + 1] = n /\ \A i \in 1 .. m : t[i] = s[i]
        /\ m + 1 \in DOMAIN t /\ (\A i \in 1 .. m : i \in DOMAIN t)
        /\ \A i \in DOMAIN t : i \in DOMAIN s \/ i = m + 1
    BY <2>1, <2>2, <2>3 DEF t, m
  <2>5. Range(t) = Range(s) \cup {n}
    BY <2>4 DEF Range
  <2> QED BY <2>1, <2>5 DEF t
<1>4. /\ rfPhones' \in Phones /\ (dpPhones' = NoContact \/ dpPhones' \in Phones)
      /\ Range(rfPhones) \subseteq Range(rfPhones') /\ Range(dpPhones) \subseteq Range(dpPhones')
      /\ n \in Range(rfPhones') \/ n \in Range(dpPhones')
  BY <1>0, <1>2, <1>3 DEF RevealShape
<1>5. RevealShape'
  <2>1. added' \in 0 .. MaxAdded
    BY <1>0, <1>1, RevealConstants DEF RevealShape
  <2>2. raced' \in BOOLEAN
    BY <1>0, <1>1 DEF RevealShape
  <2> QED BY <1>0, <1>1, <1>4, <2>1, <2>2 DEF RevealShape
<1>6. ASSUME ~raced'
      PROVE  /\ \A q \in Reveals : Knows(reveals'[q], rfPhones', dpPhones')
             /\ Agreed' /\ NumbersKept' /\ Range(shown') \subseteq Range(rfPhones')
  <2>1. ~raced /\ \A r \in Reveals : ~Between(r)
    BY <1>1, <1>6
  <2>2. \A r \in Reveals : Knows(reveals'[r], rfPhones', dpPhones')
    BY <1>1, <2>1 DEF Between, Knows
  <2>3. NumbersKept /\ Range(shown) \subseteq Range(rfPhones)
    BY <2>1 DEF RevealInv
  <2>4. NumbersKept'
    BY <1>1, <1>4, <2>3 DEF NumbersKept
  <2>5. Agreed'
    BY <1>1 DEF Agreed
  <2> QED BY <1>1, <1>4, <2>2, <2>3, <2>4, <2>5
<1> QED BY <1>5, <1>6 DEF RevealInv

LEMMA ContactKeeps == ASSUME RevealInv, CreatesContact PROVE RevealInv'
<1>0. RevealShape
  BY DEF RevealInv
<1>1. /\ dpPhones = NoContact /\ dpPhones' = rfPhones /\ touched' = TRUE
      /\ raced' = (raced \/ \E r \in Reveals : Between(r))
      /\ UNCHANGED <<rfPhones, shown, reveals, added, broken, manual, blind>>
  BY DEF CreatesContact, Writes
<1>2. RevealShape'
  <2>1. raced' \in BOOLEAN
    BY <1>0, <1>1 DEF RevealShape
  <2> QED BY <1>0, <1>1, <2>1 DEF RevealShape
<1>3. ASSUME ~raced'
      PROVE  /\ \A q \in Reveals : Knows(reveals'[q], rfPhones', dpPhones')
             /\ Agreed' /\ NumbersKept' /\ Range(shown') \subseteq Range(rfPhones')
  <2>1. ~raced /\ \A r \in Reveals : ~Between(r)
    BY <1>1, <1>3
  <2>2. \A r \in Reveals : Knows(reveals'[r], rfPhones', dpPhones')
    BY <1>1, <2>1 DEF Between, Knows
  <2>3. NumbersKept /\ Range(shown) \subseteq Range(rfPhones)
    BY <2>1 DEF RevealInv
  <2>4. \A n \in manual : n \notin Range(dpPhones)
    <3>1. Range(NoContact) = {"no_contact"}
      BY DEF NoContact, Range
    <3> QED BY <1>0, <1>1, <3>1, RevealConstants DEF RevealShape
  <2>5. NumbersKept'
    BY <1>1, <2>3, <2>4 DEF NumbersKept
  <2>6. Agreed'
    BY <1>1 DEF Agreed
  <2> QED BY <1>1, <2>2, <2>3, <2>5, <2>6
<1> QED BY <1>2, <1>3 DEF RevealInv

LEMMA DeliversKeeps == ASSUME RevealInv, NEW r \in Reveals, Delivers(r) PROVE RevealInv'
<1> DEFINE step == IF Brings(r) = <<>> THEN "ok" ELSE "get_rf"
           v == [Waiting EXCEPT !.step = step]
<1>0. RevealShape
  BY DEF RevealInv
<1>1. /\ reveals[r].step \in {"waiting", "failed"} /\ reveals' = [reveals EXCEPT ![r] = v]
      /\ UNCHANGED <<rfPhones, dpPhones, shown, raced, broken, added, manual, touched, blind>>
  BY DEF Delivers, Quiet
<1>2. step \in {"ok", "get_rf"} /\ step \in RevealSteps
  BY DEF RevealSteps
<1> HIDE DEF step
<1>3. v \in Handlings /\ v.step = step /\ v.ordered = <<>>
  BY <1>2, WaitingIs
<1> HIDE DEF v
<1>4. Handles(r, v)
  BY <1>1, <1>3, EmptyList DEF Handles
<1>5. Knows(v, rfPhones, dpPhones) /\ StaysHalf(r, v)
  BY <1>1, <1>2, <1>3 DEF Knows, HalfWritten, StaysHalf
<1>6. broken' \in 0 .. MaxBroken
  BY <1>0, <1>1 DEF RevealShape
<1> QED BY <1>1, <1>4, <1>5, <1>6, ReadingKeeps

LEMMA BrokenRange ==
  ASSUME RevealShape, Breaks \/ UNCHANGED broken
  PROVE  broken' \in 0 .. MaxBroken
BY RevealConstants DEF Breaks, RevealShape

LEMMA GetRFKeeps == ASSUME RevealInv, NEW r \in Reveals, GetRF(r) PROVE RevealInv'
<1>0. RevealShape /\ reveals[r] \in Handlings /\ IsInjective(reveals[r].ordered)
  BY DEF RevealInv, RevealShape
<1>1. /\ reveals[r].step = "get_rf"
      /\ UNCHANGED <<rfPhones, dpPhones, shown, raced, added, manual, touched, blind>>
  BY DEF GetRF, Quiet
<1>2. broken' \in 0 .. MaxBroken
  BY <1>0, BrokenRange DEF GetRF
<1>3. ~HalfWritten(r)
  BY <1>1 DEF HalfWritten
<1>4. CASE reveals' = [reveals EXCEPT ![r].rf = rfPhones, ![r].step = "get_dp"]
  <2> DEFINE v == [reveals[r] EXCEPT !.rf = rfPhones, !.step = "get_dp"]
  <2>1. v \in Handlings /\ v.step = "get_dp" /\ v.rf = rfPhones /\ v.ordered = reveals[r].ordered
    BY <1>0 DEF Handlings, RevealSteps, RevealShape
  <2>2. reveals' = [reveals EXCEPT ![r] = v]
    BY <1>0, <1>4 DEF RevealShape
  <2> HIDE DEF v
  <2>3. Handles(r, v) /\ Knows(v, rfPhones, dpPhones)
    BY <1>0, <2>1, <2>2 DEF Handles, Knows
  <2>4. StaysHalf(r, v)
    BY <1>3 DEF StaysHalf
  <2> QED BY <1>1, <1>2, <2>3, <2>4, ReadingKeeps
<1>5. CASE Goto(r, "failed")
  <2> DEFINE v == [reveals[r] EXCEPT !.step = "failed"]
  <2>1. v \in Handlings /\ v.step = "failed" /\ v.ordered = reveals[r].ordered
    BY <1>0 DEF Handlings, RevealSteps
  <2>2. reveals' = [reveals EXCEPT ![r] = v]
    BY <1>0, <1>5 DEF RevealShape, Goto
  <2> HIDE DEF v
  <2>3. Handles(r, v) /\ Knows(v, rfPhones, dpPhones)
    BY <1>0, <2>1, <2>2 DEF Handles, Knows
  <2>4. StaysHalf(r, v)
    BY <1>3 DEF StaysHalf
  <2> QED BY <1>1, <1>2, <2>3, <2>4, ReadingKeeps
<1> QED BY <1>4, <1>5 DEF GetRF

LEMMA GetDialpadKeeps == ASSUME RevealInv, NEW r \in Reveals, GetDialpad(r) PROVE RevealInv'
<1>0. RevealShape /\ reveals[r] \in Handlings
  BY DEF RevealInv, RevealShape
<1>1. /\ reveals[r].step = "get_dp"
      /\ UNCHANGED <<rfPhones, dpPhones, shown, raced, added, manual, touched, blind>>
  BY DEF GetDialpad, Quiet
<1>2. broken' \in 0 .. MaxBroken
  BY <1>0, BrokenRange DEF GetDialpad
<1>3. ~HalfWritten(r)
  BY <1>1 DEF HalfWritten
<1>4. PICK saw \in BOOLEAN : Orders(r, DpAsRead(dpPhones, saw), saw)
  <2>1. (IF dpPhones = NoContact THEN <<>> ELSE dpPhones) = DpAsRead(dpPhones, TRUE) /\ DpAsRead(dpPhones, FALSE) = <<>>
    BY DEF DpAsRead
  <2>2. CASE Orders(r, IF dpPhones = NoContact THEN <<>> ELSE dpPhones, TRUE)
    BY <2>1, <2>2
  <2>3. CASE Orders(r, <<>>, FALSE)
    BY <2>1, <2>3
  <2> QED BY <2>2, <2>3 DEF GetDialpad
<1> DEFINE dp == DpAsRead(dpPhones, saw)
           old == reveals[r].rf \o dp
           order == BuildPhoneOrder(old, Brings(r))
           v == [reveals[r] EXCEPT !.step = "write_rf", !.dp = dp, !.sawDp = saw, !.ordered = order]
<1>5. dp \in Phones /\ reveals[r].rf \in Phones
  BY <1>0, EmptyList DEF DpAsRead, RevealShape, Handlings
<1>6. reveals' = [reveals EXCEPT ![r] = v]
  BY <1>0, <1>4 DEF Orders, RevealShape
<1> HIDE DEF dp
<1>7. old \in Phones /\ Range(reveals[r].rf) \subseteq Range(old) /\ Range(dp) \subseteq Range(old)
  <2> DEFINE s == reveals[r].rf
  <2>1. /\ old \in Phones /\ Len(s) \in Nat /\ Len(dp) \in Nat
        /\ DOMAIN s = 1 .. Len(s) /\ DOMAIN dp = 1 .. Len(dp) /\ DOMAIN old = 1 .. Len(s) + Len(dp)
        /\ \A k \in 1 .. Len(s) : old[k] = s[k]
        /\ \A k \in 1 .. Len(dp) : old[Len(s) + k] = dp[k]
    BY <1>5 DEF Phones
  <2> HIDE DEF old, s
  <2> DEFINE m == Len(s)
             l == Len(dp)
  <2>2. /\ DOMAIN s = 1 .. m /\ DOMAIN dp = 1 .. l
        /\ \A k \in 1 .. m : old[k] = s[k] /\ k \in DOMAIN old
        /\ \A k \in 1 .. l : old[m + k] = dp[k] /\ m + k \in DOMAIN old
    BY <2>1
  <2> HIDE DEF m, l
  <2>3. Range(s) \subseteq Range(old) /\ Range(dp) \subseteq Range(old)
    BY <2>2 DEF Range
  <2> QED BY <2>1, <2>3 DEF s
<1> HIDE DEF old
<1>8. order \in Phones /\ IsInjective(order) /\ Range(old) \subseteq Range(order)
  BY <1>7, OrderIs DEF Phones
<1> HIDE DEF order
<1>9. /\ v \in Handlings /\ v.step = "write_rf" /\ v.ordered = order /\ v.rf = reveals[r].rf /\ v.dp = dp
      /\ v.sawDp = saw
  BY <1>0, <1>5, <1>8 DEF Handlings, RevealSteps
<1> HIDE DEF v
<1>10. Handles(r, v)
  BY <1>6, <1>8, <1>9 DEF Handles
<1>11. ~raced => Knows(v, rfPhones, dpPhones)
  <2>1. ~raced => reveals[r].rf = rfPhones
    BY <1>1 DEF RevealInv, Knows
  <2> QED BY <1>7, <1>8, <1>9, <2>1 DEF Knows, dp
<1>12. StaysHalf(r, v)
  BY <1>3 DEF StaysHalf
<1> QED BY <1>1, <1>2, <1>10, <1>11, <1>12, ReadingKeeps

(* A write that did not fail while nobody else had read: the writer alone knows of it. *)
LEMMA WritingKeeps ==
  ASSUME RevealInv, NEW r \in Reveals, NEW v, Handles(r, v), Writes(Reveals \ {r}),
         rfPhones' \in Phones, dpPhones' = NoContact \/ dpPhones' \in Phones,
         UNCHANGED <<shown, broken, added, manual, touched>>, blind' \in BOOLEAN,
         ~raced => Knows(v, rfPhones', dpPhones'),
         v.step \in {"write_dp", "cache"}, v.ordered # <<>>,
         ~raced => NumbersKept' /\ Range(rfPhones) \subseteq Range(rfPhones')
  PROVE  RevealInv'
<1>0. RevealShape
  BY DEF RevealInv
<1>1. /\ reveals' \in [Reveals -> Handlings]
      /\ \A q \in Reveals : IsInjective(reveals'[q].ordered)
      /\ reveals'[r] = v /\ \A q \in Reveals \ {r} : reveals'[q] = reveals[q]
  BY <1>0, HandlesIs
<1>2. raced' = (raced \/ \E q \in Reveals \ {r} : Between(q))
  BY DEF Writes
<1>3. RevealShape'
  <2>1. raced' \in BOOLEAN
    BY <1>0, <1>2 DEF RevealShape
  <2> QED BY <1>0, <1>1, <2>1 DEF RevealShape
<1>4. ASSUME ~raced'
      PROVE  /\ \A q \in Reveals : Knows(reveals'[q], rfPhones', dpPhones')
             /\ Agreed' /\ NumbersKept' /\ Range(shown') \subseteq Range(rfPhones')
  <2>1. ~raced /\ \A q \in Reveals \ {r} : ~Between(q)
    BY <1>2, <1>4
  <2>2. \A q \in Reveals : Knows(reveals'[q], rfPhones', dpPhones')
    <3>1. \A q \in Reveals \ {r} : Knows(reveals[q], rfPhones', dpPhones')
      BY <2>1 DEF Between, Knows
    <3>2. Knows(v, rfPhones', dpPhones')
      BY <2>1
    <3> QED BY <1>1, <3>1, <3>2
  <2>3. HalfWritten(r)' /\ Ordered(r)' # <<>>
    BY <1>1 DEF HalfWritten, Ordered
  <2>4. Range(shown) \subseteq Range(rfPhones)
    BY <2>1 DEF RevealInv
  <2> QED BY <2>1, <2>2, <2>3, <2>4 DEF Agreed
<1> QED BY <1>3, <1>4 DEF RevealInv

LEMMA WriteRFKeeps == ASSUME RevealInv, NEW r \in Reveals, WriteRF(r) PROVE RevealInv'
<1>0. RevealShape /\ reveals[r] \in Handlings /\ IsInjective(reveals[r].ordered)
  BY DEF RevealInv, RevealShape
<1>1. /\ reveals[r].step = "write_rf"
      /\ UNCHANGED <<dpPhones, shown, added, manual, touched, blind>>
  BY DEF WriteRF, Quiet
<1>2. broken' \in 0 .. MaxBroken
  BY <1>0, BrokenRange DEF WriteRF
<1>3. ~raced => Knows(reveals[r], rfPhones, dpPhones)
  BY DEF RevealInv
<1> DEFINE order == reveals[r].ordered
           v == [reveals[r] EXCEPT !.step = "write_dp"]
           w == [reveals[r] EXCEPT !.step = "write_dp", !.rfFailed = TRUE]
<1>4. /\ v \in Handlings /\ v.step = "write_dp" /\ v.rf = reveals[r].rf /\ v.dp = reveals[r].dp
      /\ v.ordered = order /\ v.sawDp = reveals[r].sawDp
      /\ w \in Handlings /\ w.step = "write_dp" /\ w.rf = reveals[r].rf /\ w.dp = reveals[r].dp
      /\ w.ordered = order /\ w.sawDp = reveals[r].sawDp /\ w.rfFailed = TRUE
  BY <1>0 DEF Handlings, RevealSteps
<1>5. /\ Goto(r, "write_dp") <=> reveals' = [reveals EXCEPT ![r] = v]
      /\ reveals' = [reveals EXCEPT ![r].step = "write_dp", ![r].rfFailed = TRUE] <=> reveals' = [reveals EXCEPT ![r] = w]
  BY <1>0 DEF Goto, RevealShape
<1>6. order \in Phones
  BY <1>0 DEF Handlings
<1>7. StaysHalf(r, v) /\ StaysHalf(r, w)
  BY <1>1 DEF StaysHalf, HalfWritten
<1> HIDE DEF v, w
<1>8. /\ reveals' = [reveals EXCEPT ![r] = v] => Handles(r, v)
      /\ reveals' = [reveals EXCEPT ![r] = w] => Handles(r, w)
  BY <1>0, <1>4 DEF Handles
<1>9. CASE Differs(r, reveals[r].rf) /\ rfPhones' = order /\ Writes(Reveals \ {r}) /\ Goto(r, "write_dp") /\ UNCHANGED broken
  <2>1. Handles(r, v) /\ order # <<>>
    BY <1>5, <1>8, <1>9 DEF Differs, Ordered
  <2>2. ~raced => Knows(v, rfPhones', dpPhones')
    BY <1>1, <1>3, <1>4, <1>9 DEF Knows
  <2>3. ~raced => Range(rfPhones) \subseteq Range(rfPhones')
    BY <1>1, <1>3, <1>9 DEF Knows
  <2>4. ~raced => NumbersKept'
    <3>1. ~raced => NumbersKept
      BY DEF RevealInv
    <3> QED BY <1>1, <2>3, <3>1 DEF NumbersKept
  <2>5. rfPhones' \in Phones /\ (dpPhones' = NoContact \/ dpPhones' \in Phones) /\ blind' \in BOOLEAN
    BY <1>0, <1>1, <1>6, <1>9 DEF RevealShape
  <2> QED BY <1>1, <1>4, <1>9, <2>1, <2>2, <2>3, <2>4, <2>5, WritingKeeps
<1>10. CASE ~Differs(r, reveals[r].rf) /\ UNCHANGED <<rfPhones, raced>> /\ Goto(r, "write_dp")
  <2>1. ~raced => Knows(v, rfPhones, dpPhones)
    BY <1>1, <1>3, <1>4, <1>10 DEF Knows, Differs, Ordered
  <2>2. Handles(r, v)
    BY <1>5, <1>8, <1>10
  <2> QED BY <1>1, <1>2, <1>7, <1>10, <2>1, <2>2, ReadingKeeps
<1>11. CASE reveals' = [reveals EXCEPT ![r].step = "write_dp", ![r].rfFailed = TRUE] /\ UNCHANGED <<rfPhones, raced>>
  <2>1. ~raced => Knows(w, rfPhones, dpPhones)
    BY <1>1, <1>3, <1>4 DEF Knows
  <2>2. Handles(r, w)
    BY <1>5, <1>8, <1>11
  <2> QED BY <1>1, <1>2, <1>7, <1>11, <2>1, <2>2, ReadingKeeps
<1> QED BY <1>9, <1>10, <1>11 DEF WriteRF, Ordered

LEMMA WriteDialpadKeeps == ASSUME RevealInv, NEW r \in Reveals, WriteDialpad(r) PROVE RevealInv'
<1>0. RevealShape /\ reveals[r] \in Handlings /\ IsInjective(reveals[r].ordered)
  BY DEF RevealInv, RevealShape
<1>1. /\ reveals[r].step = "write_dp"
      /\ UNCHANGED <<rfPhones, shown, added, manual, touched>>
  BY DEF WriteDialpad
<1>2. broken' \in 0 .. MaxBroken
  BY <1>0, BrokenRange DEF WriteDialpad
<1>3. ~raced => Knows(reveals[r], rfPhones, dpPhones)
  BY DEF RevealInv
<1> DEFINE order == reveals[r].ordered
           v == [reveals[r] EXCEPT !.step = "cache"]
           w == [reveals[r] EXCEPT !.step = "cache", !.dpFailed = TRUE]
<1>4. /\ v \in Handlings /\ v.step = "cache" /\ v.ordered = order /\ v.rfFailed = reveals[r].rfFailed
      /\ w \in Handlings /\ w.step = "cache" /\ w.ordered = order /\ w.rfFailed = reveals[r].rfFailed
      /\ w.dpFailed = TRUE
  BY <1>0 DEF Handlings, RevealSteps
<1>5. /\ Goto(r, "cache") <=> reveals' = [reveals EXCEPT ![r] = v]
      /\ reveals' = [reveals EXCEPT ![r].step = "cache", ![r].dpFailed = TRUE] <=> reveals' = [reveals EXCEPT ![r] = w]
  BY <1>0 DEF Goto, RevealShape
<1>6. order \in Phones
  BY <1>0 DEF Handlings
<1> HIDE DEF v, w
<1>7. StaysHalf(r, v) /\ StaysHalf(r, w)
  BY <1>4 DEF StaysHalf, Ordered
<1>8. /\ reveals' = [reveals EXCEPT ![r] = v] => Handles(r, v)
      /\ reveals' = [reveals EXCEPT ![r] = w] => Handles(r, w)
  BY <1>0, <1>4 DEF Handles
<1>9. CASE /\ Differs(r, reveals[r].dp) /\ dpPhones # NoContact /\ dpPhones' = order /\ Writes(Reveals \ {r})
           /\ blind' = (blind \/ ~reveals[r].sawDp) /\ Goto(r, "cache") /\ UNCHANGED broken
  <2>1. Handles(r, v) /\ order # <<>>
    BY <1>5, <1>8, <1>9 DEF Differs, Ordered
  <2>2. ~raced => Knows(v, rfPhones', dpPhones')
    BY <1>1, <1>3, <1>4, <1>9 DEF Knows
  <2>3. Range(rfPhones) \subseteq Range(rfPhones')
    BY <1>1
  <2>4. ~raced => NumbersKept'
    <3>1. ~raced => NumbersKept
      BY DEF RevealInv
    <3>2. ~raced /\ reveals[r].sawDp => Range(dpPhones) \subseteq Range(dpPhones')
      BY <1>1, <1>3, <1>9 DEF Knows, DpAsRead
    <3>3. ~blind' => ~blind /\ reveals[r].sawDp
      BY <1>9
    <3> QED BY <1>1, <3>1, <3>2, <3>3 DEF NumbersKept
  <2>5. rfPhones' \in Phones /\ dpPhones' \in Phones
    BY <1>0, <1>1, <1>6, <1>9 DEF RevealShape
  <2>6. blind' \in BOOLEAN
    BY <1>0, <1>9 DEF RevealShape, Handlings
  <2> QED BY <1>1, <1>4, <1>9, <2>1, <2>2, <2>3, <2>4, <2>5, <2>6, WritingKeeps
<1>10. CASE ~Differs(r, reveals[r].dp) /\ Goto(r, "cache") /\ UNCHANGED <<dpPhones, raced, blind, broken>>
  <2>1. ~raced => Knows(v, rfPhones, dpPhones)
    BY <1>1, <1>3, <1>4, <1>10 DEF Knows, Differs, Ordered, DpAsRead
  <2>2. Handles(r, v)
    BY <1>5, <1>8, <1>10
  <2> QED BY <1>1, <1>2, <1>7, <1>10, <2>1, <2>2, ReadingKeeps
<1>11. CASE /\ reveals' = [reveals EXCEPT ![r].step = "cache", ![r].dpFailed = TRUE]
            /\ UNCHANGED <<dpPhones, raced, blind>>
  <2>1. ~raced => Knows(w, rfPhones, dpPhones)
    BY <1>1, <1>3, <1>4 DEF Knows
  <2>2. Handles(r, w)
    BY <1>5, <1>8, <1>11
  <2> QED BY <1>1, <1>2, <1>7, <1>11, <2>1, <2>2, ReadingKeeps
<1> QED BY <1>9, <1>10, <1>11 DEF WriteDialpad, Ordered

LEMMA RefreshKeeps == ASSUME RevealInv, NEW r \in Reveals, RefreshCache(r) PROVE RevealInv'
<1> DEFINE order == reveals[r].ordered
           answer == Answer(r)
           v == [Waiting EXCEPT !.step = answer]
<1>0. RevealShape /\ reveals[r] \in Handlings
  BY DEF RevealInv, RevealShape
<1>1. /\ reveals[r].step = "cache" /\ reveals' = [reveals EXCEPT ![r] = v]
      /\ shown' = IF reveals[r].rfFailed \/ order = <<>> THEN shown ELSE <<order[1]>>
      /\ touched' = (answer = "failed" \/ (touched /\ order = <<>>))
      /\ UNCHANGED <<rfPhones, dpPhones, added, broken, manual, raced, blind>>
  BY DEF RefreshCache, Ordered
<1>2. /\ answer \in {"failed", "ok"} /\ answer \in RevealSteps
      /\ answer = "ok" => ~reveals[r].rfFailed /\ ~reveals[r].dpFailed
  BY DEF Answer, RevealSteps
<1> HIDE DEF answer
<1>3. v \in Handlings /\ v.step = answer /\ v.ordered = <<>>
  BY <1>2, WaitingIs
<1> HIDE DEF v
<1>4. Handles(r, v)
  BY <1>1, <1>3, EmptyList DEF Handles
<1>5. /\ reveals' \in [Reveals -> Handlings]
      /\ \A q \in Reveals : IsInjective(reveals'[q].ordered)
      /\ reveals'[r] = v /\ \A q \in Reveals \ {r} : reveals'[q] = reveals[q]
  BY <1>0, <1>4, HandlesIs
<1>6. order \in Phones
  BY <1>0 DEF Handlings
<1> HIDE DEF order
<1>7. order # <<>> => order[1] \in Range(order) /\ <<order[1]>> \in Phones /\ Range(<<order[1]>>) = {order[1]}
  <2>1. order # <<>> => 1 \in DOMAIN order /\ order[1] \in Numbers
    BY <1>6 DEF Phones
  <2>2. \A n \in Numbers : <<n>> \in Phones /\ Range(<<n>>) = {n}
    BY DEF Phones, Range
  <2> QED BY <2>1, <2>2 DEF Range
<1>8. RevealShape'
  <2>1. shown' \in Phones
    BY <1>0, <1>1, <1>7 DEF RevealShape
  <2>2. touched' \in BOOLEAN
    BY <1>0, <1>1 DEF RevealShape
  <2> QED BY <1>0, <1>1, <1>5, <2>1, <2>2 DEF RevealShape
<1>9. ASSUME ~raced'
      PROVE  /\ \A q \in Reveals : Knows(reveals'[q], rfPhones', dpPhones')
             /\ Agreed' /\ NumbersKept' /\ Range(shown') \subseteq Range(rfPhones')
  <2>1. /\ ~raced /\ \A q \in Reveals : Knows(reveals[q], rfPhones, dpPhones)
        /\ Agreed /\ NumbersKept /\ Range(shown) \subseteq Range(rfPhones)
    BY <1>1, <1>9 DEF RevealInv
  <2>2. /\ reveals[r].rfFailed \/ order = <<>> \/ rfPhones = order
        /\ reveals[r].dpFailed \/ order = <<>> \/ dpPhones = order
    BY <1>1, <2>1 DEF Knows, order
  <2>3. \A q \in Reveals : Knows(reveals'[q], rfPhones, dpPhones)
    <3>1. Knows(v, rfPhones, dpPhones)
      BY <1>2, <1>3 DEF Knows
    <3> QED BY <1>5, <2>1, <3>1
  <2>4. NumbersKept'
    BY <1>1, <2>1 DEF NumbersKept
  <2>5. Range(shown') \subseteq Range(rfPhones')
    BY <1>1, <1>7, <2>1, <2>2
  <2>6. Agreed'
    <3> SUFFICES ASSUME ~touched'
                 PROVE  rfPhones' = dpPhones' \/ \E q \in Reveals : HalfWritten(q)' /\ Ordered(q)' # <<>>
      BY DEF Agreed
    <3>1. answer = "ok" /\ (~touched \/ order # <<>>)
      BY <1>1, <1>2
    <3>2. CASE order # <<>>
      BY <1>1, <1>2, <2>2, <3>1, <3>2
    <3>3. CASE order = <<>>
      <4>1. rfPhones = dpPhones \/ \E q \in Reveals : HalfWritten(q) /\ Ordered(q) # <<>>
        BY <2>1, <3>1, <3>3 DEF Agreed
      <4>2. \A q \in Reveals : HalfWritten(q) /\ Ordered(q) # <<>> => HalfWritten(q)' /\ Ordered(q)' # <<>>
        BY <1>5, <3>3 DEF HalfWritten, Ordered, order
      <4> QED BY <1>1, <4>1, <4>2
    <3> QED BY <3>2, <3>3
  <2> QED BY <1>1, <2>3, <2>4, <2>5, <2>6
<1> QED BY <1>8, <1>9 DEF RevealInv

LEMMA RevealKept == RevealInv /\ [RevealNext]_revealVars => RevealInv'
<1> SUFFICES ASSUME RevealInv, [RevealNext]_revealVars PROVE RevealInv'
  OBVIOUS
<1>1. CASE UNCHANGED revealVars
  <2>1. RevealShape'
    BY <1>1 DEF revealVars, RevealInv, RevealShape
  <2>2. ~raced => /\ \A r \in Reveals : Knows(reveals'[r], rfPhones', dpPhones')
                  /\ Agreed' /\ NumbersKept' /\ Range(shown') \subseteq Range(rfPhones')
    BY <1>1 DEF revealVars, RevealInv, Agreed, NumbersKept, HalfWritten, Ordered
  <2> QED BY <1>1, <2>1, <2>2 DEF revealVars, RevealInv
<1> QED
  BY <1>1, AddsKeep, ContactKeeps, DeliversKeeps, GetRFKeeps, GetDialpadKeeps, WriteRFKeeps,
     WriteDialpadKeeps, RefreshKeeps DEF RevealNext, Delivery

(* Once a reveal was answered 200 both systems have one list, and no recruiter's number is lost. *)
THEOREM ListsMerge == RevealSpec => [](RevealsMerge /\ RevealTypeOK)
<1>1. RevealInit => RevealInv
  BY RevealStarts
<1>2. RevealInv /\ [RevealNext]_revealVars => RevealInv'
  BY RevealKept
<1>3. RevealInv => RevealsMerge /\ RevealTypeOK
  BY RevealImplies
<1> QED BY <1>1, <1>2, <1>3, PTL DEF RevealSpec

-----------------------------------------------------------------------------
(* CandidateIndex: the keys. *)

CacheCalls == Caches \cup Bookings
NameTargets == Namesakes \cup {AMBIGUOUS, "nobody"}
Keys == [to : NameTargets, left : 0 .. Life]
CachingCalls ==
    [step : {"idle", "name", "put", "named"}, of : Namesakes \cup {"nobody"}, emails : SUBSET Addresses,
     existing : NameTargets, landed : BOOLEAN, failed : BOOLEAN]
Events ==
    [step : {"lookup", "skipped", "get", "update", "done"}, to : Namesakes \cup {"nobody"},
     read : SUBSET Addresses]

KeyShape(key) == key \in Keys /\ (key.to = "nobody" <=> key.left = 0)
Claimed(c) == had[c] \cup refused[c]
ClaimedNext(c) == had'[c] \cup refused'[c]

IndexShape ==
    /\ {emails, had, refused} \subseteq [Namesakes -> SUBSET Addresses]
    /\ \A c, d \in Namesakes : c # d => emails[c] \cap emails[d] = {}
    /\ \A c \in Namesakes : emails[c] \subseteq had[c]
    /\ canonical \in [Namesakes -> 0 .. Life]
    /\ emailKey \in [Addresses -> Keys] /\ KeyShape(nameKey)
    /\ \A e \in Addresses : emailKey[e].to # AMBIGUOUS
    /\ caching \in [CacheCalls -> CachingCalls]
    /\ bookings \in [Bookings -> Events]
    /\ lapsed \in BOOLEAN
    /\ \A k \in CacheCalls : caching[k].step # "idle" => caching[k].of \in Namesakes
    /\ \A k \in CacheCalls : caching[k].step \in {"idle", "name", "put"} \/ ~caching[k].landed
    /\ \A b \in Bookings : bookings[b].step \in {"get", "update"} => bookings[b].to \in Namesakes
    /\ \A b \in Bookings : bookings[b].step \in {"lookup", "skipped", "update"} => caching[b].step = "idle"
    /\ unnamed \subseteq Namesakes /\ indexFaults \in 0 .. MaxIndexFaults

\* What a call or a booking has of a candidate's emails is the candidate's.
EmailsTrue ==
    /\ \A k \in CacheCalls : caching[k].step # "idle" => caching[k].emails \subseteq Claimed(caching[k].of)
    /\ \A b \in Bookings : bookings[b].step = "update" => bookings[b].read \subseteq had[bookings[b].to]
    /\ \A e \in Addresses : emailKey[e].to \in Namesakes => e \in Claimed(emailKey[e].to)

\* A call for d that has yet to say so in the name's key.
ToBeNamed(d) == \E k \in CacheCalls : caching[k].step \in {"name", "put"} /\ caching[k].of = d
\* It is cached, or about to be, and the name's key was put.
Known(d) == canonical[d] > 0 \/ \E k \in CacheCalls : caching[k].step = "named" /\ caching[k].of = d
NameTrue ==
    lapsed \/ \A d \in Namesakes \ unnamed : Known(d) => nameKey.to \in {d, AMBIGUOUS} \/ ToBeNamed(d)

IndexInv == IndexShape /\ EmailsTrue /\ NameTrue

-----------------------------------------------------------------------------
LEMMA IndexImplies == IndexInv => IndexTypeOK /\ KeysAreTrue
<1> SUFFICES ASSUME IndexInv PROVE IndexTypeOK /\ KeysAreTrue
  OBVIOUS
<1>1. IndexTypeOK
  BY DEF IndexInv, IndexShape, IndexTypeOK, KeyShape, Keys, NameTargets
<1>2. ASSUME ~lapsed, NEW c \in Namesakes, NEW d \in Namesakes \ unnamed, nameKey.to = c, canonical[d] > 0,
             Settled(d)
      PROVE  d = c
  <2>1. ~ToBeNamed(d)
    BY <1>2 DEF ToBeNamed, Settled, IndexInv, IndexShape
  <2> QED BY <1>2, <2>1, IndexConstants DEF IndexInv, NameTrue, Known, AMBIGUOUS
<1>3. \A e \in Addresses : emailKey[e].to \in Namesakes =>
         e \in had[emailKey[e].to] \cup refused[emailKey[e].to]
  BY DEF IndexInv, EmailsTrue, Claimed
<1> QED BY <1>1, <1>2, <1>3 DEF KeysAreTrue

LEMMA IndexStarts == IndexInit => IndexInv
<1> SUFFICES ASSUME IndexInit PROVE IndexInv
  OBVIOUS
<1>1. NoKey \in Keys /\ KeyShape(NoKey) /\ NoKey.to = "nobody" /\ NoKey.to \notin Namesakes
  BY IndexConstants DEF NoKey, Keys, KeyShape, NameTargets
<1>2. NotCaching \in CachingCalls /\ NotCaching.step = "idle"
  BY DEF NotCaching, CachingCalls, NameTargets
<1>3. NewEvent \in Events /\ NewEvent.step = "lookup"
  BY DEF NewEvent, Events
<1>4. 0 \in 0 .. Life /\ "nobody" # AMBIGUOUS
  BY IndexConstants DEF AMBIGUOUS
<1> HIDE DEF NoKey, NotCaching, NewEvent
<1>5. IndexShape
  <2>1. /\ {emails, had, refused} \subseteq [Namesakes -> SUBSET Addresses]
        /\ \A c, d \in Namesakes : c # d => emails[c] \cap emails[d] = {}
        /\ \A c \in Namesakes : emails[c] \subseteq had[c]
        /\ canonical \in [Namesakes -> 0 .. Life]
    BY <1>4 DEF IndexInit
  <2>2. emailKey \in [Addresses -> Keys] /\ KeyShape(nameKey) /\ \A e \in Addresses : emailKey[e].to # AMBIGUOUS
    BY <1>1, <1>4 DEF IndexInit
  <2>3. /\ caching \in [CacheCalls -> CachingCalls] /\ bookings \in [Bookings -> Events]
        /\ \A k \in CacheCalls : caching[k].step = "idle"
        /\ \A b \in Bookings : bookings[b].step = "lookup"
    BY <1>2, <1>3 DEF IndexInit, CacheCalls
  <2>4. lapsed \in BOOLEAN /\ unnamed \subseteq Namesakes /\ indexFaults \in 0 .. MaxIndexFaults
    <3>1. lapsed \in BOOLEAN
      BY Zenon DEF IndexInit
    <3>2. unnamed \subseteq Namesakes /\ indexFaults \in 0 .. MaxIndexFaults
      BY IndexConstants DEF IndexInit
    <3> QED BY <3>1, <3>2
  <2> QED BY <2>1, <2>2, <2>3, <2>4 DEF IndexShape, CacheCalls
<1>6. EmailsTrue
  BY <1>1, <1>2, <1>3 DEF IndexInit, EmailsTrue, CacheCalls
<1>7. NameTrue
  BY <1>2, IndexConstants DEF IndexInit, NameTrue, Known, CacheCalls
<1> QED BY <1>5, <1>6, <1>7 DEF IndexInv

LEMMA EditsKeep ==
  ASSUME IndexInv, NEW c \in Namesakes, NEW e \in Addresses, EditsEmails(c, e) PROVE IndexInv'
<1>1. /\ {emails, had, refused}' \subseteq [Namesakes -> SUBSET Addresses]
      /\ \A d, f \in Namesakes : d # f => emails'[d] \cap emails'[f] = {}
      /\ \A d \in Namesakes : emails'[d] \subseteq had'[d] /\ had[d] \subseteq had'[d]
  BY DEF EditsEmails, IndexInv, IndexShape
<1>2. UNCHANGED <<canonical, emailKey, nameKey, caching, bookings, indexFaults, refused, lapsed, unnamed>>
  BY DEF EditsEmails
<1>3. IndexShape'
  BY <1>1, <1>2 DEF IndexInv, IndexShape, KeyShape
<1>4. EmailsTrue'
  BY <1>1, <1>2 DEF IndexInv, IndexShape, EmailsTrue, Claimed
<1>5. NameTrue'
  BY <1>2 DEF IndexInv, NameTrue, Known, ToBeNamed
<1> QED BY <1>3, <1>4, <1>5 DEF IndexInv

LEMMA OlderShape ==
  ASSUME NEW key \in Keys
  PROVE  /\ Older(key) \in Keys /\ (KeyShape(key) => KeyShape(Older(key)))
         /\ Older(key).to \in {key.to, "nobody"}
         /\ key.left > 1 => Older(key).to = key.to
<1>1. key.left \in 0 .. Life /\ key.to \in NameTargets
  BY DEF Keys
<1>2. CASE key.left > 1
  <2>1. Older(key) = [key EXCEPT !.left = key.left - 1]
    BY <1>2 DEF Older
  <2>2. key.left - 1 \in 0 .. Life /\ key.left - 1 # 0
    BY <1>1, <1>2, IndexConstants
  <2> QED BY <1>1, <1>2, <2>1, <2>2 DEF Keys, KeyShape
<1>3. CASE ~(key.left > 1)
  BY <1>3, IndexConstants DEF Older, NoKey, Keys, KeyShape, NameTargets
<1> QED BY <1>2, <1>3

LEMMA AgesKeep == ASSUME IndexInv, Ages PROVE IndexInv'
<1>1. /\ UNCHANGED <<emails, caching, bookings, indexFaults, had, refused, unnamed>>
      /\ nameKey' = Older(nameKey) /\ emailKey' = [e \in Addresses |-> Older(emailKey[e])]
      /\ canonical' = [c \in Namesakes |-> IF canonical[c] > 0 THEN canonical[c] - 1 ELSE 0]
      /\ \A k \in CacheCalls : caching[k] = NotCaching
      /\ lapsed' = (lapsed \/ (nameKey.left = 1 /\ \E c \in Namesakes : canonical[c] > 1))
  BY DEF Ages, CacheCalls, IndexInv, IndexShape
<1>2. KeyShape(nameKey) /\ nameKey \in Keys /\ canonical \in [Namesakes -> 0 .. Life]
  BY DEF IndexInv, IndexShape, KeyShape
<1>3. canonical' \in [Namesakes -> 0 .. Life] /\ \A c \in Namesakes : canonical'[c] > 0 => canonical[c] > 1
  BY <1>1, <1>2, IndexConstants
<1>4. IndexShape'
  <2>1. lapsed' \in BOOLEAN
    BY <1>1, Zenon
  <2>2. emailKey' \in [Addresses -> Keys] /\ \A e \in Addresses : emailKey'[e].to # AMBIGUOUS
    BY <1>1, OlderShape DEF IndexInv, IndexShape, AMBIGUOUS
  <2>3. KeyShape(nameKey')
    BY <1>1, <1>2, OlderShape
  <2> QED BY <1>1, <1>3, <2>1, <2>2, <2>3 DEF IndexInv, IndexShape
<1>5. EmailsTrue'
  <2>1. \A e \in Addresses : emailKey'[e].to \in {emailKey[e].to, "nobody"}
    BY <1>1, OlderShape DEF IndexInv, IndexShape
  <2> QED BY <1>1, <2>1, IndexConstants DEF IndexInv, EmailsTrue, Claimed
<1>6. ASSUME ~lapsed', NEW d \in Namesakes \ unnamed', Known(d)' PROVE nameKey'.to \in {d, AMBIGUOUS}
  <2>0. canonical[d] > 1 /\ canonical[d] \in Nat
    BY <1>1, <1>2, <1>3, <1>6 DEF Known, NotCaching
  <2>1. ~lapsed /\ nameKey.left # 1 /\ Known(d)
    <3>1. ~(lapsed \/ (nameKey.left = 1 /\ \E c \in Namesakes : canonical[c] > 1))
      BY <1>1, <1>6, Zenon
    <3>2. Known(d)
      BY <2>0 DEF Known
    <3> QED BY <3>1, <3>2, <2>0, Zenon
  <2>2. ~ToBeNamed(d)
    BY <1>1 DEF ToBeNamed, NotCaching
  <2>3. nameKey.to \in {d, AMBIGUOUS}
    BY <1>1, <1>6, <2>1, <2>2 DEF IndexInv, NameTrue
  <2>4. nameKey.left > 1
    BY <1>2, <2>1, <2>3, IndexConstants DEF KeyShape, Keys, AMBIGUOUS
  <2> QED BY <1>1, <1>2, <2>3, <2>4, OlderShape
<1> QED BY <1>4, <1>5, <1>6 DEF IndexInv, NameTrue

-----------------------------------------------------------------------------
(* The starts of cacheCandidate, by itself or by a booking. *)
LEMMA StartsKeep ==
  ASSUME IndexShape, EmailsTrue, NameTrue, NEW k \in CacheCalls, NEW c \in Namesakes, NEW es \in SUBSET Addresses,
         caching[k].step = "idle", Caching(k, c, es), es \subseteq ClaimedNext(c),
         \A d \in Namesakes : Claimed(d) \subseteq ClaimedNext(d),
         UNCHANGED <<canonical, emailKey, nameKey, lapsed, unnamed>>
  PROVE  /\ caching' \in [CacheCalls -> CachingCalls]
         /\ \A l \in CacheCalls : caching'[l].step # "idle" =>
              caching'[l].of \in Namesakes /\ caching'[l].emails \subseteq ClaimedNext(caching'[l].of)
         /\ \A l \in CacheCalls : caching'[l].step \in {"idle", "name", "put"} \/ ~caching'[l].landed
         /\ \A l \in CacheCalls \ {k} : caching'[l] = caching[l]
         /\ NameTrue'
<1> DEFINE new == [NotCaching EXCEPT !.step = "name", !.of = c, !.emails = es]
<1>1. /\ new \in CachingCalls /\ new.step = "name" /\ new.of = c /\ new.emails = es
      /\ new.landed = FALSE
  BY DEF NotCaching, CachingCalls, NameTargets
<1>2. caching' = [caching EXCEPT ![k] = new]
  BY DEF Caching
<1> HIDE DEF new
<1>3. caching \in [CacheCalls -> CachingCalls]
  BY DEF IndexShape
<1>4. \A d \in Namesakes : (ToBeNamed(d) => ToBeNamed(d)') /\ (Known(d)' => Known(d))
  BY <1>1, <1>2, <1>3 DEF ToBeNamed, Known
<1>5. NameTrue'
  BY <1>4 DEF NameTrue
<1>6. /\ caching' \in [CacheCalls -> CachingCalls]
      /\ \A l \in CacheCalls : caching'[l] = IF l = k THEN new ELSE caching[l]
  BY <1>1, <1>2, <1>3
<1> QED BY <1>1, <1>5, <1>6 DEF IndexShape, EmailsTrue

LEMMA CacheStartsKeeps ==
  ASSUME IndexInv, NEW k \in Caches, NEW c \in Namesakes, CacheStarts(k, c) PROVE IndexInv'
<1>1. /\ caching[k].step = "idle" /\ k \in CacheCalls /\ Caching(k, c, emails[c])
      /\ UNCHANGED <<emails, canonical, emailKey, nameKey, bookings, indexFaults, had, refused, lapsed, unnamed>>
  BY DEF CacheStarts, NotCaching, CacheCalls
<1>2. emails[c] \in SUBSET Addresses /\ emails[c] \subseteq ClaimedNext(c)
      /\ \A d \in Namesakes : Claimed(d) \subseteq ClaimedNext(d)
  BY <1>1 DEF IndexInv, IndexShape, Claimed, ClaimedNext
<1>3. /\ caching' \in [CacheCalls -> CachingCalls]
      /\ \A l \in CacheCalls : caching'[l].step # "idle" =>
           caching'[l].of \in Namesakes /\ caching'[l].emails \subseteq ClaimedNext(caching'[l].of)
      /\ \A l \in CacheCalls : caching'[l].step \in {"idle", "name", "put"} \/ ~caching'[l].landed
      /\ \A l \in CacheCalls \ {k} : caching'[l] = caching[l]
      /\ NameTrue'
  BY <1>1, <1>2, StartsKeep DEF IndexInv
<1>4. IndexShape'
  <2>1. \A b \in Bookings : b \in CacheCalls \ {k}
    BY IndexConstants DEF CacheCalls
  <2> QED BY <1>1, <1>3, <2>1 DEF IndexInv, IndexShape, KeyShape
<1>5. EmailsTrue'
  BY <1>1, <1>3 DEF IndexInv, EmailsTrue, Claimed, ClaimedNext
<1> QED BY <1>3, <1>4, <1>5 DEF IndexInv

(* A call that is under way goes on, is over, or fails with the booking it is of. *)
LEMMA ContinuesKeeps ==
  ASSUME IndexShape, EmailsTrue, NEW k \in CacheCalls, NEW new \in CachingCalls,
         caching[k].step # "idle", Continues(k, new), new.step # "idle", new.of = caching[k].of,
         new.emails \subseteq caching[k].emails
  PROVE  /\ caching' \in [CacheCalls -> CachingCalls] /\ bookings' \in [Bookings -> Events]
         /\ \A l \in CacheCalls : caching'[l].step # "idle" =>
              caching'[l].of \in Namesakes /\ caching'[l].emails \subseteq Claimed(caching'[l].of)
         /\ \A l \in CacheCalls : caching'[l].step \in {"idle", "name", "put"} \/ ~caching'[l].landed
         /\ \A b \in Bookings : bookings'[b].step \in {"get", "update"} => bookings'[b].to \in Namesakes
         /\ \A b \in Bookings : bookings'[b].step \in {"lookup", "skipped", "update"} => caching'[b].step = "idle"
         /\ \A b \in Bookings : bookings'[b].step = "update" => bookings'[b].read \subseteq had[bookings'[b].to]
         /\ \A l \in CacheCalls \ {k} : caching'[l] = caching[l]
         /\ caching'[k] = new \/ (caching'[k].step = "idle" /\ new.step = "named")
<1> DEFINE over == new.step = "named" /\ new.landed
           next == IF over THEN NotCaching ELSE new
           fails == over /\ new.failed /\ k \in Bookings
<1>1. caching \in [CacheCalls -> CachingCalls] /\ bookings \in [Bookings -> Events]
  BY DEF IndexShape
<1>2. NotCaching \in CachingCalls /\ NotCaching.step = "idle" /\ NewEvent \in Events /\ NewEvent.step = "lookup"
  BY DEF NotCaching, CachingCalls, NameTargets, NewEvent, Events
<1>3. /\ caching' = [caching EXCEPT ![k] = next]
      /\ bookings' = IF fails THEN [bookings EXCEPT ![k] = NewEvent] ELSE bookings
  BY DEF Continues
<1>4. /\ next \in CachingCalls
      /\ next = new \/ (next.step = "idle" /\ new.step = "named")
      /\ next.step \in {"idle", "name", "put"} \/ ~next.landed
      /\ fails => next.step = "idle"
  BY <1>2 DEF CachingCalls
<1> HIDE DEF next, fails
<1>5. /\ caching' \in [CacheCalls -> CachingCalls]
      /\ \A l \in CacheCalls : caching'[l] = IF l = k THEN next ELSE caching[l]
  BY <1>1, <1>3, <1>4
<1>6. /\ bookings' \in [Bookings -> Events]
      /\ \A b \in Bookings : bookings'[b] = IF b = k /\ fails THEN NewEvent ELSE bookings[b]
  BY <1>1, <1>2, <1>3
<1>7. caching[k].of \in Namesakes /\ caching[k].emails \subseteq Claimed(caching[k].of)
  BY DEF IndexShape, EmailsTrue
<1>8. \A b \in Bookings : bookings'[b].step \in {"lookup", "skipped", "update"} => caching'[b].step = "idle"
  BY <1>2, <1>4, <1>5, <1>6 DEF IndexShape, CacheCalls
<1>9. /\ \A b \in Bookings : bookings'[b].step \in {"get", "update"} => bookings'[b].to \in Namesakes
      /\ \A b \in Bookings : bookings'[b].step = "update" => bookings'[b].read \subseteq had[bookings'[b].to]
  BY <1>2, <1>6 DEF IndexShape, EmailsTrue
<1>10. \A l \in CacheCalls : caching'[l].step # "idle" =>
         caching'[l].of \in Namesakes /\ caching'[l].emails \subseteq Claimed(caching'[l].of)
  BY <1>4, <1>5, <1>7 DEF IndexShape, EmailsTrue
<1>11. \A l \in CacheCalls : caching'[l].step \in {"idle", "name", "put"} \/ ~caching'[l].landed
  BY <1>4, <1>5 DEF IndexShape
<1> QED BY <1>4, <1>5, <1>6, <1>8, <1>9, <1>10, <1>11

LEMMA FaultsBounded ==
  ASSUME IndexShape, KVFails \/ UNCHANGED indexFaults PROVE indexFaults' \in 0 .. MaxIndexFaults
BY IndexConstants DEF IndexShape, KVFails

LEMMA ReadsNameKeeps == ASSUME IndexInv, NEW k \in CacheCalls, ReadsName(k) PROVE IndexInv'
<1> DEFINE c == caching[k]
<1>0. /\ c \in CachingCalls /\ c.step = "name" /\ c.of \in Namesakes /\ nameKey.to \in NameTargets
  BY DEF ReadsName, IndexInv, IndexShape, KeyShape, Keys
<1>1. UNCHANGED <<emails, canonical, emailKey, nameKey, had, refused, lapsed>>
  BY DEF ReadsName
<1>2. PICK new \in CachingCalls :
        /\ Continues(k, new) /\ new.step \in {"put", "named"} /\ new.of = c.of /\ new.emails = c.emails
        /\ \/ new.step = "put" /\ UNCHANGED <<indexFaults, unnamed>>
           \/ KVFails /\ FailsOnName(c.of)
  <2>1. CASE /\ Continues(k, [c EXCEPT !.step = "put", !.existing = nameKey.to])
             /\ UNCHANGED <<indexFaults, unnamed>>
    <3>1. /\ [c EXCEPT !.step = "put", !.existing = nameKey.to] \in CachingCalls
          /\ [c EXCEPT !.step = "put", !.existing = nameKey.to].step = "put"
          /\ [c EXCEPT !.step = "put", !.existing = nameKey.to].of = c.of
          /\ [c EXCEPT !.step = "put", !.existing = nameKey.to].emails = c.emails
      BY <1>0 DEF CachingCalls
    <3> HIDE DEF c
    <3> QED BY <2>1, <3>1
  <2>2. CASE /\ KVFails /\ FailsOnName(c.of)
             /\ Continues(k, [c EXCEPT !.step = "named", !.failed = TRUE])
    <3>1. /\ [c EXCEPT !.step = "named", !.failed = TRUE] \in CachingCalls
          /\ [c EXCEPT !.step = "named", !.failed = TRUE].step = "named"
          /\ [c EXCEPT !.step = "named", !.failed = TRUE].of = c.of
          /\ [c EXCEPT !.step = "named", !.failed = TRUE].emails = c.emails
      BY <1>0 DEF CachingCalls
    <3> HIDE DEF c
    <3> QED BY <2>2, <3>1
  <2> QED BY <2>1, <2>2 DEF ReadsName
<1>3. /\ caching' \in [CacheCalls -> CachingCalls] /\ bookings' \in [Bookings -> Events]
      /\ \A l \in CacheCalls : caching'[l].step # "idle" =>
           caching'[l].of \in Namesakes /\ caching'[l].emails \subseteq Claimed(caching'[l].of)
      /\ \A l \in CacheCalls : caching'[l].step \in {"idle", "name", "put"} \/ ~caching'[l].landed
      /\ \A b \in Bookings : bookings'[b].step \in {"get", "update"} => bookings'[b].to \in Namesakes
      /\ \A b \in Bookings : bookings'[b].step \in {"lookup", "skipped", "update"} => caching'[b].step = "idle"
      /\ \A b \in Bookings : bookings'[b].step = "update" => bookings'[b].read \subseteq had[bookings'[b].to]
      /\ \A l \in CacheCalls \ {k} : caching'[l] = caching[l]
      /\ caching'[k] = new \/ (caching'[k].step = "idle" /\ new.step = "named")
  BY <1>0, <1>2, ContinuesKeeps DEF IndexInv
<1>4. unnamed' \in {unnamed, unnamed \cup {c.of}} /\ indexFaults' \in 0 .. MaxIndexFaults
  BY <1>2, FaultsBounded DEF FailsOnName, IndexInv
<1> HIDE DEF c
<1>5. IndexShape'
  BY <1>0, <1>1, <1>3, <1>4 DEF IndexInv, IndexShape, KeyShape
<1>6. EmailsTrue'
  BY <1>1, <1>3 DEF IndexInv, EmailsTrue, Claimed
<1>7. ASSUME ~lapsed', NEW d \in Namesakes \ unnamed', Known(d)', ~ToBeNamed(d)'
      PROVE  nameKey'.to \in {d, AMBIGUOUS}
  <2>1. CASE d = c.of
    <3>1. new.step # "put"
      BY <1>2, <1>3, <1>7, <2>1 DEF ToBeNamed
    <3>2. FailsOnName(d)
      BY <1>2, <2>1, <3>1
    <3> QED BY <1>1, <1>7, <3>2 DEF FailsOnName
  <2>2. CASE d # c.of
    <3>1. Known(d)
      BY <1>1, <1>2, <1>3, <1>7, <2>2 DEF Known
    <3>2. ~ToBeNamed(d)
      BY <1>3, <1>7, <2>2 DEF ToBeNamed, c
    <3> QED BY <1>1, <1>4, <1>7, <3>1, <3>2 DEF IndexInv, NameTrue
  <2> QED BY <2>1, <2>2
<1> QED BY <1>5, <1>6, <1>7 DEF IndexInv, NameTrue

LEMMA PutsNameKeeps == ASSUME IndexInv, NEW k \in CacheCalls, PutsName(k) PROVE IndexInv'
<1> DEFINE c == caching[k]
           Arrives == nameKey' = NameKeyAfter(c) /\ lapsed' = (lapsed \/ nameKey.to # c.existing)
                      /\ unnamed' = unnamed \ {c.of}
           Fails == FailsOnName(c.of) /\ UNCHANGED <<nameKey, lapsed>>
           after == [c EXCEPT !.step = "named", !.existing = "nobody"]
<1>0. /\ c \in CachingCalls /\ c.step = "put" /\ c.of \in Namesakes /\ KeyShape(nameKey) /\ lapsed \in BOOLEAN
  BY DEF PutsName, IndexInv, IndexShape
<1>1. /\ UNCHANGED <<emails, canonical, emailKey, had, refused>>
      /\ KVFails \/ UNCHANGED indexFaults
      /\ Arrives \/ Fails
      /\ Continues(k, after) \/ Continues(k, [after EXCEPT !.failed = TRUE])
  BY DEF PutsName
<1>2. PICK new \in CachingCalls :
        Continues(k, new) /\ new.step = "named" /\ new.of = c.of /\ new.emails = c.emails
  <2>1. /\ after \in CachingCalls /\ after.step = "named" /\ after.of = c.of /\ after.emails = c.emails
    BY <1>0 DEF CachingCalls, NameTargets
  <2> HIDE DEF after
  <2>2. /\ [after EXCEPT !.failed = TRUE] \in CachingCalls /\ [after EXCEPT !.failed = TRUE].step = "named"
        /\ [after EXCEPT !.failed = TRUE].of = c.of /\ [after EXCEPT !.failed = TRUE].emails = c.emails
    BY <2>1 DEF CachingCalls
  <2> HIDE DEF c
  <2> QED BY <1>1, <2>1, <2>2
<1>3. /\ caching' \in [CacheCalls -> CachingCalls] /\ bookings' \in [Bookings -> Events]
      /\ \A l \in CacheCalls : caching'[l].step # "idle" =>
           caching'[l].of \in Namesakes /\ caching'[l].emails \subseteq Claimed(caching'[l].of)
      /\ \A l \in CacheCalls : caching'[l].step \in {"idle", "name", "put"} \/ ~caching'[l].landed
      /\ \A b \in Bookings : bookings'[b].step \in {"get", "update"} => bookings'[b].to \in Namesakes
      /\ \A b \in Bookings : bookings'[b].step \in {"lookup", "skipped", "update"} => caching'[b].step = "idle"
      /\ \A b \in Bookings : bookings'[b].step = "update" => bookings'[b].read \subseteq had[bookings'[b].to]
      /\ \A l \in CacheCalls \ {k} : caching'[l] = caching[l]
      /\ caching'[k] = new \/ (caching'[k].step = "idle" /\ new.step = "named")
  BY <1>0, <1>2, ContinuesKeeps DEF IndexInv
<1> HIDE DEF c
<1>4. KeyShape(NameKeyAfter(c))
  <2>1. Life \in 0 .. Life /\ Life # 0 /\ c.of # "nobody" /\ AMBIGUOUS # "nobody"
    BY <1>0, IndexConstants DEF AMBIGUOUS
  <2> QED BY <1>0, <2>1 DEF NameKeyAfter, KeyShape, Keys, NameTargets
<1>5. IndexShape'
  <2>1. lapsed' \in BOOLEAN
    <3>1. (lapsed \/ nameKey.to # c.existing) \in BOOLEAN
      BY Zenon
    <3> QED BY <1>0, <1>1, <3>1, Zenon
  <2>2. KeyShape(nameKey')
    BY <1>0, <1>1, <1>4
  <2>3. unnamed' \subseteq Namesakes
    BY <1>0, <1>1 DEF FailsOnName, IndexInv, IndexShape
  <2>4. indexFaults' \in 0 .. MaxIndexFaults
    BY <1>1, FaultsBounded DEF IndexInv
  <2> QED BY <1>1, <1>3, <2>1, <2>2, <2>3, <2>4 DEF IndexInv, IndexShape
<1>6. EmailsTrue'
  BY <1>1, <1>3 DEF IndexInv, EmailsTrue, Claimed
<1>7. ASSUME ~lapsed', NEW d \in Namesakes \ unnamed', Known(d)', ~ToBeNamed(d)'
      PROVE  nameKey'.to \in {d, AMBIGUOUS}
  <2>0. d # c.of => Known(d) /\ ~ToBeNamed(d)
    BY <1>0, <1>1, <1>2, <1>3, <1>7 DEF Known, ToBeNamed, c
  <2>1. CASE Fails
    <3>1. d \notin unnamed
      BY <1>7, <2>1 DEF FailsOnName
    <3>2. d = c.of => nameKey.to \in {d, AMBIGUOUS}
      BY <1>7, <2>1 DEF FailsOnName
    <3> QED BY <1>7, <2>0, <2>1, <3>1, <3>2 DEF IndexInv, NameTrue
  <2>2. CASE Arrives
    <3>1. ~lapsed /\ nameKey.to = c.existing
      BY <1>7, <2>2
    <3>2. d = c.of \/ nameKey.to \in {d, AMBIGUOUS}
      BY <1>7, <2>0, <2>2, <3>1 DEF IndexInv, NameTrue
    <3>4. c.existing = "nobody" => nameKey'.to = c.of
      BY <2>2 DEF NameKeyAfter
    <3>5. c.existing \notin {"nobody", c.of, AMBIGUOUS} => nameKey'.to = AMBIGUOUS
      BY <2>2 DEF NameKeyAfter, Puts
    <3>6. c.existing # "nobody" /\ c.existing \in {c.of, AMBIGUOUS} => nameKey'.to = c.existing
      BY <2>2, <3>1 DEF NameKeyAfter, Puts
    <3>7. d # "nobody" /\ AMBIGUOUS # "nobody" /\ c.of # "nobody"
      BY <1>0, IndexConstants DEF AMBIGUOUS
    <3> QED BY <3>1, <3>2, <3>4, <3>5, <3>6, <3>7
  <2> QED BY <1>1, <2>1, <2>2
<1> QED BY <1>5, <1>6, <1>7 DEF IndexInv, NameTrue

LEMMA PutsRecordKeeps == ASSUME IndexInv, NEW k \in CacheCalls, PutsRecord(k) PROVE IndexInv'
<1> DEFINE c == caching[k]
           after == [c EXCEPT !.landed = TRUE, !.emails = {}]
<1>0. /\ c \in CachingCalls /\ c.step \in {"name", "put", "named"} /\ c.of \in Namesakes
      /\ c.emails \subseteq Claimed(c.of) /\ canonical \in [Namesakes -> 0 .. Life] /\ Life \in 0 .. Life
  BY IndexConstants DEF PutsRecord, IndexInv, IndexShape, EmailsTrue, CachingCalls
<1>1. PICK recorded \in BOOLEAN, es \in SUBSET c.emails :
        /\ canonical' = IF recorded THEN [canonical EXCEPT ![c.of] = Life] ELSE canonical
        /\ emailKey' = [e \in Addresses |->
                          IF e \in es THEN [to |-> c.of, left |-> Life] ELSE emailKey[e]]
        /\ KVFails \/ UNCHANGED indexFaults
        /\ Continues(k, after) \/ Continues(k, [after EXCEPT !.failed = TRUE])
  BY DEF PutsRecord
<1>2. UNCHANGED <<emails, nameKey, had, refused, lapsed, unnamed>>
  BY DEF PutsRecord
<1>3. PICK new \in CachingCalls :
        Continues(k, new) /\ new.step = c.step /\ new.of = c.of /\ new.emails = {}
  <2>1. after \in CachingCalls /\ after.step = c.step /\ after.of = c.of /\ after.emails = {}
    BY <1>0 DEF CachingCalls
  <2> HIDE DEF after
  <2>2. /\ [after EXCEPT !.failed = TRUE] \in CachingCalls /\ [after EXCEPT !.failed = TRUE].step = c.step
        /\ [after EXCEPT !.failed = TRUE].of = c.of /\ [after EXCEPT !.failed = TRUE].emails = {}
    BY <2>1 DEF CachingCalls
  <2> HIDE DEF c
  <2> QED BY <1>1, <2>1, <2>2
<1>4. /\ caching' \in [CacheCalls -> CachingCalls] /\ bookings' \in [Bookings -> Events]
      /\ \A l \in CacheCalls : caching'[l].step # "idle" =>
           caching'[l].of \in Namesakes /\ caching'[l].emails \subseteq Claimed(caching'[l].of)
      /\ \A l \in CacheCalls : caching'[l].step \in {"idle", "name", "put"} \/ ~caching'[l].landed
      /\ \A b \in Bookings : bookings'[b].step \in {"get", "update"} => bookings'[b].to \in Namesakes
      /\ \A b \in Bookings : bookings'[b].step \in {"lookup", "skipped", "update"} => caching'[b].step = "idle"
      /\ \A b \in Bookings : bookings'[b].step = "update" => bookings'[b].read \subseteq had[bookings'[b].to]
      /\ \A l \in CacheCalls \ {k} : caching'[l] = caching[l]
      /\ caching'[k] = new \/ (caching'[k].step = "idle" /\ new.step = "named")
  BY <1>0, <1>3, ContinuesKeeps DEF IndexInv
<1> HIDE DEF c
<1>5. [to |-> c.of, left |-> Life] \in Keys /\ c.of # AMBIGUOUS
  BY <1>0, IndexConstants DEF Keys, NameTargets, AMBIGUOUS
<1>6. /\ canonical' \in [Namesakes -> 0 .. Life]
      /\ \A d \in Namesakes : d # c.of => canonical'[d] = canonical[d]
  BY <1>0, <1>1
<1>7. IndexShape'
  <2>1. emailKey' \in [Addresses -> Keys] /\ \A e \in Addresses : emailKey'[e].to # AMBIGUOUS
    BY <1>1, <1>5 DEF IndexInv, IndexShape
  <2>2. indexFaults' \in 0 .. MaxIndexFaults
    BY <1>1, FaultsBounded DEF IndexInv
  <2> QED BY <1>2, <1>4, <1>6, <2>1, <2>2 DEF IndexInv, IndexShape, KeyShape
<1>8. EmailsTrue'
  <2>1. \A e \in Addresses : emailKey'[e].to \in Namesakes => e \in Claimed(emailKey'[e].to)
    BY <1>0, <1>1 DEF IndexInv, EmailsTrue
  <2> QED BY <1>2, <1>4, <2>1 DEF EmailsTrue, Claimed
<1>9. ASSUME ~lapsed', NEW d \in Namesakes \ unnamed', Known(d)', ~ToBeNamed(d)'
      PROVE  nameKey'.to \in {d, AMBIGUOUS}
  <2>1. ~ToBeNamed(d)
    BY <1>0, <1>3, <1>4, <1>9 DEF ToBeNamed, c
  <2>2. Known(d) \/ d = c.of
    BY <1>3, <1>4, <1>6, <1>9 DEF Known, c
  <2>3. d = c.of => Known(d)
    BY <1>0, <2>1 DEF Known, ToBeNamed, c
  <2> QED BY <1>2, <1>9, <2>1, <2>2, <2>3 DEF IndexInv, NameTrue
<1> QED BY <1>7, <1>8, <1>9 DEF IndexInv, NameTrue

-----------------------------------------------------------------------------
LEMMA FindsByKeyKeeps == ASSUME IndexInv, NEW b \in Bookings, FindsByKey(b) PROVE IndexInv'
<1> DEFINE to == Lookup(b)
           s == IF to = "nobody" THEN "skipped" ELSE "get"
<1>1. /\ bookings[b].step = "lookup" /\ bookings' = [bookings EXCEPT ![b].to = to, ![b].step = s]
      /\ UNCHANGED <<emails, canonical, emailKey, nameKey, caching, indexFaults, had, refused, lapsed, unnamed>>
  BY DEF FindsByKey
<1>2. to \in Namesakes \cup {"nobody"}
  <2>1. /\ Address(b) \in Addresses /\ KeyShape(nameKey)
        /\ emailKey[Address(b)] \in Keys /\ emailKey[Address(b)].to # AMBIGUOUS
    BY IndexConstants DEF IndexInv, IndexShape
  <2> QED BY <2>1 DEF Lookup, KeyShape, Keys, NameTargets
<1> HIDE DEF to
<1>3. bookings' \in [Bookings -> Events] /\ \A f \in Bookings :
        /\ f # b => bookings'[f] = bookings[f]
        /\ f = b => bookings'[f].step = s /\ bookings'[f].to = to
  BY <1>1, <1>2 DEF IndexInv, IndexShape, Events
<1>4. IndexShape'
  BY <1>1, <1>2, <1>3 DEF IndexInv, IndexShape, KeyShape
<1>5. EmailsTrue'
  BY <1>1, <1>3 DEF IndexInv, EmailsTrue, Claimed
<1>6. NameTrue'
  BY <1>1 DEF IndexInv, NameTrue, Known, ToBeNamed
<1> QED BY <1>4, <1>5, <1>6 DEF IndexInv

LEMMA FindsByProfileKeeps == ASSUME IndexInv, NEW b \in Bookings, FindsByProfile(b) PROVE IndexInv'
<1> DEFINE c == Attendee(b)
<1>1. /\ bookings[b].step = "lookup" /\ caching[b].step = "idle"
      /\ bookings' = [bookings EXCEPT ![b].to = c, ![b].step = "get"]
      /\ UNCHANGED caching \/ Caching(b, c, emails[c])
      /\ UNCHANGED <<emails, canonical, emailKey, nameKey, indexFaults, had, refused, lapsed, unnamed>>
  BY DEF FindsByProfile, NotCaching
<1>2. /\ b \in CacheCalls /\ c \in Namesakes
      /\ emails[c] \in SUBSET Addresses /\ emails[c] \subseteq ClaimedNext(c)
      /\ \A d \in Namesakes : Claimed(d) \subseteq ClaimedNext(d)
  BY <1>1, IndexConstants DEF CacheCalls, IndexInv, IndexShape, Claimed, ClaimedNext
<1> HIDE DEF c
<1>3. bookings' \in [Bookings -> Events] /\ \A f \in Bookings :
        /\ f # b => bookings'[f] = bookings[f]
        /\ f = b => bookings'[f].step = "get" /\ bookings'[f].to = c
  BY <1>1, <1>2 DEF IndexInv, IndexShape, Events
<1>4. /\ caching' \in [CacheCalls -> CachingCalls]
      /\ \A l \in CacheCalls : caching'[l].step # "idle" =>
           caching'[l].of \in Namesakes /\ caching'[l].emails \subseteq ClaimedNext(caching'[l].of)
      /\ \A l \in CacheCalls : caching'[l].step \in {"idle", "name", "put"} \/ ~caching'[l].landed
      /\ \A l \in CacheCalls \ {b} : caching'[l] = caching[l]
      /\ NameTrue'
  <2>1. CASE UNCHANGED caching
    BY <1>1, <1>2, <2>1 DEF IndexInv, IndexShape, EmailsTrue, NameTrue, Known, ToBeNamed
  <2>2. CASE Caching(b, c, emails[c])
    BY <1>1, <1>2, <2>2, StartsKeep DEF IndexInv
  <2> QED BY <1>1, <2>1, <2>2
<1>5. IndexShape'
  <2>1. \A f \in Bookings : f # b => f \in CacheCalls \ {b}
    BY DEF CacheCalls
  <2>2. \A f \in Bookings : bookings'[f].step \in {"lookup", "skipped", "update"} => caching'[f].step = "idle"
    BY <1>3, <1>4, <2>1 DEF IndexInv, IndexShape
  <2> QED BY <1>1, <1>2, <1>3, <1>4, <2>2 DEF IndexInv, IndexShape, KeyShape
<1>6. EmailsTrue'
  BY <1>1, <1>3, <1>4 DEF IndexInv, EmailsTrue, Claimed, ClaimedNext
<1> QED BY <1>4, <1>5, <1>6 DEF IndexInv

LEMMA GetsKeeps ==
  ASSUME IndexInv, NEW b \in Bookings, GetsCandidate(b) \/ GetFails(b) PROVE IndexInv'
<1> DEFINE new == IF GetFails(b) THEN NewEvent
                  ELSE [bookings[b] EXCEPT !.read = emails[bookings[b].to], !.step = "update"]
<1>1. /\ bookings[b].step = "get" /\ caching[b].step = "idle" /\ bookings' = [bookings EXCEPT ![b] = new]
      /\ UNCHANGED <<emails, canonical, emailKey, nameKey, caching, indexFaults, had, refused, lapsed, unnamed>>
  <2>1. CASE GetFails(b)
    BY <2>1 DEF GetFails, NotCaching
  <2>2. CASE ~GetFails(b)
    <3>1. GetsCandidate(b)
      BY <2>2
    <3>2. new = [bookings[b] EXCEPT !.read = emails[bookings[b].to], !.step = "update"]
      BY <2>2, Zenon
    <3> HIDE DEF new
    <3>3. [bookings EXCEPT ![b].read = emails[bookings[b].to], ![b].step = "update"]
          = [bookings EXCEPT ![b] = new]
      BY <3>2 DEF IndexInv, IndexShape, Events
    <3> QED BY <3>1, <3>3 DEF GetsCandidate, NotCaching
  <2> QED BY <2>1, <2>2
<1>2. /\ bookings \in [Bookings -> Events] /\ bookings[b].to \in Namesakes
      /\ emails[bookings[b].to] \in SUBSET Addresses
      /\ emails[bookings[b].to] \subseteq had[bookings[b].to]
  BY <1>1 DEF IndexInv, IndexShape
<1>3. /\ new \in Events /\ new.step \in {"lookup", "update"}
      /\ new.step = "update" => new.to \in Namesakes /\ new.read \subseteq had[new.to]
  BY <1>2 DEF Events, NewEvent
<1> HIDE DEF new
<1>4. bookings' \in [Bookings -> Events] /\ \A f \in Bookings :
        bookings'[f] = IF f = b THEN new ELSE bookings[f]
  BY <1>1, <1>2, <1>3
<1>5. IndexShape'
  BY <1>1, <1>3, <1>4 DEF IndexInv, IndexShape, KeyShape
<1>6. EmailsTrue'
  BY <1>1, <1>3, <1>4 DEF IndexInv, EmailsTrue, Claimed
<1>7. NameTrue'
  BY <1>1 DEF IndexInv, NameTrue, Known, ToBeNamed
<1> QED BY <1>5, <1>6, <1>7 DEF IndexInv

LEMMA UpdatesKeep == ASSUME IndexInv, NEW b \in Bookings, UpdatesRF(b) PROVE IndexInv'
<1> DEFINE c == bookings[b].to
           merged == bookings[b].read \cup {Address(b)}
<1>1. /\ bookings[b].step = "update" /\ bookings' = [bookings EXCEPT ![b] = [NewEvent EXCEPT !.step = "done"]]
      /\ Caching(b, c, merged)
      /\ UNCHANGED <<canonical, emailKey, nameKey, indexFaults, lapsed, unnamed>>
  BY DEF UpdatesRF
<1>2. /\ b \in CacheCalls /\ c \in Namesakes /\ caching[b].step = "idle"
      /\ merged \in SUBSET Addresses /\ bookings[b].read \subseteq had[c]
      /\ {emails, had, refused} \subseteq [Namesakes -> SUBSET Addresses]
  BY <1>1, IndexConstants DEF IndexInv, IndexShape, EmailsTrue, CacheCalls, Events
<1>3. bookings' \in [Bookings -> Events] /\ \A f \in Bookings :
        /\ f # b => bookings'[f] = bookings[f]
        /\ f = b => bookings'[f].step = "done"
  BY <1>1 DEF IndexInv, IndexShape, Events, NewEvent
<1>4. /\ {emails', had', refused'} \subseteq [Namesakes -> SUBSET Addresses]
      /\ \A d \in Namesakes : had[d] \subseteq had'[d] /\ refused[d] \subseteq refused'[d]
      /\ \A d \in Namesakes : emails'[d] \subseteq had'[d]
      /\ \A d, f \in Namesakes : d # f => emails'[d] \cap emails'[f] = {}
      /\ merged \subseteq ClaimedNext(c)
  <2> USE <1>2 DEF ClaimedNext
  <2>0. /\ \A d \in Namesakes : emails[d] \subseteq had[d]
        /\ \A d, f \in Namesakes : d # f => emails[d] \cap emails[f] = {}
    BY DEF IndexInv, IndexShape
  <2>1. CASE /\ emails' = [d \in Namesakes |-> IF d = c THEN merged ELSE emails[d] \ merged]
             /\ had' = [had EXCEPT ![c] = @ \cup merged] /\ UNCHANGED refused
    <3>0. merged \in SUBSET Addresses /\ c \in Namesakes
      BY <1>2
    <3> HIDE DEF c, merged
    <3>1. {emails', had', refused'} \subseteq [Namesakes -> SUBSET Addresses]
      BY <2>1
    <3>2. \A d \in Namesakes : had'[d] = IF d = c THEN had[d] \cup merged ELSE had[d]
      BY <2>1
    <3>3. \A d \in Namesakes : emails'[d] = IF d = c THEN merged ELSE emails[d] \ merged
      BY <2>1
    <3>4. UNCHANGED refused
      BY <2>1
    <3> QED BY <2>0, <3>0, <3>1, <3>2, <3>3, <3>4
  <2>2. CASE /\ refused' = [refused EXCEPT ![c] = @ \cup {Address(b)}]
             /\ UNCHANGED <<emails, had>>
    <3>1. Address(b) \in Addresses
      BY IndexConstants
    <3>2. {emails', had', refused'} \subseteq [Namesakes -> SUBSET Addresses]
      BY <2>2, <3>1
    <3> QED BY <2>0, <2>2, <3>2
  <2>3. CASE Address(b) \in bookings[b].read /\ UNCHANGED <<emails, had, refused>>
    BY <2>0, <2>3
  <2> QED BY <2>1, <2>2, <2>3 DEF UpdatesRF
<1> HIDE DEF c, merged
<1>5. \A d \in Namesakes : Claimed(d) \subseteq ClaimedNext(d)
  BY <1>4 DEF Claimed, ClaimedNext
<1>6. /\ caching' \in [CacheCalls -> CachingCalls]
      /\ \A l \in CacheCalls : caching'[l].step # "idle" =>
           caching'[l].of \in Namesakes /\ caching'[l].emails \subseteq ClaimedNext(caching'[l].of)
      /\ \A l \in CacheCalls : caching'[l].step \in {"idle", "name", "put"} \/ ~caching'[l].landed
      /\ \A l \in CacheCalls \ {b} : caching'[l] = caching[l]
      /\ NameTrue'
  BY <1>1, <1>2, <1>4, <1>5, StartsKeep DEF IndexInv
<1>7. IndexShape'
  <2>1. \A f \in Bookings : f # b => f \in CacheCalls \ {b}
    BY DEF CacheCalls
  <2>2. \A f \in Bookings : bookings'[f].step \in {"lookup", "skipped", "update"} => caching'[f].step = "idle"
    BY <1>3, <1>6, <2>1 DEF IndexInv, IndexShape
  <2> QED BY <1>1, <1>3, <1>4, <1>6, <2>2 DEF IndexInv, IndexShape, KeyShape
<1>8. EmailsTrue'
  <2>1. \A f \in Bookings : bookings'[f].step = "update" => bookings'[f].read \subseteq had'[bookings'[f].to]
    BY <1>3, <1>4 DEF IndexInv, IndexShape, EmailsTrue
  <2>2. \A e \in Addresses : emailKey'[e].to \in Namesakes => e \in ClaimedNext(emailKey'[e].to)
    BY <1>1, <1>5 DEF IndexInv, EmailsTrue
  <2> QED BY <1>6, <2>1, <2>2 DEF EmailsTrue, Claimed, ClaimedNext
<1> QED BY <1>6, <1>7, <1>8 DEF IndexInv

LEMMA IndexKept == IndexInv /\ [IndexNext]_indexVars => IndexInv'
<1> SUFFICES ASSUME IndexInv, [IndexNext]_indexVars PROVE IndexInv'
  OBVIOUS
<1>1. CASE UNCHANGED indexVars
  BY <1>1 DEF indexVars, IndexInv, IndexShape, EmailsTrue, Claimed, NameTrue, Known, ToBeNamed, KeyShape
<1>2. CASE IndexNext
  BY <1>2, EditsKeep, AgesKeep, CacheStartsKeeps, ReadsNameKeeps, PutsNameKeeps, PutsRecordKeeps,
     FindsByKeyKeeps, FindsByProfileKeeps, GetsKeeps, UpdatesKeep DEF IndexNext, CacheCalls
<1> QED BY <1>1, <1>2

(* cache.js:12, calendar-webhook.js:227: a name leads to a candidate only while no *)
(* namesake is cached, and an email to one that has or had it, but for the         *)
(* exceptions that KeysAreTrue names.                                              *)
THEOREM KeysStayTrue == IndexSpec => [](KeysAreTrue /\ IndexTypeOK)
BY IndexImplies, IndexStarts, IndexKept, PTL DEF IndexSpec

-----------------------------------------------------------------------------
(* CandidateIntake: what a number costs, and the records of a batch. *)

WorkSteps ==
    {"idle", "add", "contact", "patch", "create", "sent", "flag", "look", "reveal", "put", "done", "error"}
Intakes ==
    [step : WorkSteps, new : BOOLEAN, paid : 0 .. NotPaid, met : SUBSET Works, failed : BOOLEAN]

\* It has bought the number, or may still.
Hot(r) == r.step \in {"look", "reveal", "put"} \/ r.paid < Cooldown
\* It adds the record.
Making(r) == r.new /\ r.step = "create"

IntakeShape ==
    /\ inRF \in BOOLEAN /\ whole \in BOOLEAN /\ contact \in BOOLEAN
    /\ linkedinKey \in {"nobody", "another", "this"}
    /\ attempted \in 0 .. Cooldown
    /\ intakes \in [Works -> Intakes]

\* What a work's step and history say of the record it works on.
WorkTrue(w, r) ==
    /\ r.step \notin {"idle", "add", "error"} => inRF
    /\ r.paid < Cooldown => r.step \in {"put", "done"}
    /\ r.new => inRF /\ r.step \in {"create", "look", "reveal", "put", "done", "error"}
    /\ r.step = "patch" => contact
    /\ r.step \in {"flag", "look", "reveal", "put", "done"} /\ whole => contact
    /\ w \in Adds /\ r.step = "error" => r.failed
    /\ r.step = "done" /\ r.paid < Cooldown /\ w \notin lostFlags => attempted + r.paid >= Cooldown

\* The profile's key leads to the record, or RF's webhook has yet to put it.
KeyTrue(w, r) ==
    w \in Adds /\ ~r.failed =>
        /\ r.step \notin {"idle", "add"} => linkedinKey = "this" \/ intakes[Created].step = "sent"
        /\ r.step = "add" /\ inRF => intakes[Created].step # "idle"

OneNew == \A v, w \in Works : intakes[v].new /\ intakes[w].new => v = w
HookTrue == intakes[Created].step \notin {"idle", "sent"} => linkedinKey = "this"
MetInTime ==
    /\ \A v, w \in Works : v # w /\ Hot(intakes[v]) /\ Hot(intakes[w]) =>
         Overlapped(v, w) \/ {v, w} \cap lostFlags # {}
    /\ \A v, w \in Works : v # w /\ Hot(intakes[v]) /\ Making(intakes[w]) => w \in intakes[v].met

IntakeInv ==
    /\ IntakeShape /\ OneNew /\ HookTrue /\ MetInTime
    /\ \A w \in Works : WorkTrue(w, intakes[w]) /\ KeyTrue(w, intakes[w])

-----------------------------------------------------------------------------
LEMMA WorksAre == Created \in Works /\ Created \notin Adds /\ Adds \subseteq Works /\ Cooldown \in Nat
BY IntakeConstants DEF Works, Created

LEMMA IntakeImplies == IntakeInv => IntakeTypeOK /\ PaidTwiceOnlyTogether /\ AddsAgree
<1> SUFFICES ASSUME IntakeInv PROVE IntakeTypeOK /\ PaidTwiceOnlyTogether /\ AddsAgree
  OBVIOUS
<1>1. IntakeTypeOK
  <2>1. {inRF, whole, contact} \subseteq BOOLEAN
    BY Zenon DEF IntakeInv, IntakeShape
  <2> QED BY <2>1 DEF IntakeInv, IntakeShape, IntakeTypeOK, Intakes
<1>2. PaidTwiceOnlyTogether
  BY DEF IntakeInv, MetInTime, PaidTwiceOnlyTogether, Hot
<1>3. AddsAgree
  <2> SUFFICES ASSUME NEW a \in Adds, Ended(a), intakes[Created].step \in {"idle", "done"}, ~intakes[a].failed
               PROVE  intakes[a].step = "done" /\ inRF /\ linkedinKey = "this" /\ (whole => contact)
    BY DEF AddsAgree
  <2>1. WorkTrue(a, intakes[a]) /\ KeyTrue(a, intakes[a])
    BY WorksAre DEF IntakeInv
  <2> QED BY <2>1 DEF WorkTrue, KeyTrue, Ended
<1> QED BY <1>1, <1>2, <1>3

LEMMA IntakeStarts == IntakeInit => IntakeInv
<1> SUFFICES ASSUME IntakeInit PROVE IntakeInv
  OBVIOUS
<1>1. Fresh \in Intakes /\ Fresh.step = "idle" /\ Fresh.paid = NotPaid /\ Fresh.new = FALSE
  BY WorksAre DEF Fresh, Intakes, WorkSteps, NotPaid
<1>2. intakes \in [Works -> Intakes] /\ \A w \in Works : intakes[w] = Fresh
  BY <1>1 DEF IntakeInit
<1>3. ~(NotPaid < Cooldown)
  BY WorksAre DEF NotPaid
<1>4. \A w \in Works : ~Hot(intakes[w]) /\ ~Making(intakes[w])
  BY <1>1, <1>2, <1>3 DEF Hot, Making
<1> HIDE DEF Fresh
<1>5. \A w \in Works : WorkTrue(w, intakes[w]) /\ KeyTrue(w, intakes[w])
  BY <1>1, <1>2, <1>3 DEF WorkTrue, KeyTrue
<1>6. IntakeShape
  BY <1>2, WorksAre DEF IntakeInit, IntakeShape
<1>7. OneNew /\ HookTrue /\ MetInTime
  BY <1>1, <1>2, <1>4, WorksAre DEF OneNew, HookTrue, MetInTime
<1> QED BY <1>5, <1>6, <1>7 DEF IntakeInv

WorkTrueNext(w, r) ==
    /\ r.step \notin {"idle", "add", "error"} => inRF'
    /\ r.paid < Cooldown => r.step \in {"put", "done"}
    /\ r.new => inRF' /\ r.step \in {"create", "look", "reveal", "put", "done", "error"}
    /\ r.step = "patch" => contact'
    /\ r.step \in {"flag", "look", "reveal", "put", "done"} /\ whole' => contact'
    /\ w \in Adds /\ r.step = "error" => r.failed
    /\ r.step = "done" /\ r.paid < Cooldown /\ w \notin lostFlags' => attempted' + r.paid >= Cooldown

(* One work moves on, and whatever it shares with the others only grows. *)
LEMMA WorkMoves ==
  ASSUME IntakeInv, NEW w \in Works, NEW r \in Intakes, intakes' = [intakes EXCEPT ![w] = r],
         UNCHANGED <<inRF, whole>>, contact' \in BOOLEAN, contact => contact',
         linkedinKey' \in {linkedinKey, "this"}, attempted' \in attempted .. Cooldown,
         lostFlags \subseteq lostFlags',
         WorkTrueNext(w, r), r.new = intakes[w].new, ~Making(r),
         w \in Adds /\ ~r.failed =>
            /\ r.step \notin {"idle", "add"} => linkedinKey' = "this" \/ intakes[Created].step = "sent"
            /\ r.step = "add" /\ inRF => intakes[Created].step # "idle",
         w = Created => r.step # "idle" /\ r.step # "sent" /\ linkedinKey' = "this",
         \A v \in Works \ {w} : Hot(r) /\ Hot(intakes[v]) =>
            v \in r.met \/ w \in intakes[v].met \/ {v, w} \cap lostFlags' # {},
         \A v \in Works \ {w} : Hot(r) /\ Making(intakes[v]) => v \in r.met
  PROVE  IntakeInv'
<1>1. /\ intakes' \in [Works -> Intakes]
      /\ \A v \in Works : intakes'[v] = IF v = w THEN r ELSE intakes[v]
  BY DEF IntakeInv, IntakeShape
<1>2. IntakeShape'
  BY <1>1 DEF IntakeInv, IntakeShape
<1>3. OneNew'
  BY <1>1 DEF IntakeInv, OneNew
<1>4. HookTrue'
  BY <1>1, WorksAre DEF IntakeInv, HookTrue
<1>5. MetInTime'
  <2>1. \A v, u \in Works : v # u /\ Hot(intakes'[v]) /\ Hot(intakes'[u]) =>
          v \in intakes'[u].met \/ u \in intakes'[v].met \/ {v, u} \cap lostFlags' # {}
    BY <1>1 DEF IntakeInv, MetInTime, Overlapped
  <2>2. \A v, u \in Works : v # u /\ Hot(intakes'[v]) /\ Making(intakes'[u]) => u \in intakes'[v].met
    BY <1>1 DEF IntakeInv, MetInTime
  <2> QED BY <2>1, <2>2 DEF MetInTime, Overlapped, Hot, Making
<1>6. \A v \in Works : WorkTrueNext(v, intakes'[v])
  <2>1. \A v \in Works : intakes[v].paid \in Nat
    BY DEF IntakeInv, IntakeShape, Intakes, NotPaid
  <2>2. attempted \in Nat /\ attempted' \in Nat /\ attempted' >= attempted
    BY WorksAre DEF IntakeInv, IntakeShape
  <2> QED BY <1>1, <2>1, <2>2, WorksAre DEF IntakeInv, WorkTrue, WorkTrueNext
<1>7. \A v \in Works : WorkTrue(v, intakes[v])'
  BY <1>6 DEF WorkTrue, WorkTrueNext
<1>8. \A v \in Works : KeyTrue(v, intakes[v])'
  BY <1>1, WorksAre DEF IntakeInv, KeyTrue
<1> QED BY <1>2, <1>3, <1>4, <1>5, <1>7, <1>8 DEF IntakeInv

(* So it does when it is as much in the others' way as it was. *)
LEMMA WorkGoesOn ==
  ASSUME IntakeInv, NEW w \in Works, NEW r \in Intakes, intakes' = [intakes EXCEPT ![w] = r],
         UNCHANGED <<inRF, whole>>, contact' \in BOOLEAN, contact => contact',
         linkedinKey' \in {linkedinKey, "this"}, attempted' \in attempted .. Cooldown,
         lostFlags \subseteq lostFlags',
         WorkTrueNext(w, r), r.new = intakes[w].new, ~Making(r),
         w \in Adds /\ ~r.failed =>
            /\ r.step \notin {"idle", "add"} => linkedinKey' = "this" \/ intakes[Created].step = "sent"
            /\ r.step = "add" /\ inRF => intakes[Created].step # "idle",
         w = Created => r.step # "idle" /\ r.step # "sent" /\ linkedinKey' = "this",
         Hot(r) => Hot(intakes[w]) /\ r.met = intakes[w].met
  PROVE  IntakeInv'
<1>1. \A v \in Works \ {w} : Hot(r) /\ Hot(intakes[v]) =>
            v \in r.met \/ w \in intakes[v].met \/ {v, w} \cap lostFlags' # {}
  BY DEF IntakeInv, MetInTime, Overlapped
<1>2. \A v \in Works \ {w} : Hot(r) /\ Making(intakes[v]) => v \in r.met
  BY DEF IntakeInv, MetInTime
<1> QED BY <1>1, <1>2, WorkMoves

(* The record r that a work becomes, by To or by ToFailed. *)
Became(w, s, r) ==
    /\ intakes' = [intakes EXCEPT ![w] = r] /\ r.step = s
    /\ r.new = intakes[w].new /\ r.paid = intakes[w].paid /\ r.met = intakes[w].met
    /\ r.failed \in {intakes[w].failed, TRUE}

LEMMA ToBecomes ==
  ASSUME IntakeInv, NEW w \in Works, NEW s \in WorkSteps, To(w, s) \/ ToFailed(w, s)
  PROVE  \E r \in Intakes : Became(w, s, r)
<1>1. intakes[w] \in Intakes
  BY DEF IntakeInv, IntakeShape
<1>2. CASE To(w, s)
  <2> DEFINE r == [intakes[w] EXCEPT !.step = s]
  <2>1. intakes' = [intakes EXCEPT ![w] = r]
    BY <1>2 DEF To
  <2>2. r \in Intakes /\ r.step = s /\ r.new = intakes[w].new /\ r.paid = intakes[w].paid
        /\ r.met = intakes[w].met /\ r.failed = intakes[w].failed
    BY <1>1 DEF Intakes
  <2> HIDE DEF r
  <2> QED BY <2>1, <2>2 DEF Became
<1>3. CASE ToFailed(w, s)
  <2> DEFINE r == [intakes[w] EXCEPT !.step = s, !.failed = TRUE]
  <2>1. intakes' = [intakes EXCEPT ![w] = r]
    BY <1>3 DEF ToFailed
  <2>2. r \in Intakes /\ r.step = s /\ r.new = intakes[w].new /\ r.paid = intakes[w].paid
        /\ r.met = intakes[w].met /\ r.failed = TRUE
    BY <1>1 DEF Intakes
  <2> HIDE DEF r
  <2> QED BY <2>1, <2>2 DEF Became
<1> QED BY <1>2, <1>3

(* A step in which a work only changes its step. *)
LEMMA WorkSteps1 ==
  ASSUME IntakeInv, NEW w \in Works, NEW s \in WorkSteps, To(w, s) \/ ToFailed(w, s),
         UNCHANGED <<inRF, whole>>, contact' \in BOOLEAN, contact => contact',
         linkedinKey' \in {linkedinKey, "this"}, attempted' \in attempted .. Cooldown,
         lostFlags \subseteq lostFlags',
         intakes[w].new => s \in {"look", "reveal", "put", "done", "error"},
         intakes[w].paid < Cooldown => s = "done",
         s \notin {"idle", "add", "error"} => inRF,
         s = "patch" => contact', s \in {"flag", "look", "reveal", "put", "done"} /\ whole => contact',
         w \in Adds /\ s = "error" => ToFailed(w, s),
         s = "done" => intakes[w].step # "put" \/ w \in lostFlags' \/ attempted' = Cooldown,
         w \in Adds =>
            /\ s \notin {"idle", "add", "error"} =>
                 linkedinKey' = "this" \/ intakes[Created].step = "sent" \/ intakes[w].step \notin {"idle", "add"}
            /\ s = "add" => ~inRF \/ ToFailed(w, s),
         w = Created => s # "idle" /\ s # "sent" /\ linkedinKey' = "this",
         s \in {"look", "reveal", "put"} => intakes[w].step \in {"look", "reveal", "put"}
  PROVE  IntakeInv'
<1>1. PICK r \in Intakes : Became(w, s, r)
  BY ToBecomes
<1>2. /\ intakes' = [intakes EXCEPT ![w] = r] /\ r.step = s /\ r.new = intakes[w].new
      /\ r.paid = intakes[w].paid /\ r.met = intakes[w].met /\ r.failed \in {intakes[w].failed, TRUE}
  BY <1>1 DEF Became
<1>3. /\ WorkTrue(w, intakes[w]) /\ KeyTrue(w, intakes[w]) /\ intakes[w] \in Intakes
      /\ intakes \in [Works -> Intakes]
  BY DEF IntakeInv, IntakeShape
<1>4. ToFailed(w, s) => r.failed = TRUE
  BY <1>2, <1>3 DEF ToFailed, Intakes
<1>5. attempted \in Nat /\ attempted' \in Nat /\ attempted' >= attempted /\ attempted' <= Cooldown
      /\ r.paid \in Nat /\ Cooldown \in Nat
  BY WorksAre DEF IntakeInv, IntakeShape, Intakes, NotPaid
<1>6. WorkTrueNext(w, r)
  <2>1. s = "done" /\ r.paid < Cooldown /\ w \notin lostFlags' => attempted' + r.paid >= Cooldown
    BY <1>2, <1>3, <1>5 DEF WorkTrue
  <2>2. intakes[w].new => inRF' /\ s \in {"create", "look", "reveal", "put", "done", "error"}
    BY <1>3 DEF WorkTrue
  <2> QED BY <1>2, <1>4, <2>1, <2>2 DEF WorkTrueNext
<1>7. ~Making(r)
  BY <1>2 DEF Making
<1>8. w \in Adds /\ ~r.failed =>
            /\ r.step \notin {"idle", "add"} => linkedinKey' = "this" \/ intakes[Created].step = "sent"
            /\ r.step = "add" /\ inRF => intakes[Created].step # "idle"
  <2> SUFFICES ASSUME w \in Adds, ~r.failed PROVE
            /\ s \notin {"idle", "add"} => linkedinKey' = "this" \/ intakes[Created].step = "sent"
            /\ s = "add" /\ inRF => intakes[Created].step # "idle"
    BY <1>2
  <2>1. ~ToFailed(w, s) /\ ~intakes[w].failed
    <3>1. r.failed \in BOOLEAN /\ intakes[w].failed \in BOOLEAN
      BY <1>3 DEF Intakes
    <3> QED BY <1>2, <1>4, <3>1
  <2> QED BY <1>3, <2>1 DEF KeyTrue
<1>9. Hot(r) => Hot(intakes[w]) /\ r.met = intakes[w].met
  BY <1>2 DEF Hot
<1> QED BY <1>2, <1>6, <1>7, <1>8, <1>9, WorkGoesOn

-----------------------------------------------------------------------------
LEMMA SearchKeeps == ASSUME IntakeInv, NEW a \in Adds, SearchRF(a) PROVE IntakeInv'
<1>1. /\ a \in Works /\ a # Created /\ intakes[a].step = "idle" /\ intakes[a] \in Intakes
      /\ WorkTrue(a, intakes[a])
      /\ UNCHANGED <<inRF, whole, contact, attempted, lostFlags>>
  BY WorksAre DEF SearchRF, IntakeInv, IntakeShape
<1>2. /\ ~intakes[a].new /\ ~(intakes[a].paid < Cooldown)
      /\ contact' \in BOOLEAN /\ attempted' \in attempted .. Cooldown
  BY <1>1, WorksAre DEF WorkTrue, IntakeInv, IntakeShape
<1>3. CASE inRF /\ linkedinKey' = "this" /\ To(a, "contact")
  <2>1. "contact" \in WorkSteps
    BY DEF WorkSteps
  <2> QED BY <1>1, <1>2, <1>3, <2>1, WorkSteps1
<1>4. CASE /\ UNCHANGED linkedinKey
           /\ (~inRF /\ To(a, "add")) \/ (inRF /\ ToFailed(a, "add"))
  <2>1. "add" \in WorkSteps
    BY DEF WorkSteps
  <2> QED BY <1>1, <1>2, <1>4, <2>1, WorkSteps1
<1>5. CASE ToFailed(a, "error") /\ linkedinKey' \in {linkedinKey, "this"}
  <2>1. "error" \in WorkSteps
    BY DEF WorkSteps
  <2> QED BY <1>1, <1>2, <1>5, <2>1, WorkSteps1
<1> QED BY <1>3, <1>4, <1>5 DEF SearchRF

LEMMA ExistsKeeps == ASSUME IntakeInv, NEW a \in Adds, Exists(a) PROVE IntakeInv'
<1>1. /\ a \in Works /\ a # Created /\ intakes[a].step = "add" /\ intakes[a] \in Intakes /\ inRF
      /\ WorkTrue(a, intakes[a]) /\ KeyTrue(a, intakes[a])
      /\ UNCHANGED <<inRF, whole, contact, linkedinKey, attempted, lostFlags>>
  BY WorksAre DEF Exists, IntakeInv, IntakeShape
<1>2. /\ ~intakes[a].new /\ ~(intakes[a].paid < Cooldown)
      /\ contact' \in BOOLEAN /\ attempted' \in attempted .. Cooldown
  BY <1>1, WorksAre DEF WorkTrue, IntakeInv, IntakeShape
<1>3. CASE To(a, "contact")
  <2>1. PICK r \in Intakes : Became(a, "contact", r)
    BY <1>1, <1>3, ToBecomes DEF WorkSteps
  <2>2. r.failed = intakes[a].failed
    BY <1>1, <1>3, <2>1 DEF Became, To, IntakeInv, IntakeShape, Intakes
  <2>3. intakes[Created].step \in {"sent"} \/ linkedinKey = "this" \/ r.failed
    BY <1>1, <2>2 DEF KeyTrue, IntakeInv, HookTrue
  <2> QED BY <1>1, <1>2, <2>1, <2>2, <2>3, WorkGoesOn DEF Became, Hot, Making, WorkTrueNext
<1>4. CASE ToFailed(a, "error")
  <2>1. "error" \in WorkSteps
    BY DEF WorkSteps
  <2> QED BY <1>1, <1>2, <1>4, <2>1, WorkSteps1
<1> QED BY <1>3, <1>4 DEF Exists

LEMMA ContactsKeep == ASSUME IntakeInv, NEW a \in Adds, GetContact(a) \/ PatchContact(a) PROVE IntakeInv'
<1>1. /\ a \in Works /\ a # Created /\ intakes[a].step \in {"contact", "patch"} /\ intakes[a] \in Intakes
      /\ WorkTrue(a, intakes[a])
      /\ UNCHANGED <<inRF, whole, contact, linkedinKey, attempted, lostFlags>>
  BY WorksAre DEF GetContact, PatchContact, IntakeInv, IntakeShape
<1>2. /\ ~intakes[a].new /\ ~(intakes[a].paid < Cooldown) /\ inRF
      /\ contact' \in BOOLEAN /\ attempted' \in attempted .. Cooldown
  BY <1>1, WorksAre DEF WorkTrue, IntakeInv, IntakeShape
<1>3. PICK s \in {"patch", "create", "flag"} :
        /\ To(a, s) \/ ToFailed(a, s)
        /\ s = "patch" => contact
        /\ s = "flag" => intakes[a].step = "patch"
  BY DEF GetContact, PatchContact
<1>4. s = "flag" => contact
  BY <1>1, <1>3, Zenon DEF WorkTrue
<1>5. s \in WorkSteps /\ s \notin {"idle", "add", "error", "look", "reveal", "put", "done"}
  BY DEF WorkSteps
<1>6. contact => contact'
  BY <1>1, Zenon
<1>7. s \in {"patch", "flag"} => contact'
  BY <1>3, <1>4, <1>6, Zenon
<1>8. linkedinKey' \in {linkedinKey, "this"} /\ lostFlags \subseteq lostFlags'
  BY <1>1
<1> QED BY <1>1, <1>2, <1>3, <1>5, <1>6, <1>7, <1>8, WorkSteps1

LEMMA HalfSyncs ==
  ASSUME IntakeInv, HalfSynced
  PROVE  (contact => contact') /\ contact' \in BOOLEAN /\ linkedinKey' \in {linkedinKey, "this"}
<1>1. contact \in BOOLEAN /\ whole \in BOOLEAN
  BY DEF IntakeInv, IntakeShape
<1>2. (contact \/ whole) \in BOOLEAN /\ (contact => (contact \/ whole))
  BY Zenon
<1>3. contact' = contact \/ contact' = (contact \/ whole)
  BY Zenon DEF HalfSynced
<1>4. contact' \in BOOLEAN /\ (contact => contact')
  BY <1>1, <1>2, <1>3, Zenon
<1> QED BY <1>4 DEF HalfSynced

LEMMA HookKeeps == ASSUME IntakeInv, HookSyncs \/ HookSkips PROVE IntakeInv'
<1> DEFINE w == Created
<1>1. /\ w \in Works /\ w \notin Adds /\ intakes[w].step \in {"sent", "flag"} /\ intakes[w] \in Intakes
      /\ WorkTrue(w, intakes[w])
      /\ UNCHANGED <<inRF, whole, attempted, lostFlags>>
  BY WorksAre DEF HookSyncs, HookSkips, IntakeInv, IntakeShape
<1>2. /\ ~intakes[w].new /\ ~(intakes[w].paid < Cooldown) /\ inRF
      /\ attempted' \in attempted .. Cooldown
  BY <1>1, WorksAre DEF WorkTrue, IntakeInv, IntakeShape
<1>3. "flag" \in WorkSteps /\ "done" \in WorkSteps
  BY DEF WorkSteps
<1>4. CASE Synced /\ To(w, "flag")
  <2>1. /\ contact' \in BOOLEAN /\ (contact => contact') /\ (whole => contact')
        /\ linkedinKey' = "this"
    BY <1>4, Zenon DEF Synced
  <2> QED BY <1>1, <1>2, <1>3, <1>4, <2>1, WorkSteps1
<1>5. CASE HalfSynced /\ UNCHANGED intakes
  <2>1. (contact => contact') /\ contact' \in BOOLEAN /\ linkedinKey' \in {linkedinKey, "this"}
    BY <1>5, HalfSyncs
  <2>2. IntakeShape' /\ OneNew' /\ HookTrue' /\ MetInTime'
    BY <1>1, <1>5, <2>1 DEF IntakeInv, IntakeShape, OneNew, HookTrue, MetInTime, Overlapped, Hot, Making
  <2>3. \A v \in Works : WorkTrueNext(v, intakes[v])
    BY <1>1, <2>1 DEF IntakeInv, WorkTrue, WorkTrueNext
  <2>4. \A v \in Works : WorkTrue(v, intakes[v])'
    BY <1>5, <2>3 DEF WorkTrue, WorkTrueNext
  <2>5. \A v \in Works : KeyTrue(v, intakes[v])'
    BY <1>1, <1>5, <2>1 DEF IntakeInv, KeyTrue
  <2> QED BY <2>2, <2>4, <2>5 DEF IntakeInv
<1>6. CASE HookSkips
  <2>1. /\ intakes[w].step = "flag" /\ To(w, "done") /\ UNCHANGED <<contact, linkedinKey>>
        /\ contact' \in BOOLEAN /\ linkedinKey = "this"
    BY <1>6 DEF HookSkips, IntakeInv, HookTrue, IntakeShape
  <2>2. whole' => contact'
    BY <1>1, <2>1 DEF WorkTrue
  <2> QED BY <1>1, <1>2, <1>3, <2>1, <2>2, WorkSteps1
<1> QED BY <1>4, <1>5, <1>6 DEF HookSyncs

LEMMA CreateKeeps == ASSUME IntakeInv, NEW a \in Adds, CreateContact(a) PROVE IntakeInv'
<1>1. /\ a \in Works /\ a # Created /\ intakes[a].step = "create" /\ intakes[a] \in Intakes
      /\ WorkTrue(a, intakes[a]) /\ UNCHANGED <<inRF, whole, attempted, lostFlags>>
  BY WorksAre DEF CreateContact, IntakeInv, IntakeShape
<1>2. /\ ~(intakes[a].paid < Cooldown) /\ inRF /\ attempted' \in attempted .. Cooldown
      /\ contact \in BOOLEAN
  BY <1>1, WorksAre DEF WorkTrue, IntakeInv, IntakeShape
<1>3. CASE /\ Synced
           /\ intakes' = [intakes EXCEPT
                ![a].step = IF intakes[a].new THEN "look" ELSE "flag",
                ![a].met = IF intakes[a].new THEN {w \in Works \ {a} : InHand(w)} ELSE {}]
  <2> DEFINE st == IF intakes[a].new THEN "look" ELSE "flag"
             met == IF intakes[a].new THEN {w \in Works \ {a} : InHand(w)} ELSE {}
             r == [intakes[a] EXCEPT !.step = st, !.met = met]
  <2>1. intakes' = [intakes EXCEPT ![a] = r]
    BY <1>3
  <2>2. st \in {"look", "flag"} /\ met \in SUBSET Works /\ (st = "look" <=> intakes[a].new)
    BY <1>1 DEF Intakes
  <2> HIDE DEF st, met
  <2>3. /\ r \in Intakes /\ r.step = st /\ r.met = met /\ r.paid = intakes[a].paid /\ r.new = intakes[a].new
    BY <1>1, <2>2 DEF Intakes, WorkSteps
  <2> HIDE DEF r
  <2>4. contact' \in BOOLEAN /\ (contact => contact') /\ (whole => contact') /\ linkedinKey' = "this"
    BY <1>3, Zenon DEF Synced
  <2>5. WorkTrueNext(a, r) /\ ~Making(r)
    BY <1>1, <1>2, <2>2, <2>3, <2>4 DEF WorkTrueNext, Making
  <2>6. \A v \in Works \ {a} : Hot(r) /\ Hot(intakes[v]) => a \in intakes[v].met
    BY <1>1, <1>2, <2>2, <2>3 DEF Hot, Making, IntakeInv, MetInTime
  <2>7. \A v \in Works \ {a} : Hot(r) => ~Making(intakes[v])
    BY <1>1, <1>2, <2>2, <2>3 DEF Hot, Making, IntakeInv, OneNew
  <2>8. lostFlags \subseteq lostFlags' /\ linkedinKey' \in {linkedinKey, "this"} /\ r.step # "add"
    BY <1>1, <2>2, <2>3, <2>4
  <2> QED BY <1>1, <1>2, <2>1, <2>3, <2>4, <2>5, <2>6, <2>7, <2>8, WorkMoves
<1>4. CASE ToFailed(a, "error") /\ HalfSynced
  <2>1. "error" \in WorkSteps
    BY DEF WorkSteps
  <2>2. (contact => contact') /\ contact' \in BOOLEAN /\ linkedinKey' \in {linkedinKey, "this"}
    BY <1>4, HalfSyncs
  <2> QED BY <1>1, <1>2, <1>4, <2>1, <2>2, WorkSteps1
<1> QED BY <1>3, <1>4 DEF CreateContact

LEMMA AddFailsKeeps ==
  ASSUME IntakeInv, NEW a \in Adds, intakes[a].step = "add", ToFailed(a, "error"),
         UNCHANGED <<inRF, whole, contact, linkedinKey, attempted, lostFlags>>
  PROVE  IntakeInv'
<1>1. /\ a \in Works /\ a # Created /\ "error" \in WorkSteps
      /\ WorkTrue(a, intakes[a]) /\ contact' \in BOOLEAN /\ attempted' \in attempted .. Cooldown
  BY WorksAre DEF IntakeInv, IntakeShape, WorkSteps
<1>2. ~intakes[a].new /\ ~(intakes[a].paid < Cooldown)
  BY <1>1 DEF WorkTrue
<1> QED BY <1>1, <1>2, WorkSteps1

LEMMA AddedKeeps == ASSUME IntakeInv, NEW a \in Adds, AddRF(a), inRF' = TRUE PROVE IntakeInv'
<1>1. /\ a \in Works /\ a # Created /\ Created \in Works /\ ~inRF /\ inRF' = TRUE
      /\ UNCHANGED <<whole, contact, linkedinKey, attempted, lostFlags>>
      /\ intakes \in [Works -> Intakes]
  BY WorksAre DEF AddRF, IntakeInv, IntakeShape
<1>2. \A w \in Works : /\ WorkTrue(w, intakes[w]) /\ intakes[w].step \in {"idle", "add", "error"}
                       /\ ~(intakes[w].paid < Cooldown) /\ ~intakes[w].new
  BY <1>1 DEF IntakeInv, WorkTrue
<1>3. PICK r \in Intakes :
        /\ r.step \in {"create", "error"} /\ (r.step = "error" => r.failed)
        /\ r.paid = intakes[a].paid /\ \A w \in Works \ {a, Created} : intakes'[w] = intakes[w]
        /\ intakes'[a] = r /\ intakes' \in [Works -> Intakes]
        /\ intakes'[Created].step = "sent" /\ intakes'[Created].new = intakes[Created].new
        /\ intakes'[Created].paid = intakes[Created].paid
  <2>1. CASE intakes' = [intakes EXCEPT ![a].step = "create", ![a].new = TRUE, ![Created].step = "sent"]
    <3> DEFINE r == [intakes[a] EXCEPT !.step = "create", !.new = TRUE]
               c == [intakes[Created] EXCEPT !.step = "sent"]
    <3>1. intakes' = [intakes EXCEPT ![a] = r, ![Created] = c]
      BY <1>1, <2>1
    <3>2. /\ r \in Intakes /\ c \in Intakes /\ r.step = "create" /\ r.paid = intakes[a].paid /\ c.step = "sent"
          /\ c.new = intakes[Created].new /\ c.paid = intakes[Created].paid
      <4>1. intakes[a] \in Intakes /\ intakes[Created] \in Intakes
        BY <1>1
      <4> QED BY <4>1 DEF Intakes, WorkSteps
    <3> HIDE DEF r, c
    <3>3. /\ \A w \in Works \ {a, Created} : intakes'[w] = intakes[w]
          /\ intakes'[a] = r /\ intakes'[Created] = c /\ intakes' \in [Works -> Intakes]
      BY <1>1, <3>1, <3>2
    <3> QED BY <3>2, <3>3
  <2>2. CASE intakes' = [intakes EXCEPT ![a].step = "error", ![a].failed = TRUE, ![Created].step = "sent"]
    <3> DEFINE r == [intakes[a] EXCEPT !.step = "error", !.failed = TRUE]
               c == [intakes[Created] EXCEPT !.step = "sent"]
    <3>1. intakes' = [intakes EXCEPT ![a] = r, ![Created] = c]
      BY <1>1, <2>2
    <3>2. /\ r \in Intakes /\ c \in Intakes /\ r.step = "error" /\ r.paid = intakes[a].paid /\ c.step = "sent"
          /\ r.failed = TRUE /\ c.new = intakes[Created].new /\ c.paid = intakes[Created].paid
      <4>1. intakes[a] \in Intakes /\ intakes[Created] \in Intakes
        BY <1>1
      <4> QED BY <4>1 DEF Intakes, WorkSteps
    <3> HIDE DEF r, c
    <3>3. /\ \A w \in Works \ {a, Created} : intakes'[w] = intakes[w]
          /\ intakes'[a] = r /\ intakes'[Created] = c /\ intakes' \in [Works -> Intakes]
      BY <1>1, <3>1, <3>2
    <3> QED BY <3>2, <3>3
  <2> QED BY <2>1, <2>2 DEF AddRF
<1>4. IntakeShape'
  BY <1>1, <1>3 DEF IntakeInv, IntakeShape
<1>5. \A w \in Works : ~(intakes'[w].paid < Cooldown) /\ ~Hot(intakes'[w]) /\ (intakes'[w].new => w = a)
                       /\ intakes'[w].step \in {"idle", "add", "sent", "create", "error"}
                       /\ (w # a => intakes'[w].step \in {"idle", "add", "sent", "error"})
  BY <1>1, <1>2, <1>3 DEF Hot
<1>6. OneNew' /\ HookTrue' /\ MetInTime'
  BY <1>3, <1>5 DEF OneNew, HookTrue, MetInTime, Hot
<1>7. \A w \in Works : WorkTrue(w, intakes[w])'
  <2>1. \A w \in Works : intakes'[w].new => intakes'[w].step \in {"create", "error"}
    BY <1>3, <1>5
  <2>2. \A w \in Adds : intakes'[w].step = "error" => intakes'[w].failed
    BY <1>1, <1>2, <1>3, WorksAre DEF WorkTrue
  <2> QED BY <1>1, <1>5, <2>1, <2>2 DEF WorkTrue
<1>8. \A w \in Works : KeyTrue(w, intakes[w])'
  BY <1>3 DEF KeyTrue
<1> QED BY <1>4, <1>6, <1>7, <1>8 DEF IntakeInv

LEMMA AddKeeps == ASSUME IntakeInv, NEW a \in Adds, AddRF(a) PROVE IntakeInv'
<1>1. CASE inRF' = TRUE
  BY <1>1, AddedKeeps
<1>2. CASE ToFailed(a, "error") /\ UNCHANGED inRF
  BY <1>2, AddFailsKeeps DEF AddRF
<1> QED BY <1>1, <1>2 DEF AddRF

LEMMA FlagReadKeeps ==
  ASSUME IntakeInv, NEW w \in Works, intakes[w].step = "flag",
         intakes' = [intakes EXCEPT ![w].step = FlagStep(w),
                                    ![w].met = {v \in Works \ {w} : InHand(v)}],
         UNCHANGED <<inRF, whole, contact, linkedinKey, attempted, lostFlags>>
  PROVE  IntakeInv'
<1> DEFINE met == {v \in Works \ {w} : InHand(v)}
           st == FlagStep(w)
           r == [intakes[w] EXCEPT !.step = st, !.met = met]
<1>1. /\ intakes[w].step = "flag" /\ intakes[w] \in Intakes /\ WorkTrue(w, intakes[w])
      /\ intakes' = [intakes EXCEPT ![w] = r] /\ KeyTrue(w, intakes[w])
      /\ UNCHANGED <<inRF, whole, contact, linkedinKey, attempted, lostFlags>>
  BY DEF IntakeInv, IntakeShape
<1>2. st \in {"done", "look"} /\ (st = "look" => attempted = 0) /\ met \in SUBSET Works
  BY DEF FlagStep, IntakeInv, IntakeShape
<1>3. \A v \in Works \ {w} : v \in met <=> intakes[v].step \in {"look", "reveal", "put"} \/ Making(intakes[v])
  BY DEF InHand, Making
<1> HIDE DEF st, met
<1>4. /\ r \in Intakes /\ r.step = st /\ r.met = met /\ r.paid = intakes[w].paid /\ r.new = intakes[w].new
      /\ r.failed = intakes[w].failed
  BY <1>1, <1>2 DEF Intakes, WorkSteps
<1> HIDE DEF r
<1>5. ~(intakes[w].paid < Cooldown) /\ ~intakes[w].new
  BY <1>1 DEF WorkTrue
<1>6. WorkTrueNext(w, r) /\ ~Making(r)
  BY <1>1, <1>2, <1>4, <1>5 DEF WorkTrue, WorkTrueNext, Making
<1>7. \A v \in Works \ {w} : Hot(r) /\ Hot(intakes[v]) => v \in r.met \/ v \in lostFlags
  <2> SUFFICES ASSUME NEW v \in Works \ {w}, Hot(r), Hot(intakes[v]), v \notin lostFlags PROVE v \in met
    BY <1>4
  <2>1. attempted = 0 /\ WorkTrue(v, intakes[v]) /\ intakes[v].paid \in Nat
    BY <1>2, <1>4, <1>5 DEF Hot, IntakeInv, IntakeShape, Intakes, NotPaid
  <2>2. intakes[v].step \in {"look", "reveal", "put"}
    BY <2>1, WorksAre DEF Hot, WorkTrue
  <2> QED BY <1>3, <2>2
<1>8. \A v \in Works \ {w} : Hot(r) /\ Making(intakes[v]) => v \in r.met
  BY <1>3, <1>4
<1>9. contact' \in BOOLEAN /\ (contact => contact') /\ attempted' \in attempted .. Cooldown
  BY <1>1, WorksAre DEF IntakeInv, IntakeShape
<1>10. w = Created => linkedinKey = "this"
  BY <1>1 DEF IntakeInv, HookTrue
<1>11. w \in Adds /\ ~r.failed => linkedinKey' = "this" \/ intakes[Created].step = "sent"
  BY <1>1, <1>4 DEF KeyTrue
<1> QED BY <1>1, <1>2, <1>4, <1>6, <1>7, <1>8, <1>9, <1>10, <1>11, WorkMoves

LEMMA ReadFlagKeeps == ASSUME IntakeInv, NEW w \in Works, ReadFlag(w) PROVE IntakeInv'
<1>1. /\ intakes[w].step = "flag" /\ WorkTrue(w, intakes[w])
      /\ UNCHANGED <<inRF, whole, contact, linkedinKey, attempted, lostFlags>>
      /\ contact' \in BOOLEAN /\ attempted' \in attempted .. Cooldown
  BY WorksAre DEF ReadFlag, IntakeInv, IntakeShape
<1>2. CASE intakes' = [intakes EXCEPT ![w].step = FlagStep(w),
                                      ![w].met = {v \in Works \ {w} : InHand(v)}]
  BY <1>1, <1>2, FlagReadKeeps
<1> DEFINE s == IF w = Created THEN "done" ELSE "error"
<1>3. CASE ToFailed(w, s)
  <2>1. s \in WorkSteps /\ s \in {"done", "error"} /\ (s = "done" => w = Created) /\ (s = "error" => w \in Adds)
    BY DEF WorkSteps, Works
  <2>2. /\ ~intakes[w].new /\ ~(intakes[w].paid < Cooldown) /\ inRF /\ (whole => contact')
        /\ w = Created => linkedinKey' = "this"
    BY <1>1 DEF WorkTrue, IntakeInv, HookTrue
  <2> HIDE DEF s
  <2> QED BY <1>1, <1>3, <2>1, <2>2, WorkSteps1
<1> QED BY <1>2, <1>3 DEF ReadFlag

LEMMA LookUpKeeps == ASSUME IntakeInv, NEW w \in Works, LookUp(w) PROVE IntakeInv'
<1>1. /\ intakes[w].step = "look" /\ WorkTrue(w, intakes[w])
      /\ UNCHANGED <<inRF, whole, contact, linkedinKey, callFaults, lostFlags>>
      /\ contact \in BOOLEAN
  BY DEF LookUp, IntakeInv, IntakeShape
<1>2. /\ ~(intakes[w].paid < Cooldown) /\ inRF /\ attempted' \in attempted .. Cooldown
      /\ (w = Created => linkedinKey' = "this")
  BY <1>1, WorksAre DEF LookUp, WorkTrue, IntakeInv, IntakeShape, HookTrue
<1>3. PICK s \in {"reveal", "done"} : To(w, s)
  BY DEF LookUp
<1>4. (contact => contact') /\ (whole => contact')
  BY <1>1 DEF WorkTrue
<1>5. s \in WorkSteps
  BY DEF WorkSteps
<1> QED BY <1>1, <1>2, <1>3, <1>4, <1>5, WorkSteps1

LEMMA RevealKeeps == ASSUME IntakeInv, NEW w \in Works, Reveal(w) PROVE IntakeInv'
<1> DEFINE r == [intakes[w] EXCEPT !.step = "put", !.paid = 0]
<1>1. /\ intakes[w].step = "reveal" /\ WorkTrue(w, intakes[w]) /\ intakes[w] \in Intakes
      /\ UNCHANGED <<inRF, whole, contact, linkedinKey, attempted, callFaults, lostFlags>>
      /\ contact \in BOOLEAN /\ KeyTrue(w, intakes[w])
      /\ intakes' = [intakes EXCEPT ![w] = r]
  BY DEF Reveal, IntakeInv, IntakeShape
<1>2. inRF /\ attempted' \in attempted .. Cooldown /\ (w = Created => linkedinKey' = "this")
  BY <1>1, WorksAre DEF WorkTrue, IntakeInv, IntakeShape, HookTrue
<1>3. /\ r \in Intakes /\ r.step = "put" /\ r.met = intakes[w].met /\ r.paid = 0 /\ r.new = intakes[w].new
      /\ r.failed = intakes[w].failed
  <2>1. 0 \in 0 .. NotPaid /\ "put" \in WorkSteps
    BY WorksAre DEF NotPaid, WorkSteps
  <2>2. r \in Intakes
    BY <1>1, <2>1 DEF Intakes
  <2> QED BY <1>1, <2>2 DEF Intakes
<1> HIDE DEF r
<1>4. WorkTrueNext(w, r) /\ ~Making(r) /\ Hot(intakes[w])
  BY <1>1, <1>3 DEF WorkTrue, WorkTrueNext, Making, Hot
<1>5. w \in Adds /\ ~r.failed => linkedinKey' = "this" \/ intakes[Created].step = "sent"
  BY <1>1, <1>3 DEF KeyTrue
<1>6. contact' \in BOOLEAN /\ (contact => contact')
  BY <1>1
<1> QED BY <1>1, <1>2, <1>3, <1>4, <1>5, <1>6, WorkGoesOn

LEMMA PutFlagKeeps == ASSUME IntakeInv, NEW w \in Works, PutFlag(w) PROVE IntakeInv'
<1>1. /\ intakes[w].step = "put" /\ WorkTrue(w, intakes[w]) /\ KeyTrue(w, intakes[w])
      /\ UNCHANGED <<inRF, whole, contact, linkedinKey>> /\ contact \in BOOLEAN
      /\ To(w, "done")
  BY DEF PutFlag, IntakeInv, IntakeShape
<1>2. /\ inRF /\ attempted' \in attempted .. Cooldown /\ (w = Created => linkedinKey' = "this")
      /\ lostFlags \subseteq lostFlags' /\ (w \in lostFlags' \/ attempted' = Cooldown)
  BY <1>1, WorksAre DEF PutFlag, WorkTrue, IntakeInv, IntakeShape, HookTrue
<1>3. (contact => contact') /\ (whole => contact')
  BY <1>1 DEF WorkTrue
<1>4. "done" \in WorkSteps
  BY DEF WorkSteps
<1>5. intakes[w].new => "done" \in {"look", "reveal", "put", "done", "error"}
  OBVIOUS
<1>6. contact' \in BOOLEAN /\ linkedinKey' \in {linkedinKey, "this"}
  BY <1>1
<1> QED BY <1>1, <1>2, <1>3, <1>4, <1>6, WorkSteps1

LEMMA FlagAgesKeeps == ASSUME IntakeInv, FlagAges PROVE IntakeInv'
<1>1. /\ attempted' = IF attempted > 0 THEN attempted - 1 ELSE 0
      /\ intakes' = [w \in Works |-> IF intakes[w].paid < Cooldown
                                     THEN [intakes[w] EXCEPT !.paid = @ + 1] ELSE intakes[w]]
      /\ UNCHANGED <<inRF, whole, contact, linkedinKey, callFaults, lostFlags>>
      /\ attempted \in 0 .. Cooldown /\ Cooldown \in Nat /\ intakes \in [Works -> Intakes]
  BY WorksAre DEF FlagAges, IntakeInv, IntakeShape
<1>2. \A w \in Works :
        /\ intakes'[w] \in Intakes /\ intakes'[w].step = intakes[w].step /\ intakes'[w].new = intakes[w].new
        /\ intakes'[w].met = intakes[w].met /\ intakes'[w].failed = intakes[w].failed
        /\ intakes'[w].paid = IF intakes[w].paid < Cooldown THEN intakes[w].paid + 1 ELSE intakes[w].paid
  <2> SUFFICES ASSUME NEW w \in Works PROVE
        /\ intakes'[w] \in Intakes /\ intakes'[w].step = intakes[w].step /\ intakes'[w].new = intakes[w].new
        /\ intakes'[w].met = intakes[w].met /\ intakes'[w].failed = intakes[w].failed
        /\ intakes'[w].paid = IF intakes[w].paid < Cooldown THEN intakes[w].paid + 1 ELSE intakes[w].paid
    OBVIOUS
  <2>1. intakes[w] \in Intakes /\ intakes[w].paid \in 0 .. Cooldown + 1
    BY <1>1 DEF Intakes, NotPaid
  <2>2. intakes[w].paid < Cooldown => intakes[w].paid + 1 \in 0 .. Cooldown + 1
    BY <1>1, <2>1
  <2>3. intakes'[w] = IF intakes[w].paid < Cooldown THEN [intakes[w] EXCEPT !.paid = intakes[w].paid + 1] ELSE intakes[w]
    BY <1>1
  <2>4. CASE intakes[w].paid < Cooldown
    BY <2>1, <2>2, <2>3, <2>4 DEF Intakes, NotPaid
  <2> QED BY <2>1, <2>3, <2>4
<1>3. \A w \in Works : intakes[w].paid \in Nat
  BY <1>1 DEF Intakes, NotPaid
<1>4. \A w \in Works : (Hot(intakes'[w]) => Hot(intakes[w])) /\ (Making(intakes'[w]) <=> Making(intakes[w]))
                       /\ (intakes'[w].paid < Cooldown => intakes[w].paid < Cooldown)
  BY <1>1, <1>2, <1>3 DEF Hot, Making
<1>5. IntakeShape'
  <2>1. attempted' \in 0 .. Cooldown
    BY <1>1
  <2>2. intakes' \in [Works -> Intakes]
    BY <1>1, <1>2
  <2> QED BY <1>1, <2>1, <2>2 DEF IntakeInv, IntakeShape
<1>6. OneNew' /\ HookTrue'
  BY <1>1, <1>2, WorksAre DEF IntakeInv, OneNew, HookTrue
<1>7. MetInTime'
  <2>1. \A v, w \in Works : v # w /\ Hot(intakes'[v]) /\ Hot(intakes'[w]) =>
          v \in intakes'[w].met \/ w \in intakes'[v].met \/ {v, w} \cap lostFlags # {}
    BY <1>2, <1>4 DEF IntakeInv, MetInTime, Overlapped
  <2>2. \A v, w \in Works : v # w /\ Hot(intakes'[v]) /\ Making(intakes'[w]) => w \in intakes'[v].met
    BY <1>2, <1>4 DEF IntakeInv, MetInTime
  <2> QED BY <1>1, <2>1, <2>2 DEF MetInTime, Overlapped, Hot, Making
<1>8. \A w \in Works : WorkTrue(w, intakes[w])'
  <2>1. \A w \in Works : intakes'[w].step = "done" /\ intakes'[w].paid < Cooldown /\ w \notin lostFlags' =>
          attempted' + intakes'[w].paid >= Cooldown
    <3> SUFFICES ASSUME NEW w \in Works, intakes[w].step = "done", intakes[w].paid < Cooldown, w \notin lostFlags
                 PROVE  attempted' + (intakes[w].paid + 1) >= Cooldown
      BY <1>1, <1>2, <1>4
    <3>1. attempted + intakes[w].paid >= Cooldown
      BY DEF IntakeInv, WorkTrue
    <3> QED BY <1>1, <1>3, <3>1
  <2> QED BY <1>1, <1>2, <1>4, <2>1 DEF IntakeInv, WorkTrue
<1>9. \A w \in Works : KeyTrue(w, intakes[w])'
  BY <1>1, <1>2, WorksAre DEF IntakeInv, KeyTrue
<1> QED BY <1>5, <1>6, <1>7, <1>8, <1>9 DEF IntakeInv

LEMMA IntakeKept == IntakeInv /\ [IntakeNext]_intakeVars => IntakeInv'
<1> SUFFICES ASSUME IntakeInv, [IntakeNext]_intakeVars PROVE IntakeInv'
  OBVIOUS
<1>1. CASE UNCHANGED intakeVars
  BY <1>1 DEF intakeVars, IntakeInv, IntakeShape, OneNew, HookTrue, MetInTime, Overlapped, WorkTrue, KeyTrue
<1>2. CASE IntakeNext
  BY <1>2, SearchKeeps, AddKeeps, ExistsKeeps, ContactsKeep, CreateKeeps, HookKeeps, ReadFlagKeeps, LookUpKeeps,
     RevealKeeps, PutFlagKeeps, FlagAgesKeeps DEF IntakeNext
<1> QED BY <1>1, <1>2

(* enrichment.js:13-21, candidates.js:152-215: the number is bought twice within  *)
(* the cooldown only by works that overlapped, or where a flag was lost; and all  *)
(* occurrences of a profile end with its one record.                              *)
THEOREM BoughtOnce == IntakeSpec => [](PaidTwiceOnlyTogether /\ AddsAgree /\ IntakeTypeOK)
BY IntakeImplies, IntakeStarts, IntakeKept, PTL DEF IntakeSpec

-----------------------------------------------------------------------------
(* ApolloMatch: who the person is. *)

LEMMA WeightRange == ASSUME NEW F PROVE Weight(F) \in 0 .. 80 /\ ("title" \in F => Weight(F) >= 30)
<1>1. /\ PointsFor("title", F) \in 0 .. 30 /\ PointsFor("state", F) \in 0 .. 20
      /\ PointsFor("city", F) \in 0 .. 10 /\ PointsFor("country", F) \in 0 .. 5
      /\ PointsFor("education", F) \in 0 .. 15
      /\ "title" \in F => PointsFor("title", F) = 30
  BY DEF PointsFor, Points
<1> QED BY <1>1 DEF Weight

LEMMA ConfidenceRange == ASSUME NEW p PROVE Confidence(p) \in Nat /\ Confidence(p) <= 1000
<1> DEFINE max == Weight(candidate.fields \cup {"title"})
           score == Weight(Same(p) \cap candidate.fields)
<1>1. max \in 30 .. 80 /\ score \in 0 .. 80
  BY WeightRange
<1>2. Confidence(p) = (200 * score + max) \div (2 * max)
  BY DEF Confidence
<1> HIDE DEF max, score
<1> QED BY <1>1, <1>2

(* A bounded function of a set that is not empty has a maximum. *)
LEMMA MaximumExists ==
  ASSUME NEW b \in Nat, NEW I, I # {}, NEW c \in [I -> 0 .. b]
  PROVE  \E i \in I : \A j \in I : c[j] <= c[i]
<1> DEFINE gaps == {b - c[i] : i \in I}
<1>1. \A i \in I : c[i] \in Int /\ b - c[i] \in Nat
  OBVIOUS
<1>2. gaps \subseteq Nat /\ gaps # {}
  BY <1>1
<1>3. PICK g \in gaps : \A h \in gaps : g <= h
  BY <1>2, FirstExists
<1>4. PICK i \in I : g = b - c[i]
  OBVIOUS
<1>5. \A j \in I : b - c[i] <= b - c[j]
  BY <1>3, <1>4
<1> QED BY <1>1, <1>5

LEMMA BestIs ==
  ASSUME NEW s \in Seq(People), NEW I, I \subseteq DOMAIN s, I # {}
  PROVE  Best(s, I) \in I /\ \A j \in I : Confidence(s[j]) <= Confidence(s[Best(s, I)])
<1> DEFINE c == [i \in I |-> Confidence(s[i])]
           top == {i \in I : \A j \in I : Confidence(s[j]) <= Confidence(s[i])}
<1>1. I \subseteq Nat
  OBVIOUS
<1>2. PICK b \in Nat : c \in [I -> 0 .. b]
  <2>1. \A i \in I : Confidence(s[i]) \in Nat /\ Confidence(s[i]) <= 1000
    BY ConfidenceRange
  <2>2. 1000 \in Nat
    OBVIOUS
  <2>3. PICK b \in Nat : b = 1000
    BY <2>2
  <2>4. ASSUME NEW i \in I PROVE c[i] \in 0 .. b
    <3>1. c[i] = Confidence(s[i])
      OBVIOUS
    <3>2. c[i] \in Nat /\ c[i] <= b
      BY <2>1, <2>3, <3>1
    <3> QED BY <3>2
  <2> QED BY <2>4
<1> HIDE DEF c
<1>3. PICK i \in I : \A j \in I : c[j] <= c[i]
  BY <1>2, MaximumExists
<1>4. i \in top
  BY <1>3 DEF c
<1>5. top \subseteq Nat /\ top # {}
  BY <1>1, <1>4
<1>6. Best(s, I) = Min(top)
  BY DEF Best
<1>7. Best(s, I) \in top
  BY <1>5, <1>6, MinIs
<1> QED BY <1>7

(* Whom the search settles on: the likeliest of those that passed, and no other as likely. *)
LEMMA WinnerIs ==
  ASSUME NEW s \in Seq(People)
  PROVE  /\ Winner(s) \in Answers
         /\ Winner(s) # NoPerson => \E i \in DOMAIN s :
              /\ Winner(s) = s[i]
              /\ \A j \in DOMAIN s : s[j] = s[i] \/ Confidence(s[j]) < Confidence(s[i])
<1>1. CASE s = <<>>
  BY <1>1 DEF Winner, Answers
<1>2. CASE s # <<>>
  <2> DEFINE first == Best(s, DOMAIN s)
             next == Best(s, DOMAIN s \ {first})
  <2>1. DOMAIN s = 1 .. Len(s) /\ Len(s) \in Nat \ {0} /\ \A i \in DOMAIN s : s[i] \in People
    BY <1>2
  <2>2. first \in DOMAIN s /\ \A j \in DOMAIN s : Confidence(s[j]) <= Confidence(s[first])
    <3>1. DOMAIN s \subseteq DOMAIN s /\ DOMAIN s # {}
      BY <2>1
    <3> QED BY <3>1, BestIs
  <2>3. Winner(s) = CASE Len(s) = 1 -> s[first]
              [] Len(s) > 1 /\ Confidence(s[first]) # Confidence(s[next]) /\ Confidence(s[first]) >= 60
                   -> s[first]
              [] OTHER -> NoPerson
    BY <1>2 DEF Winner
  <2> HIDE DEF first
  <2>4. Winner(s) \in {s[first], NoPerson}
    BY <2>3
  <2>5. CASE Len(s) = 1
    BY <2>1, <2>2, <2>4, <2>5 DEF Answers
  <2>6. CASE Len(s) # 1 /\ Winner(s) # NoPerson
    <3>1. Confidence(s[first]) # Confidence(s[next])
      BY <2>1, <2>3, <2>6
    <3>2. DOMAIN s \ {first} # {}
      BY <2>1, <2>2, <2>6
    <3>3. next \in DOMAIN s \ {first} /\ \A j \in DOMAIN s \ {first} : Confidence(s[j]) <= Confidence(s[next])
      BY <3>2, BestIs
    <3> HIDE DEF next
    <3>4. Confidence(s[next]) <= Confidence(s[first])
      BY <2>2, <3>3
    <3>5. \A j \in DOMAIN s : j = first \/ Confidence(s[j]) < Confidence(s[first])
      <4>1. ASSUME NEW j \in DOMAIN s, j # first PROVE Confidence(s[j]) < Confidence(s[first])
        <5>1. Confidence(s[j]) <= Confidence(s[next])
          BY <3>3, <4>1
        <5>3. Confidence(s[j]) \in Nat /\ Confidence(s[next]) \in Nat /\ Confidence(s[first]) \in Nat
          BY ConfidenceRange
        <5>4. \A x, y, z \in Nat : x <= y /\ y <= z /\ z # y => x < z
          OBVIOUS
        <5> QED BY <3>1, <3>4, <5>1, <5>3, <5>4, Zenon
      <4> QED BY <4>1
    <3>6. Winner(s) = s[first]
      BY <2>4, <2>6
    <3> QED BY <2>1, <2>2, <3>5, <3>6 DEF Answers
  <2>7. CASE Winner(s) = NoPerson
    BY <2>7 DEF Answers
  <2> QED BY <2>5, <2>6, <2>7
<1> QED BY <1>1, <1>2

LEMMA FilteredIs ==
  ASSUME NEW found \in Seq(People)
  PROVE  FilterSearchResults(found) \in Seq(People) /\ Len(FilterSearchResults(found)) <= SearchCap
<1> DEFINE kept == {i \in DOMAIN found :
                      /\ FirstName(found[i]) = candidate.first
                      /\ IsLetter(candidate.last) => Letter(LastName(found[i])) = Letter(candidate.last)}
           key == [i \in kept |-> i]
           n == Min({Cardinality(kept), SearchCap})
<1>1. DOMAIN found = 1 .. Len(found) /\ Len(found) \in Nat
  OBVIOUS
<1>2. kept \subseteq DOMAIN found
  OBVIOUS
<1>3. IsFiniteSet(kept) /\ Cardinality(kept) \in Nat /\ key \in [kept -> Nat] /\ kept \subseteq Nat
  <2>1. IsFiniteSet(1 .. Len(found))
    BY <1>1, FS_Interval
  <2>2. IsFiniteSet(kept)
    BY <1>1, <1>2, <2>1, FS_Subset
  <2>3. Cardinality(kept) \in Nat
    BY <2>2, FS_CardinalityType
  <2> QED BY <1>1, <2>2, <2>3
<1>4. FilterSearchResults(found) =
        [k \in 1 .. n |-> found[CHOOSE i \in kept : Cardinality(kept \cap 1 .. i) = k]]
  BY DEF FilterSearchResults
<1> HIDE DEF kept
<1>31. \A i, j \in kept : key[i] = key[j] => i = j
  OBVIOUS
<1>5. \A i \in kept : kept \cap 1 .. i = UpTo(kept, key, i)
  BY <1>1, <1>2, <1>3 DEF UpTo
<1> HIDE DEF key
<1>6. \A k \in 1 .. Cardinality(kept) : \E i \in kept : Cardinality(kept \cap 1 .. i) = k
  <2>1. \A k \in 1 .. Cardinality(kept) : \E i \in kept : Cardinality(UpTo(kept, key, i)) = k
    BY <1>3, <1>31, Places
  <2> QED BY <1>5, <2>1
<1>7. n \in Nat /\ n <= Cardinality(kept) /\ n <= SearchCap
  BY <1>3, MatchConstants, MinIs
<1> HIDE DEF n
<1>8. \A k \in 1 .. n : found[CHOOSE i \in kept : Cardinality(kept \cap 1 .. i) = k] \in People
  <2> SUFFICES ASSUME NEW k \in 1 .. n PROVE found[CHOOSE i \in kept : Cardinality(kept \cap 1 .. i) = k] \in People
    OBVIOUS
  <2>1. k \in 1 .. Cardinality(kept)
    BY <1>3, <1>7
  <2>2. \E i \in kept : Cardinality(kept \cap 1 .. i) = k
    BY <1>6, <2>1
  <2>3. (CHOOSE i \in kept : Cardinality(kept \cap 1 .. i) = k) \in DOMAIN found
    BY <1>2, <2>2
  <2> QED BY <2>3
<1>9. FilterSearchResults(found) \in [1 .. n -> People]
  BY <1>4, <1>8
<1>10. FilterSearchResults(found) \in Seq(People)
  BY <1>7, <1>9, SeqDef
<1>11. Len(FilterSearchResults(found)) = n
  BY <1>4, <1>7, <1>10, LenProperties
<1> QED BY <1>7, <1>10, <1>11

-----------------------------------------------------------------------------
Likeliest(p) == \A i \in DOMAIN scored : scored[i] = p \/ Confidence(scored[i]) < Confidence(p)

MatchInv ==
    /\ phase \in {"linkedin", "name", "search", "score", "reveal", "nobody"}
    /\ person \in Answers /\ (phase = "reveal" <=> person # NoPerson)
    /\ results \in Seq(People) /\ scored \in Seq(People) /\ Len(results) + Len(scored) <= SearchCap
    /\ phase \in {"linkedin", "search"} => results = <<>> /\ scored = <<>>
    /\ \A i \in DOMAIN scored : Gates(scored[i])
    /\ phase = "reveal" =>
         \/ via = "profile" /\ VerifyApolloMatch(person)
         \/ via = "search" /\ Gates(person) /\ Likeliest(person)
         \/ via = "name"

LEMMA MatchImplies == MatchInv => MatchTypeOK /\ NoStrangerRevealed
<1> SUFFICES ASSUME MatchInv PROVE MatchTypeOK /\ NoStrangerRevealed
  OBVIOUS
<1>1. Len(scored) <= SearchCap
  <2>1. Len(results) \in Nat /\ Len(scored) \in Nat /\ Len(results) + Len(scored) <= SearchCap
    BY DEF MatchInv
  <2> QED BY <2>1, MatchConstants
<1>2. MatchTypeOK
  BY <1>1 DEF MatchInv, MatchTypeOK
<1>3. NoStrangerRevealed
  BY DEF MatchInv, NoStrangerRevealed, VerifyApolloMatch, Gates, Likeliest, CorrectedLinkedIn, Range
<1> QED BY <1>2, <1>3

LEMMA MatchStarts == MatchInit => MatchInv
<1> SUFFICES ASSUME MatchInit PROVE MatchInv
  OBVIOUS
<1>1. <<>> \in Seq(People) /\ Len(<<>>) + Len(<<>>) <= SearchCap
  BY MatchConstants
<1> QED BY <1>1 DEF MatchInit, MatchInv, Answers

LEMMA MatchKept == MatchInv /\ [MatchNext]_matchVars => MatchInv'
<1> SUFFICES ASSUME MatchInv, [MatchNext]_matchVars PROVE MatchInv'
  OBVIOUS
<1>0. candidate' = candidate
  BY DEF MatchNext, matchVars, EnrichByLinkedIn, EnrichByName, SearchPeople, ScoreNext, PickWinner
<1>1. CASE UNCHANGED matchVars
  <2>1. \A i \in DOMAIN scored : Gates(scored[i])'
    BY <1>1 DEF matchVars, MatchInv, Gates
  <2>2. VerifyApolloMatch(person) => VerifyApolloMatch(person)'
    BY <1>1 DEF matchVars, VerifyApolloMatch
  <2>4. Gates(person) => Gates(person)'
    BY <1>1 DEF matchVars, Gates
  <2>5. Likeliest(person) => Likeliest(person)'
    BY <1>1 DEF matchVars, Likeliest, Confidence
  <2>3. phase = "reveal" =>
         \/ via = "profile" /\ VerifyApolloMatch(person)'
         \/ via = "search" /\ Gates(person)' /\ Likeliest(person)'
         \/ via = "name"
    <3>1. phase = "reveal" =>
            \/ via = "profile" /\ VerifyApolloMatch(person)
            \/ via = "search" /\ Gates(person) /\ Likeliest(person)
            \/ via = "name"
      BY DEF MatchInv
    <3> QED BY <2>2, <2>4, <2>5, <3>1, Zenon
  <2> QED BY <1>1, <2>1, <2>3 DEF matchVars, MatchInv
<1>2. ASSUME NEW p \in Answers, EnrichByLinkedIn(p) \/ EnrichByName(p) PROVE MatchInv'
  <2>1. UNCHANGED <<candidate, results, scored>> /\ phase \in {"linkedin", "name"} /\ person = NoPerson
    BY <1>2 DEF EnrichByLinkedIn, EnrichByName, MatchInv
  <2>2. \/ phase' = "reveal" /\ person' = p /\ p # NoPerson /\ via' = "profile" /\ VerifyApolloMatch(p)
        \/ phase' = "reveal" /\ person' = p /\ p # NoPerson /\ via' = "name"
        \/ phase' = "search" /\ UNCHANGED <<person, via>> /\ phase = "linkedin"
        \/ phase' \in {"name", "nobody"} /\ UNCHANGED <<person, via>>
    BY <1>2 DEF EnrichByLinkedIn, EnrichByName
  <2>3. \A i \in DOMAIN scored : Gates(scored[i])'
    BY <2>1 DEF MatchInv, Gates
  <2> QED BY <2>1, <2>2, <2>3 DEF MatchInv, VerifyApolloMatch
<1>3. ASSUME NEW found \in SeqOf(People, MaxResults), SearchPeople(found) PROVE MatchInv'
  <2>1. found \in Seq(People)
    <3>1. PICK m \in 0 .. MaxResults : found \in [1 .. m -> People]
      BY DEF SeqOf
    <3>2. m \in Nat
      BY MatchConstants
    <3> QED BY <3>1, <3>2, SeqDef
  <2>2. /\ results' \in Seq(People) /\ Len(results') <= SearchCap /\ phase = "search" /\ phase' = "score"
        /\ UNCHANGED <<scored, person, via>> /\ scored = <<>>
    BY <1>3, <2>1, FilteredIs DEF SearchPeople, MatchInv
  <2>3. Len(results') + Len(<<>>) <= SearchCap
    <3>1. Len(results') \in Nat /\ Len(<<>>) = 0
      BY <2>2
    <3> QED BY <2>2, <3>1, MatchConstants
  <2> QED BY <2>2, <2>3 DEF MatchInv
<1>4. ASSUME NEW answered \in BOOLEAN, ScoreNext(answered) PROVE MatchInv'
  <2>1. /\ results # <<>> /\ results' = Tail(results) /\ phase = "score"
        /\ scored' = IF answered /\ Gates(Head(results)) THEN Append(scored, Head(results)) ELSE scored
        /\ UNCHANGED <<candidate, phase, person, via>>
    BY <1>4 DEF ScoreNext
  <2>2. /\ results' \in Seq(People) /\ Len(results') = Len(results) - 1 /\ Head(results) \in People
        /\ Len(results) \in Nat /\ Len(scored) \in Nat
    BY <2>1 DEF MatchInv
  <2>3. /\ scored' \in Seq(People) /\ Len(scored') <= Len(scored) + 1 /\ Len(scored') \in Nat
        /\ \A i \in DOMAIN scored' : Gates(scored'[i])
    BY <2>1, <2>2 DEF MatchInv
  <2>4. Len(results') + Len(scored') <= SearchCap
    <3>1. Len(results) + Len(scored) <= SearchCap
      BY DEF MatchInv
    <3> QED BY <2>2, <2>3, <3>1, MatchConstants
  <2>5. \A i \in DOMAIN scored' : Gates(scored[i])'
    BY <2>1, <2>3 DEF Gates
  <2> QED BY <2>1, <2>2, <2>3, <2>4, <2>5 DEF MatchInv
<1>5. CASE PickWinner
  <2>1. /\ UNCHANGED <<candidate, results, scored>> /\ person' = Winner(scored) /\ phase = "score"
        /\ phase' = IF Winner(scored) = NoPerson THEN "nobody" ELSE "reveal"
        /\ Winner(scored) # NoPerson => via' = "search"
    BY <1>5 DEF PickWinner
  <2>2. Winner(scored) \in Answers
    BY WinnerIs DEF MatchInv
  <2>3. Winner(scored) # NoPerson => Gates(Winner(scored)) /\ Likeliest(Winner(scored))
    BY WinnerIs DEF MatchInv, Likeliest
  <2>4. phase' = "reveal" => Gates(person)' /\ Likeliest(person)'
    BY <1>0, <2>1, <2>3 DEF Gates, Likeliest, Confidence
  <2>5. \A i \in DOMAIN scored' : Gates(scored[i])'
    BY <1>0, <2>1 DEF Gates, MatchInv
  <2> QED BY <2>1, <2>2, <2>4, <2>5 DEF MatchInv
<1> QED BY <1>1, <1>2, <1>3, <1>4, <1>5 DEF MatchNext

(* enrichment.js:130-160: whoever is revealed or replaces the candidate's profile *)
(* has its first name and organization, and is strictly the likeliest.            *)
THEOREM MatchesAreRight == MatchSpec => [](NoStrangerRevealed /\ MatchTypeOK)
BY MatchImplies, MatchStarts, MatchKept, PTL DEF MatchSpec

-----------------------------------------------------------------------------
(* KrispNotes: whose notes they are. *)

Attendees == Staff \cup Guests
Steps == {"undelivered", "failed", "resolve", "post", "put", "done"}
Handlers == [step : Steps, iso : Isolates \cup {NoOne}, author : Staff \cup {NoOne}, about : Attendees \cup {NoOne}]
Notes == [author : Staff \cup {NoOne}, about : Attendees \cup {NoOne}]

(* A note that may be posted. *)
Rightly(n) ==
    /\ n.about \in Range(participants) \ {n.author}
    /\ n.about \in Staff => n.author \in Range(participants)

KrispTypes ==
    /\ participants \in Seq(Attendees)
    /\ usersDb \subseteq Staff /\ candidates \subseteq Attendees
    /\ \A i \in Isolates : registry[i] = NotLoaded \/ registry[i] \subseteq usersDb
    /\ registry = [i \in Isolates |-> registry[i]]
    /\ deliveries \in [Deliveries -> Handlers]
    /\ \A d \in Deliveries : deliveries[d].step = "resolve" <=> deliveries[d].iso # NoOne
    /\ notes \in Seq(Notes)
    /\ processed \in BOOLEAN /\ together \in BOOLEAN /\ halfDone \in BOOLEAN
    /\ krispFaults \in 0 .. MaxKrispFaults

Attributed ==
    /\ \A d \in Deliveries : deliveries[d].step \in {"post", "put"} => deliveries[d].about \in candidates /\ Rightly(Note(d))
    /\ \A n \in Range(notes) : Rightly(n)

OneAtATime ==
    ~together => /\ \A d, e \in Deliveries : Underway(d) /\ Underway(e) => d = e
                 /\ processed => \A d \in Deliveries : ~Underway(d)

OneNote ==
    ~together /\ ~halfDone =>
        \/ notes = <<>>
        \/ Len(notes) = 1 /\ (processed \/ \E d \in Deliveries : deliveries[d].step = "put")

KrispInv == KrispTypes /\ Attributed /\ OneAtATime /\ OneNote

LEMMA KrispImplies == KrispInv => KrispTypeOK /\ KrispNotesHold
<1> SUFFICES ASSUME KrispInv PROVE KrispTypeOK /\ KrispNotesHold
  OBVIOUS
<1>1. KrispTypeOK
  BY DEF KrispInv, KrispTypes, Attributed, KrispTypeOK, Underway
<1>2. NotedOnce
  <2>1. notes = <<>> => ~(Len(notes) > 1)
    OBVIOUS
  <2>2. Len(notes) = 1 => ~(Len(notes) > 1)
    OBVIOUS
  <2> QED BY <2>1, <2>2 DEF KrispInv, OneNote, NotedOnce
<1>3. NotedOnGuests
  BY DEF KrispInv, Attributed, Rightly, NotedOnGuests
<1> QED BY <1>1, <1>2, <1>3 DEF KrispNotesHold

LEMMA KrispStarts == KrispInit => KrispInv
<1> SUFFICES ASSUME KrispInit PROVE KrispInv
  OBVIOUS
<1>1. Undelivered \in Handlers /\ Undelivered.step = "undelivered" /\ Undelivered.iso = NoOne
  BY DEF Undelivered, Handlers, Steps
<1>2. participants \in Seq(Attendees)
  <2>1. PICK s \in SeqOf(Attendees, 3) : participants = s
    BY DEF KrispInit, Attendees
  <2>2. PICK m \in 0 .. 3 : s \in [1 .. m -> Attendees]
    BY DEF SeqOf
  <2> QED BY <2>1, <2>2, SeqDef
<1>3. \A d \in Deliveries : deliveries[d] = Undelivered
  BY DEF KrispInit
<1> HIDE DEF Undelivered
<1>4. KrispTypes
  <2>1. deliveries \in [Deliveries -> Handlers]
    BY <1>1, <1>3 DEF KrispInit
  <2>2. /\ usersDb \subseteq Staff /\ candidates \subseteq Attendees
        /\ registry = [i \in Isolates |-> registry[i]] /\ \A i \in Isolates : registry[i] = NotLoaded
        /\ notes \in Seq(Notes) /\ krispFaults \in 0 .. MaxKrispFaults
    BY KrispConstants DEF KrispInit, Attendees
  <2>3. processed = FALSE /\ together = FALSE /\ halfDone = FALSE
    BY DEF KrispInit
  <2> QED BY <1>1, <1>2, <1>3, <2>1, <2>2, <2>3 DEF KrispTypes
<1>5. Attributed
  BY <1>1, <1>3 DEF KrispInit, Attributed, Range
<1>6. OneAtATime /\ OneNote
  BY <1>1, <1>3 DEF KrispInit, OneAtATime, OneNote, Underway
<1> QED BY <1>4, <1>5, <1>6 DEF KrispInv

LEMMA FirstOfIs ==
  ASSUME participants \in Seq(Attendees), NEW S, FirstOf(S) # NoOne
  PROVE  FirstOf(S) \in S \cap Range(participants)
<1> DEFINE positions == {i \in DOMAIN participants : participants[i] \in S}
<1>1. positions \subseteq DOMAIN participants /\ DOMAIN participants \subseteq Nat
  OBVIOUS
<1>2. positions # {} /\ FirstOf(S) = participants[Min(positions)]
  BY DEF FirstOf
<1>3. Min(positions) \in positions
  BY <1>1, <1>2, MinIs
<1> QED BY <1>1, <1>2, <1>3 DEF Range

(* The candidate and the author of any registry's staff make a note that may be posted. *)
LEMMA AttributionIs ==
  ASSUME participants \in Seq(Attendees), NEW team, team \subseteq Staff,
         CandidateAmong(team) \in Attendees, AuthorAmong(team) # NoOne
  PROVE  /\ AuthorAmong(team) \in Staff
         /\ Rightly([author |-> AuthorAmong(team), about |-> CandidateAmong(team)])
<1> DEFINE n == [author |-> AuthorAmong(team), about |-> CandidateAmong(team)]
<1>1. n.author = AuthorAmong(team) /\ n.about = CandidateAmong(team)
  OBVIOUS
<1>2. NoOne \notin Attendees
  BY KrispConstants DEF NoOne, Attendees
<1>3. CASE FirstOf(team) # NoOne
  <2>1. AuthorAmong(team) \in team \cap Range(participants)
    BY <1>3, FirstOfIs DEF AuthorAmong
  <2>2. CandidateAmong(team) = FirstOf(Attendees \ team)
    BY <1>3 DEF CandidateAmong, Attendees
  <2>3. CandidateAmong(team) \in (Attendees \ team) \cap Range(participants)
    BY <1>2, <2>2, FirstOfIs
  <2> HIDE DEF n
  <2> QED BY <1>1, <2>1, <2>3 DEF Rightly
<1>4. CASE FirstOf(team) = NoOne
  <2>1. AuthorAmong(team) \in team
    BY <1>4 DEF AuthorAmong
  <2>2. CandidateAmong(team) = FirstOf(Guests \ team)
    BY <1>4 DEF CandidateAmong
  <2>3. CandidateAmong(team) \in (Guests \ team) \cap Range(participants)
    BY <1>2, <2>2, FirstOfIs
  <2> HIDE DEF n
  <2> QED BY <1>1, <2>1, <2>3, KrispConstants DEF Rightly
<1> QED BY <1>3, <1>4

-----------------------------------------------------------------------------
(* A step that moves one delivery. *)
Turned(d, h) ==
    /\ h \in Handlers /\ (h.step = "resolve" <=> h.iso # NoOne)
    /\ deliveries' = [deliveries EXCEPT ![d] = h]

LEMMA TurnedIs ==
  ASSUME KrispTypes, NEW d \in Deliveries, NEW h, Turned(d, h)
  PROVE  /\ deliveries' \in [Deliveries -> Handlers]
         /\ \A e \in Deliveries : deliveries'[e].step = "resolve" <=> deliveries'[e].iso # NoOne
         /\ deliveries'[d] = h /\ \A e \in Deliveries \ {d} : deliveries'[e] = deliveries[e]
<1> DEFINE new == deliveries'
<1>1. new[d] = h /\ (\A e \in Deliveries \ {d} : new[e] = deliveries[e]) /\ new \in [Deliveries -> Handlers]
  BY DEF Turned, KrispTypes
<1> HIDE DEF new
<1>2. \A e \in Deliveries : new[e].step = "resolve" <=> new[e].iso # NoOne
  BY <1>1 DEF Turned, KrispTypes
<1> QED BY <1>1, <1>2 DEF new

(* What a handler is to post, if anything, may be posted. *)
MayPost(h) ==
    h.step \in {"post", "put"} => h.about \in candidates /\ Rightly([author |-> h.author, about |-> h.about])

NotesGrow(d) ==
    notes' = notes \/ (notes' = Append(notes, Note(d)) /\ deliveries[d].step = "post")

(* What keeps the notes right, while the meeting and the candidates stay. *)
LEMMA AttributedKept ==
  ASSUME KrispInv, NEW d \in Deliveries, NEW h, Turned(d, h), UNCHANGED <<participants, candidates>>,
         MayPost(h), NotesGrow(d)
  PROVE  Attributed' /\ notes' \in Seq(Notes)
<1>0. KrispTypes
  BY DEF KrispInv
<1>1. \A n : Rightly(n)' <=> Rightly(n)
  BY DEF Rightly
<1>2. deliveries'[d] = h /\ \A e \in Deliveries \ {d} : deliveries'[e] = deliveries[e]
  BY <1>0, TurnedIs
<1>3. \A e \in Deliveries : deliveries'[e].step \in {"post", "put"} =>
          deliveries'[e].about \in candidates /\ Rightly(Note(e)')
  BY <1>2 DEF KrispInv, Attributed, Note, MayPost
<1>4. Note(d) \in Notes
  BY <1>0 DEF KrispTypes, Note, Handlers, Notes
<1>5. notes \in Seq(Notes) /\ \A n \in Range(notes) : Rightly(n)
  BY <1>0 DEF KrispTypes, KrispInv, Attributed
<1>6. notes' \in Seq(Notes) /\ \A n \in Range(notes') : Rightly(n)
  <2>1. CASE notes' = notes
    BY <1>5, <2>1
  <2>2. CASE notes' = Append(notes, Note(d)) /\ deliveries[d].step = "post"
    <3>1. Rightly(Note(d))
      BY <2>2 DEF KrispInv, Attributed
    <3>2. Append(notes, Note(d)) \in Seq(Notes) /\ \A n \in Range(Append(notes, Note(d))) : n \in Range(notes) \/ n = Note(d)
      BY <1>4, <1>5 DEF Range
    <3> QED BY <1>5, <2>2, <3>1, <3>2
  <2> QED BY <2>1, <2>2 DEF NotesGrow
<1>7. \A e \in Deliveries : Rightly(Note(e)') => Rightly(Note(e))'
  BY DEF Rightly
<1>8. \A e \in Deliveries : (deliveries'[e].step \in {"post", "put"} => deliveries'[e].about \in candidates' /\ Rightly(Note(e))')
  BY <1>3, <1>7
<1>9. (\A n \in Range(notes) : Rightly(n))'
  BY <1>1, <1>6
<1> QED BY <1>6, <1>8, <1>9 DEF Attributed

(* And no more than one handler is underway, unless one began while another was. *)
LEMMA ApartKept ==
  ASSUME KrispInv, NEW d \in Deliveries, NEW h, Turned(d, h),
         together' = together, processed' = processed,
         h.step \in {"resolve", "post", "put"} => Underway(d)
  PROVE  OneAtATime'
<1>1. deliveries'[d] = h /\ \A e \in Deliveries \ {d} : deliveries'[e] = deliveries[e]
  BY TurnedIs DEF KrispInv
<1>2. \A e \in Deliveries : Underway(e)' => Underway(e)
  BY <1>1 DEF Underway
<1>3. ~together => /\ \A b, e \in Deliveries : Underway(b)' /\ Underway(e)' => b = e
                   /\ processed => \A e \in Deliveries : ~Underway(e)'
  BY <1>2 DEF KrispInv, OneAtATime
<1> QED BY <1>3 DEF OneAtATime

LEMMA NoteKept ==
  ASSUME KrispInv, NEW d \in Deliveries, NEW h, Turned(d, h), together => together', halfDone' = halfDone,
         processed' = processed, notes' = notes, deliveries[d].step = "put" => FALSE
  PROVE  OneNote'
<1>1. \A e \in Deliveries \ {d} : deliveries'[e] = deliveries[e]
  BY TurnedIs DEF KrispInv
<1>2. ~together /\ ~halfDone =>
        \/ notes = <<>>
        \/ Len(notes) = 1 /\ (processed \/ \E e \in Deliveries : deliveries[e].step = "put")
  BY DEF KrispInv, OneNote
<1>3. \A e \in Deliveries : deliveries[e].step = "put" => deliveries'[e].step = "put"
  BY <1>1
<1>4. ~together' /\ ~halfDone' =>
        \/ notes' = <<>>
        \/ Len(notes') = 1 /\ (processed' \/ \E e \in Deliveries : deliveries'[e].step = "put")
  BY <1>2, <1>3
<1> QED BY <1>4 DEF OneNote

LEMMA CheckKeyKeeps == ASSUME KrispInv, NEW d \in Deliveries, NEW i \in Isolates, CheckKey(d, i) PROVE KrispInv'
<1> DEFINE h == IF processed THEN [Undelivered EXCEPT !.step = "done"]
                ELSE [Undelivered EXCEPT !.step = "resolve", !.iso = i]
<1>0. KrispTypes
  BY DEF KrispInv
<1>1. /\ deliveries[d].step \in {"undelivered", "failed"} /\ deliveries' = [deliveries EXCEPT ![d] = h]
      /\ together' = (together \/ (~processed /\ \E e \in Deliveries \ {d} : Underway(e)))
      /\ UNCHANGED <<participants, usersDb, registry, candidates, processed, notes, krispFaults, halfDone>>
  BY DEF CheckKey, Skips
<1>2. /\ h \in Handlers /\ (h.step = "resolve" <=> h.iso # NoOne) /\ h.step \in {"done", "resolve"}
      /\ h.step = "resolve" <=> ~processed
  BY KrispConstants DEF Undelivered, Handlers, Steps, NoOne
<1> HIDE DEF h
<1>3. Turned(d, h)
  BY <1>1, <1>2 DEF Turned
<1>4. /\ deliveries' \in [Deliveries -> Handlers] /\ deliveries'[d] = h
      /\ \A e \in Deliveries : deliveries'[e].step = "resolve" <=> deliveries'[e].iso # NoOne
      /\ \A e \in Deliveries \ {d} : deliveries'[e] = deliveries[e]
  BY <1>0, <1>3, TurnedIs
<1>5. together' \in BOOLEAN
  BY <1>1
<1>6. KrispTypes'
  BY <1>0, <1>1, <1>4, <1>5 DEF KrispTypes
<1>7. Attributed'
  <2>1. MayPost(h)
    BY <1>1, <1>2 DEF MayPost
  <2>2. NotesGrow(d) /\ UNCHANGED <<participants, candidates>>
    BY <1>1 DEF NotesGrow
  <2> QED BY <1>3, <2>1, <2>2, AttributedKept
<1>8. OneAtATime'
  <2>1. ~together' => ~together /\ (processed \/ \A e \in Deliveries \ {d} : ~Underway(e))
    BY <1>1
  <2>2. \A e \in Deliveries \ {d} : Underway(e)' <=> Underway(e)
    BY <1>4 DEF Underway
  <2>3. Underway(d)' => ~processed
    BY <1>2, <1>4 DEF Underway
  <2>4. ~together => /\ \A b, e \in Deliveries : Underway(b) /\ Underway(e) => b = e
                     /\ processed => \A e \in Deliveries : ~Underway(e)
    BY DEF KrispInv, OneAtATime
  <2>5. ~together' => /\ \A b, e \in Deliveries : Underway(b)' /\ Underway(e)' => b = e
                      /\ processed => \A e \in Deliveries : ~Underway(e)'
    <3> SUFFICES ASSUME ~together' PROVE /\ \A b, e \in Deliveries : Underway(b)' /\ Underway(e)' => b = e
                                         /\ processed => \A e \in Deliveries : ~Underway(e)'
      OBVIOUS
    <3>1. CASE processed
      BY <2>1, <2>2, <2>3, <2>4, <3>1
    <3>2. CASE ~processed
      BY <2>1, <2>2, <3>2
    <3> QED BY <3>1, <3>2
  <2> QED BY <1>1, <2>5 DEF OneAtATime
<1>9. OneNote'
  <2>1. together => together'
    BY <1>1
  <2> QED BY <1>1, <1>3, <2>1, NoteKept
<1> QED BY <1>6, <1>7, <1>8, <1>9 DEF KrispInv

LEMMA AttributesKeeps == ASSUME KrispInv, NEW d \in Deliveries, Attributes(d) PROVE KrispInv'
<1> DEFINE team == registry[deliveries[d].iso]
           h == IF CandidateAmong(team) \in candidates /\ AuthorAmong(team) # NoOne
                THEN [deliveries[d] EXCEPT !.step = "post", !.iso = NoOne,
                                           !.author = AuthorAmong(team), !.about = CandidateAmong(team)]
                ELSE [Undelivered EXCEPT !.step = "done"]
<1>0. KrispTypes
  BY DEF KrispInv
<1>1. /\ deliveries[d].step = "resolve" /\ team # NotLoaded /\ deliveries' = [deliveries EXCEPT ![d] = h]
      /\ UNCHANGED <<participants, usersDb, registry, candidates, processed, notes, krispFaults, together, halfDone>>
  BY <1>0 DEF Attributes, KrispTypes
<1>2. deliveries[d] \in Handlers /\ deliveries[d].iso \in Isolates /\ participants \in Seq(Attendees)
  BY <1>0, <1>1 DEF KrispTypes, Handlers
<1>3. team \subseteq Staff
  BY <1>0, <1>1, <1>2 DEF KrispTypes
<1>30. candidates \subseteq Attendees
  BY <1>0 DEF KrispTypes
<1> HIDE DEF team
<1>4. /\ h \in Handlers /\ (h.step = "resolve" <=> h.iso # NoOne) /\ h.step \in {"post", "done"}
      /\ h.step = "post" => /\ h.about \in candidates
                            /\ Rightly([author |-> h.author, about |-> h.about])
  <2>1. CASE CandidateAmong(team) \in candidates /\ AuthorAmong(team) # NoOne
    <3>1. CandidateAmong(team) \in Attendees
      BY <1>30, <2>1
    <3>2. AuthorAmong(team) \in Staff /\ Rightly([author |-> AuthorAmong(team), about |-> CandidateAmong(team)])
      BY <1>2, <1>3, <2>1, <3>1, AttributionIs
    <3> DEFINE a == AuthorAmong(team)
               c == CandidateAmong(team)
    <3>3. h = [deliveries[d] EXCEPT !.step = "post", !.iso = NoOne, !.author = a, !.about = c]
      BY <2>1
    <3>4. a \in Staff /\ c \in Attendees /\ c \in candidates /\ Rightly([author |-> a, about |-> c])
      BY <2>1, <3>1, <3>2
    <3> HIDE DEF a, c, h
    <3>5. h.step = "post" /\ h.iso = NoOne /\ h.author = a /\ h.about = c /\ h \in Handlers
      BY <1>2, <3>3, <3>4 DEF Handlers, Steps
    <3> QED BY <3>4, <3>5
  <2>2. CASE ~(CandidateAmong(team) \in candidates /\ AuthorAmong(team) # NoOne)
    BY <2>2 DEF Undelivered, Handlers, Steps
  <2> QED BY <2>1, <2>2
<1> HIDE DEF h
<1>5. Turned(d, h)
  BY <1>1, <1>4 DEF Turned
<1>6. /\ deliveries' \in [Deliveries -> Handlers]
      /\ \A e \in Deliveries : deliveries'[e].step = "resolve" <=> deliveries'[e].iso # NoOne
  BY <1>0, <1>5, TurnedIs
<1>7. KrispTypes'
  BY <1>0, <1>1, <1>6 DEF KrispTypes
<1>8. Attributed'
  <2>1. MayPost(h)
    BY <1>1, <1>4 DEF MayPost
  <2>2. NotesGrow(d) /\ UNCHANGED <<participants, candidates>>
    BY <1>1 DEF NotesGrow
  <2> QED BY <1>5, <2>1, <2>2, AttributedKept
<1>9. OneAtATime' /\ OneNote'
  <2>1. Underway(d)
    BY <1>1 DEF Underway
  <2> QED BY <1>1, <1>5, <2>1, ApartKept, NoteKept
<1> QED BY <1>7, <1>8, <1>9 DEF KrispInv

(* Who posts is alone, unless two began together. *)
LEMMA PostKeeps == ASSUME KrispInv, NEW d \in Deliveries, Post(d) PROVE KrispInv'
<1>0. KrispTypes
  BY DEF KrispInv
<1>1. PICK step \in {"put", "failed"} :
        /\ deliveries[d].step = "post" /\ deliveries' = [deliveries EXCEPT ![d] = [deliveries[d] EXCEPT !.step = step]]
        /\ step = "put" => notes' = Append(notes, Note(d)) /\ halfDone' = halfDone
        /\ notes' \in {notes, Append(notes, Note(d))} /\ (step = "failed" => halfDone' = TRUE)
        /\ UNCHANGED <<participants, usersDb, registry, candidates, processed, together>>
  <2>1. CASE notes' = Append(notes, Note(d)) /\ GoesTo(d, "put") /\ Succeeds /\ UNCHANGED halfDone
    BY <1>0, <2>1 DEF Post, GoesTo, KrispTypes
  <2>2. CASE Failing /\ notes' \in {notes, Append(notes, Note(d))} /\ GoesTo(d, "failed") /\ halfDone' = TRUE
    BY <1>0, <2>2 DEF Post, GoesTo, KrispTypes
  <2> QED BY <2>1, <2>2 DEF Post
<1>2. krispFaults' \in 0 .. MaxKrispFaults /\ halfDone' \in BOOLEAN
  <2>1. krispFaults' \in 0 .. MaxKrispFaults
    BY <1>0, KrispConstants DEF Post, Succeeds, Failing, KrispTypes
  <2>2. halfDone \in BOOLEAN /\ (halfDone' = halfDone \/ halfDone' = TRUE)
    BY <1>0, <1>1 DEF KrispTypes
  <2> QED BY <2>1, <2>2
<1> DEFINE h == [deliveries[d] EXCEPT !.step = step]
<1>3. /\ h \in Handlers /\ h.step = step /\ h.iso = deliveries[d].iso /\ deliveries[d].iso = NoOne
      /\ h.author = deliveries[d].author /\ h.about = deliveries[d].about
  BY <1>0, <1>1 DEF KrispTypes, Handlers, Steps
<1>4. deliveries' = [deliveries EXCEPT ![d] = h]
  BY <1>1
<1> HIDE DEF h
<1>5. Turned(d, h)
  BY <1>3, <1>4 DEF Turned
<1>6. /\ deliveries' \in [Deliveries -> Handlers] /\ deliveries'[d] = h
      /\ \A e \in Deliveries : deliveries'[e].step = "resolve" <=> deliveries'[e].iso # NoOne
      /\ \A e \in Deliveries \ {d} : deliveries'[e] = deliveries[e]
  BY <1>0, <1>5, TurnedIs
<1>7. h.about \in candidates /\ Rightly([author |-> h.author, about |-> h.about])
  BY <1>1, <1>3 DEF KrispInv, Attributed, Note
<1>8. Attributed' /\ notes' \in Seq(Notes)
  <2>1. MayPost(h)
    BY <1>7 DEF MayPost
  <2>2. NotesGrow(d) /\ UNCHANGED <<participants, candidates>>
    BY <1>1 DEF NotesGrow
  <2> QED BY <1>5, <2>1, <2>2, AttributedKept
<1>9. KrispTypes'
  BY <1>0, <1>1, <1>2, <1>6, <1>8 DEF KrispTypes
<1>10. OneAtATime'
  <2>1. Underway(d)
    BY <1>1 DEF Underway
  <2> QED BY <1>1, <1>5, <2>1, ApartKept
<1>11. OneNote'
  <2> SUFFICES ASSUME ~together', ~halfDone'
               PROVE  Len(notes') = 1 /\ \E e \in Deliveries : deliveries'[e].step = "put"
    BY DEF OneNote
  <2>1. step = "put" /\ ~together /\ ~halfDone /\ notes' = Append(notes, Note(d))
    BY <1>1
  <2>2. \A e \in Deliveries : Underway(e) => e = d
    BY <1>1, <2>1 DEF KrispInv, OneAtATime, Underway
  <2>3. ~processed
    BY <1>1, <2>1 DEF KrispInv, OneAtATime, Underway
  <2>4. \A e \in Deliveries : deliveries[e].step # "put"
    BY <1>1, <2>2 DEF Underway
  <2>5. notes = <<>>
    BY <2>1, <2>3, <2>4 DEF KrispInv, OneNote
  <2>6. Len(notes') = 1
    BY <2>1, <2>5
  <2> QED BY <1>3, <1>6, <2>1, <2>6
<1> QED BY <1>8, <1>9, <1>10, <1>11 DEF KrispInv

LEMMA PutKeyKeeps == ASSUME KrispInv, NEW d \in Deliveries, PutKey(d) PROVE KrispInv'
<1>0. KrispTypes
  BY DEF KrispInv
<1>1. PICK step \in {"done", "failed"} :
        /\ deliveries[d].step = "put" /\ deliveries' = [deliveries EXCEPT ![d] = [deliveries[d] EXCEPT !.step = step]]
        /\ step = "done" => processed' = TRUE /\ halfDone' = halfDone
        /\ step = "failed" => processed' = processed /\ halfDone' = TRUE
        /\ UNCHANGED <<participants, usersDb, registry, candidates, notes, together>>
  <2>1. CASE processed' = TRUE /\ GoesTo(d, "done") /\ Succeeds /\ UNCHANGED halfDone
    BY <1>0, <2>1 DEF PutKey, GoesTo, KrispTypes
  <2>2. CASE Failing /\ GoesTo(d, "failed") /\ halfDone' = TRUE /\ UNCHANGED processed
    BY <1>0, <2>2 DEF PutKey, GoesTo, KrispTypes
  <2> QED BY <2>1, <2>2 DEF PutKey
<1>2. krispFaults' \in 0 .. MaxKrispFaults /\ halfDone' \in BOOLEAN /\ processed' \in BOOLEAN
  <2>1. krispFaults' \in 0 .. MaxKrispFaults
    BY <1>0, KrispConstants DEF PutKey, Succeeds, Failing, KrispTypes
  <2> QED BY <1>0, <1>1, <2>1 DEF KrispTypes
<1> DEFINE h == [deliveries[d] EXCEPT !.step = step]
<1>3. h \in Handlers /\ h.step = step /\ h.iso = deliveries[d].iso /\ deliveries[d].iso = NoOne
  BY <1>0, <1>1 DEF KrispTypes, Handlers, Steps
<1>4. deliveries' = [deliveries EXCEPT ![d] = h]
  BY <1>1
<1> HIDE DEF h
<1>5. Turned(d, h)
  BY <1>3, <1>4 DEF Turned
<1>6. /\ deliveries' \in [Deliveries -> Handlers] /\ deliveries'[d] = h
      /\ \A e \in Deliveries : deliveries'[e].step = "resolve" <=> deliveries'[e].iso # NoOne
      /\ \A e \in Deliveries \ {d} : deliveries'[e] = deliveries[e]
  BY <1>0, <1>5, TurnedIs
<1>7. Attributed'
  <2>1. MayPost(h)
    BY <1>1, <1>3 DEF MayPost
  <2>2. NotesGrow(d) /\ UNCHANGED <<participants, candidates>>
    BY <1>1 DEF NotesGrow
  <2> QED BY <1>5, <2>1, <2>2, AttributedKept
<1>8. KrispTypes'
  BY <1>0, <1>1, <1>2, <1>6 DEF KrispTypes
<1>9. OneAtATime'
  <2>1. ~together => \A e \in Deliveries : Underway(e) => e = d
    BY <1>1 DEF KrispInv, OneAtATime, Underway
  <2>2. ~Underway(d)' /\ \A e \in Deliveries \ {d} : Underway(e)' => Underway(e)
    BY <1>3, <1>6 DEF Underway
  <2>3. ~together => \A e \in Deliveries : ~Underway(e)'
    BY <2>1, <2>2
  <2> QED BY <1>1, <2>3 DEF OneAtATime
<1>10. OneNote'
  <2>1. ~together' /\ ~halfDone' => processed' = TRUE /\ ~together /\ ~halfDone
    BY <1>1
  <2>2. ~together' /\ ~halfDone' => notes = <<>> \/ Len(notes) = 1
    BY <2>1 DEF KrispInv, OneNote
  <2> QED BY <1>1, <2>1, <2>2 DEF OneNote
<1> QED BY <1>7, <1>8, <1>9, <1>10 DEF KrispInv

(* A read of the staff that fails ends who waits for it. *)
LEMMA LoadUsersKeeps == ASSUME KrispInv, NEW i \in Isolates, LoadUsers(i) PROVE KrispInv'
<1>0. KrispTypes
  BY DEF KrispInv
<1>1. /\ registry[i] = NotLoaded
      /\ UNCHANGED <<participants, usersDb, candidates, processed, notes, together, halfDone>>
  BY DEF LoadUsers
<1>2. krispFaults' \in 0 .. MaxKrispFaults
  BY <1>0, KrispConstants DEF LoadUsers, Succeeds, Failing, KrispTypes
<1>3. /\ \A j \in Isolates : registry'[j] = registry[j] \/ registry'[j] = usersDb
      /\ registry' = [j \in Isolates |-> registry'[j]]
  <2>1. CASE registry' = [registry EXCEPT ![i] = usersDb]
    BY <1>0, <2>1 DEF KrispTypes
  <2>2. CASE registry' = registry
    BY <1>0, <2>2 DEF KrispTypes
  <2> QED BY <2>1, <2>2 DEF LoadUsers
<1> DEFINE failed == [Undelivered EXCEPT !.step = "failed"]
<1>4. failed \in Handlers /\ failed.step = "failed" /\ failed.iso = NoOne
  BY DEF Undelivered, Handlers, Steps
<1>5. \/ deliveries' = deliveries
      \/ deliveries' = [d \in Deliveries |-> IF deliveries[d].iso = i THEN failed ELSE deliveries[d]]
  BY DEF LoadUsers
<1> HIDE DEF failed
<1>6. /\ deliveries' \in [Deliveries -> Handlers]
      /\ \A d \in Deliveries : deliveries'[d] = deliveries[d] \/ (deliveries'[d] = failed /\ deliveries[d].iso = i)
  <2>1. CASE deliveries' = deliveries
    BY <1>0, <2>1 DEF KrispTypes
  <2>2. CASE deliveries' = [d \in Deliveries |-> IF deliveries[d].iso = i THEN failed ELSE deliveries[d]]
    BY <1>0, <1>4, <2>2 DEF KrispTypes
  <2> QED BY <1>5, <2>1, <2>2
<1>7. i # NoOne
  BY KrispConstants DEF NoOne
<1>8. \A d \in Deliveries : deliveries'[d] = failed => deliveries[d].step = "resolve" \/ deliveries[d] = failed
  BY <1>0, <1>6, <1>7 DEF KrispTypes
<1>9. KrispTypes'
  <2>1. \A d \in Deliveries : deliveries'[d].step = "resolve" <=> deliveries'[d].iso # NoOne
    BY <1>0, <1>4, <1>6 DEF KrispTypes
  <2>2. \A j \in Isolates : registry'[j] = NotLoaded \/ registry'[j] \subseteq usersDb
    BY <1>0, <1>3 DEF KrispTypes
  <2> QED BY <1>0, <1>1, <1>2, <1>3, <1>6, <2>1, <2>2 DEF KrispTypes
<1>10. Attributed'
  <2>1. \A n : Rightly(n)' <=> Rightly(n)
    BY <1>1 DEF Rightly
  <2>2. \A d \in Deliveries : deliveries'[d].step \in {"post", "put"} => deliveries'[d] = deliveries[d]
    BY <1>4, <1>6
  <2>3. \A d \in Deliveries : deliveries'[d].step \in {"post", "put"} =>
            deliveries'[d].about \in candidates /\ Rightly(Note(d)')
    BY <2>2 DEF KrispInv, Attributed, Note
  <2>4. \A d \in Deliveries : Rightly(Note(d)') => Rightly(Note(d))'
    BY <1>1 DEF Rightly
  <2>5. \A d \in Deliveries : (deliveries'[d].step \in {"post", "put"} =>
            deliveries'[d].about \in candidates' /\ Rightly(Note(d))')
    BY <1>1, <2>3, <2>4
  <2>6. (\A n \in Range(notes) : Rightly(n))'
    BY <1>1, <2>1 DEF KrispInv, Attributed
  <2> QED BY <2>5, <2>6 DEF Attributed
<1>11. OneAtATime'
  <2>1. \A d \in Deliveries : Underway(d)' => Underway(d)
    BY <1>4, <1>6 DEF Underway
  <2> QED BY <1>1, <2>1 DEF KrispInv, OneAtATime
<1>12. OneNote'
  <2>1. \A d \in Deliveries : deliveries[d].step = "put" => deliveries'[d].step = "put"
    BY <1>4, <1>6, <1>8
  <2> QED BY <1>1, <2>1 DEF KrispInv, OneNote
<1> QED BY <1>9, <1>10, <1>11, <1>12 DEF KrispInv

LEMMA KrispKept == KrispInv /\ [KrispNext]_krispVars => KrispInv'
<1> SUFFICES ASSUME KrispInv, [KrispNext]_krispVars PROVE KrispInv'
  OBVIOUS
<1>0. KrispTypes
  BY DEF KrispInv
<1>1. ASSUME UNCHANGED <<participants, candidates, processed, deliveries, notes, krispFaults, together, halfDone>>,
             usersDb \subseteq usersDb', usersDb' \subseteq Staff,
             registry' = [i \in Isolates |-> registry'[i]],
             \A i \in Isolates : registry'[i] = NotLoaded \/ registry'[i] \subseteq usersDb'
      PROVE  KrispInv'
  <2>1. KrispTypes'
    BY <1>0, <1>1 DEF KrispTypes
  <2>2. Attributed'
    BY <1>1 DEF KrispInv, Attributed, Note, Rightly
  <2>3. OneAtATime'
    BY <1>1 DEF KrispInv, OneAtATime, Underway
  <2>4. OneNote'
    BY <1>1 DEF KrispInv, OneNote
  <2> QED BY <2>1, <2>2, <2>3, <2>4 DEF KrispInv
<1>2. CASE UNCHANGED krispVars
  BY <1>0, <1>1, <1>2 DEF krispVars, KrispTypes
<1>3. ASSUME NEW user \in Staff, Registers(user) PROVE KrispInv'
  BY <1>0, <1>1, <1>3 DEF Registers, KrispTypes
<1>4. ASSUME NEW i \in Isolates, Restarts(i) PROVE KrispInv'
  BY <1>0, <1>1, <1>4 DEF Restarts, KrispTypes
<1> QED
  BY <1>2, <1>3, <1>4, LoadUsersKeeps, CheckKeyKeeps, AttributesKeeps, PostKeeps, PutKeyKeeps DEF KrispNext

(* A meeting's note is posted once, and about a participant who did not write it. *)
THEOREM NotesAreRight == KrispSpec => [](KrispNotesHold /\ KrispTypeOK)
<1>1. KrispInit => KrispInv
  BY KrispStarts
<1>2. KrispInv /\ [KrispNext]_krispVars => KrispInv'
  BY KrispKept
<1>3. KrispInv => KrispNotesHold /\ KrispTypeOK
  BY KrispImplies
<1> QED BY <1>1, <1>2, <1>3, PTL DEF KrispSpec

-----------------------------------------------------------------------------
(* CacheRebuild: the rows that are passed over. *)

RunSteps == {"idle", "claim", "search", "stamp", "fetch", "write", "release"}
Runs ==
    [step : RunSteps, todo : SUBSET Persons, got : [who : Persons \cup {"none"}, version : Nat],
     looked : Nat, cursor : Nat \cup {Never}]

Holding(run) == run.step \notin {"idle", "claim"}
Looking(run) == run.step \in {"search", "stamp", "fetch", "write"}
Gathering(run) == run.step \in {"stamp", "fetch", "write"}

RunShape(w, run) ==
    /\ run \in Runs /\ run.looked <= legacyTime
    /\ w \in Tails /\ Gathering(run) => run.cursor \in 0 .. legacyTime
    /\ run.step = "write" =>
         /\ run.got.who \in Persons /\ run.got.version <= rfRow[run.got.who].version
         /\ run.got.version = rfRow[run.got.who].version \/ rfRow[run.got.who].at >= run.looked

RebuildShape ==
    /\ legacyTime \in 0 .. MaxLegacyTime /\ syncedAt \in 0 .. legacyTime
    /\ rfRow \in [Persons -> [version : Nat, at : Nat]] /\ cachedRow \in [Persons -> Nat]
    /\ \A c \in Persons : cachedRow[c] <= rfRow[c].version
    /\ writer \in [Writers -> Runs] /\ \A w \in Writers : RunShape(w, writer[w])
    /\ overlapped \in BOOLEAN

\* Whoever was stale when the run looked is among those it reads, has just been
\* read, or is of a day that the cursor does not pass.
Covers(run) ==
    \A c \in Persons : Stale(c) /\ rfRow[c].at < run.looked /\ c \notin passed =>
        \/ c \in run.todo
        \/ run.step = "write" /\ run.got.who = c /\ run.got.version = rfRow[c].version
        \/ run.step # "stamp" /\ DayOf(rfRow[c].at) >= DayOf(run.cursor)

NoneForgotten == \A c \in Persons : Stale(c) /\ DayOf(rfRow[c].at) < DayOf(syncedAt) => c \in passed

RunsApart ==
    /\ \A v, w \in Writers : v # w => ~Holding(writer[v]) \/ ~Holding(writer[w])
    /\ \A w \in Writers : Looking(writer[w]) => syncedAt <= writer[w].looked
    /\ \A w \in Tails : Gathering(writer[w]) => Covers(writer[w])
    /\ NoneForgotten

RebuildInv == RebuildShape /\ (overlapped \/ RunsApart)

-----------------------------------------------------------------------------
LEMMA DayOrder == ASSUME NEW a \in Nat, NEW b \in Nat, a <= b PROVE DayOf(a) <= DayOf(b)
BY RebuildConstants DEF DayOf

LEMMA DayRange == ASSUME NEW a \in Nat PROVE DayOf(a) \in Nat
BY RebuildConstants DEF DayOf

LEMMA AtRestShape == AtRest \in Runs /\ ~Holding(AtRest) /\ AtRest.looked = 0
BY DEF AtRest, Runs, RunSteps, Nothing, Holding, Never

LEMMA RebuildImplies == RebuildInv => RebuildTypeOK /\ StaleWasPassed
<1> SUFFICES ASSUME RebuildInv PROVE RebuildTypeOK /\ StaleWasPassed
  OBVIOUS
<1>1. legacyTime \in 0 .. MaxLegacyTime /\ syncedAt \in 0 .. MaxLegacyTime
  BY RebuildConstants DEF RebuildInv, RebuildShape
<1>2. \A c \in Persons : cachedRow[c] \in 0 .. rfRow[c].version
  BY DEF RebuildInv, RebuildShape
<1>3. \A w \in Writers : writer[w].step \in RunSteps /\ writer[w].todo \subseteq Persons
  BY DEF RebuildInv, RebuildShape, Runs
<1>4. StaleWasPassed
  BY DEF RebuildInv, RunsApart, NoneForgotten, StaleWasPassed
<1> QED BY <1>1, <1>2, <1>3, <1>4 DEF RebuildTypeOK, RunSteps

LEMMA RebuildStarts == RebuildInit => RebuildInv
<1> SUFFICES ASSUME RebuildInit PROVE RebuildInv
  OBVIOUS
<1>1. DayTicks \in 0 .. MaxLegacyTime /\ DayTicks \in Nat
  BY RebuildConstants
<1>2. /\ rfRow \in [Persons -> [version : Nat, at : Nat]] /\ cachedRow \in [Persons -> Nat]
      /\ \A c \in Persons : cachedRow[c] = 1 /\ rfRow[c].version = 1
  BY <1>1 DEF RebuildInit
<1>3. writer \in [Writers -> Runs] /\ \A w \in Writers : writer[w] = AtRest
  BY AtRestShape DEF RebuildInit
<1>4. \A w \in Writers : RunShape(w, writer[w]) /\ ~Holding(writer[w]) /\ ~Looking(writer[w])
                         /\ ~Gathering(writer[w])
  BY <1>1, <1>3, AtRestShape DEF RebuildInit, RunShape, Holding, Looking, Gathering
<1>5. overlapped \in BOOLEAN
  BY Zenon DEF RebuildInit
<1>6. RebuildShape
  BY <1>1, <1>2, <1>3, <1>4, <1>5 DEF RebuildInit, RebuildShape
<1>7. RunsApart
  BY <1>2, <1>4 DEF RunsApart, NoneForgotten, Stale, Writers
<1> QED BY <1>6, <1>7 DEF RebuildInv

(* A run that moves nothing but itself. *)
LEMMA RunMoves ==
  ASSUME RebuildInv, NEW w \in Writers, NEW run, writer' = [writer EXCEPT ![w] = run], RunShape(w, run),
         UNCHANGED <<legacyTime, rfRow, cachedRow, syncedAt, passed>>,
         overlapped' \in BOOLEAN, overlapped => overlapped',
         overlapped' \/ ~Holding(run) \/ \A o \in Writers \ {w} : ~Holding(writer[o]),
         overlapped' \/ (/\ Looking(run) => syncedAt <= run.looked
                         /\ w \in Tails /\ Gathering(run) => Covers(run))
  PROVE  RebuildInv'
<1>1. \A v \in Writers : writer'[v] = IF v = w THEN run ELSE writer[v]
  BY DEF RebuildInv, RebuildShape
<1>2. RebuildShape'
  <2>1. writer' \in [Writers -> Runs]
    BY DEF RebuildInv, RebuildShape, RunShape
  <2>2. \A v \in Writers : RunShape(v, writer'[v])
    BY <1>1 DEF RebuildInv, RebuildShape
  <2>3. \A v \in Writers : RunShape(v, writer[v])'
    BY <2>2 DEF RunShape
  <2> QED BY <2>1, <2>3 DEF RebuildInv, RebuildShape
<1>3. ASSUME ~overlapped' PROVE RunsApart'
  <2>1. RunsApart
    BY <1>3 DEF RebuildInv
  <2>2. \A u, v \in Writers : u # v => ~Holding(writer'[u]) \/ ~Holding(writer'[v])
    BY <1>1, <1>3, <2>1 DEF RunsApart
  <2>3. \A v \in Writers : Looking(writer'[v]) => syncedAt <= writer'[v].looked
    BY <1>1, <1>3, <2>1 DEF RunsApart
  <2>4. \A v \in Tails : Gathering(writer'[v]) => Covers(writer'[v])
    BY <1>1, <1>3, <2>1 DEF RunsApart, Writers
  <2>5. NoneForgotten'
    BY <2>1 DEF RunsApart, NoneForgotten, Stale
  <2>6. \A v \in Tails : Gathering(writer[v])' => Covers(writer[v])'
    BY <2>4 DEF Covers, Gathering, Stale
  <2> QED BY <2>2, <2>3, <2>5, <2>6 DEF RunsApart, Holding, Looking
<1> QED BY <1>2, <1>3 DEF RebuildInv

(* So it does when it rests, or says what it does next. *)
LEMMA RunRests ==
  ASSUME RebuildInv, NEW w \in Writers, NEW s \in {"idle", "claim", "release"},
         writer' = [writer EXCEPT ![w] = [AtRest EXCEPT !.step = s]],
         s = "release" => Holding(writer[w]),
         UNCHANGED <<legacyTime, rfRow, cachedRow, syncedAt, passed, overlapped>>
  PROVE  RebuildInv'
<1> DEFINE run == [AtRest EXCEPT !.step = s]
<1>1. run \in Runs /\ run.step = s /\ run.looked = 0
  BY DEF AtRest, Runs, RunSteps, Nothing, Never
<1> HIDE DEF run
<1>2. RunShape(w, run) /\ ~Looking(run) /\ ~Gathering(run)
  BY <1>1 DEF RebuildInv, RebuildShape, RunShape, Looking, Gathering
<1>3. Holding(run) => Holding(writer[w])
  BY <1>1 DEF Holding
<1>4. overlapped \in BOOLEAN
  BY DEF RebuildInv, RebuildShape
<1>5. overlapped \/ ~Holding(run) \/ \A o \in Writers \ {w} : ~Holding(writer[o])
  BY <1>3 DEF RebuildInv, RunsApart
<1>6. writer' = [writer EXCEPT ![w] = run]
  BY DEF run
<1> QED BY <1>2, <1>4, <1>5, <1>6, RunMoves

LEMMA RunSettles ==
  ASSUME RebuildInv, NEW w \in Writers, Begins(w) \/ Throws(w) \/ Killed(w) \/ Releases(w)
  PROVE  RebuildInv'
<1>1. CASE Begins(w)
  <2>1. writer' = [writer EXCEPT ![w] = [AtRest EXCEPT !.step = "claim"]]
        /\ UNCHANGED <<legacyTime, rfRow, cachedRow, syncedAt, passed, overlapped>>
    BY <1>1 DEF Begins, Goes, Becomes
  <2> QED BY <2>1, RunRests
<1>2. CASE Throws(w)
  <2>1. writer' = [writer EXCEPT ![w] = [AtRest EXCEPT !.step = "release"]] /\ Holding(writer[w])
        /\ UNCHANGED <<legacyTime, rfRow, cachedRow, syncedAt, passed, overlapped>>
    BY <1>2 DEF Throws, Goes, Becomes, Holding
  <2> QED BY <2>1, RunRests
<1>3. CASE Killed(w) \/ Releases(w)
  <2>1. writer' = [writer EXCEPT ![w] = AtRest]
        /\ UNCHANGED <<legacyTime, rfRow, cachedRow, syncedAt, passed, overlapped>>
    BY <1>3 DEF Killed, Releases, Becomes
  <2>2. AtRest = [AtRest EXCEPT !.step = "idle"]
    BY DEF AtRest
  <2> QED BY <2>1, <2>2, RunRests
<1> QED BY <1>1, <1>2, <1>3

LEMMA ClaimsKeep == ASSUME RebuildInv, NEW w \in Writers, Claims(w) PROVE RebuildInv'
<1>1. PICK only \in SUBSET Persons :
        writer' = [writer EXCEPT ![w] =
                    [AtRest EXCEPT !.step = IF w \in Tails THEN "search" ELSE "fetch", !.todo = only,
                                   !.looked = legacyTime]]
  BY DEF Claims, Becomes
<1> DEFINE run == [AtRest EXCEPT !.step = IF w \in Tails THEN "search" ELSE "fetch", !.todo = only,
                                 !.looked = legacyTime]
<1>2. /\ UNCHANGED <<legacyTime, rfRow, cachedRow, syncedAt, passed>>
      /\ overlapped' = (overlapped \/ \E o \in Writers \ {w} : writer[o].step \notin {"idle", "claim"})
  BY DEF Claims
<1>3. legacyTime \in Nat /\ syncedAt <= legacyTime
  BY RebuildConstants DEF RebuildInv, RebuildShape
<1>4. /\ run \in Runs /\ run.looked = legacyTime /\ run.step = IF w \in Tails THEN "search" ELSE "fetch"
  BY <1>3 DEF AtRest, Runs, RunSteps, Nothing, Never
<1>5. writer' = [writer EXCEPT ![w] = run]
  BY <1>1
<1> HIDE DEF run
<1>6. RunShape(w, run) /\ (w \in Tails => ~Gathering(run)) /\ syncedAt <= run.looked
  BY <1>3, <1>4 DEF RunShape, Gathering
<1>7. /\ overlapped' \in BOOLEAN /\ (overlapped => overlapped')
  BY <1>2, Zenon
<1>8. overlapped' \/ \A o \in Writers \ {w} : ~Holding(writer[o])
  BY <1>2, Zenon DEF Holding
<1> QED BY <1>2, <1>5, <1>6, <1>7, <1>8, RunMoves

(* A step of a run that holds the lease, and reads. *)
LEMMA RunReads ==
  ASSUME RebuildInv, NEW w \in Writers, NEW run, writer' = [writer EXCEPT ![w] = run],
         Holding(writer[w]), RunShape(w, run),
         UNCHANGED <<legacyTime, rfRow, cachedRow, syncedAt, passed, overlapped>>,
         ~overlapped => /\ syncedAt <= run.looked
                        /\ w \in Tails /\ Gathering(run) => Covers(run)
  PROVE  RebuildInv'
<1>1. overlapped \in BOOLEAN
  BY DEF RebuildInv, RebuildShape
<1>2. overlapped \/ \A o \in Writers \ {w} : ~Holding(writer[o])
  BY DEF RebuildInv, RunsApart
<1> QED BY <1>1, <1>2, RunMoves

LEMMA SearchesKeep == ASSUME RebuildInv, NEW w \in Writers, Searches(w) PROVE RebuildInv'
<1>1. /\ legacyTime \in Nat /\ syncedAt \in 0 .. legacyTime /\ syncedAt # Never
      /\ writer[w] \in Runs
  BY RebuildConstants DEF RebuildInv, RebuildShape, Never
<1>2. PICK ids \in SUBSET Persons :
        /\ ids \subseteq ActiveSince(syncedAt)
        /\ IF Cardinality(ActiveSince(syncedAt)) <= HardCap THEN ids = ActiveSince(syncedAt)
           ELSE Cardinality(ids) = HardCap
        /\ writer' = [writer EXCEPT ![w] =
             [writer[w] EXCEPT !.todo = ids, !.looked = legacyTime, !.cursor = syncedAt,
                               !.step = IF Cardinality(ids) = HardCap THEN "fetch" ELSE "stamp"]]
  BY <1>1 DEF Searches, Becomes
<1> DEFINE s == IF Cardinality(ids) = HardCap THEN "fetch" ELSE "stamp"
           run == [writer[w] EXCEPT !.todo = ids, !.looked = legacyTime, !.cursor = syncedAt, !.step = s]
<1>3. writer' = [writer EXCEPT ![w] = run]
  BY <1>2
<1>4. s \in {"fetch", "stamp"} /\ (s = "stamp" => ids = ActiveSince(syncedAt))
  BY <1>2
<1> HIDE DEF s
<1>5. /\ run \in Runs /\ run.todo = ids /\ run.looked = legacyTime /\ run.cursor = syncedAt /\ run.step = s
  <2>1. syncedAt \in Nat \cup {Never} /\ s \in RunSteps /\ ids \in SUBSET Persons
    BY <1>1, <1>4 DEF RunSteps
  <2>2. run \in Runs
    BY <1>1, <2>1 DEF Runs
  <2> QED BY <1>1, <2>2 DEF Runs
<1> HIDE DEF run
<1>6. RunShape(w, run)
  BY <1>1, <1>4, <1>5 DEF RunShape
<1>7. ASSUME ~overlapped PROVE Covers(run)
  <2>1. ASSUME NEW c \in Persons, Stale(c), c \notin passed PROVE c \in ActiveSince(syncedAt)
    <3>1. ~(DayOf(rfRow[c].at) < DayOf(syncedAt))
      BY <1>7, <2>1 DEF RebuildInv, RunsApart, NoneForgotten
    <3>2. rfRow[c].at \in Nat /\ syncedAt \in Nat
      BY <1>1 DEF RebuildInv, RebuildShape
    <3>3. DayOf(rfRow[c].at) \in Nat /\ DayOf(syncedAt) \in Nat
      BY <3>2, DayRange
    <3> QED BY <3>1, <3>3 DEF ActiveSince
  <2>2. ASSUME NEW c \in Persons, Stale(c), c \notin passed
        PROVE  c \in run.todo \/ (run.step # "stamp" /\ DayOf(rfRow[c].at) >= DayOf(run.cursor))
    BY <1>4, <1>5, <2>1, <2>2 DEF ActiveSince
  <2> QED BY <2>2 DEF Covers
<1>8. Holding(writer[w]) /\ UNCHANGED <<legacyTime, rfRow, cachedRow, syncedAt, passed, overlapped>>
  BY DEF Searches, Holding
<1>9. syncedAt <= run.looked
  BY <1>1, <1>5
<1> QED BY <1>3, <1>6, <1>7, <1>8, <1>9, RunReads

LEMMA NewCursorKeeps == ASSUME RebuildInv, NEW w \in Writers, NewCursor(w) PROVE RebuildInv'
<1> DEFINE run == [writer[w] EXCEPT !.step = "fetch", !.cursor = legacyTime]
<1>1. /\ writer' = [writer EXCEPT ![w] = run] /\ writer[w].step = "stamp"
      /\ UNCHANGED <<legacyTime, rfRow, cachedRow, syncedAt, passed, overlapped>>
  BY DEF NewCursor, Becomes
<1>2. legacyTime \in Nat /\ writer[w] \in Runs /\ RunShape(w, writer[w])
  BY RebuildConstants DEF RebuildInv, RebuildShape
<1>3. /\ run \in Runs /\ run.todo = writer[w].todo /\ run.looked = writer[w].looked
      /\ run.cursor = legacyTime /\ run.step = "fetch"
  BY <1>2 DEF Runs, RunSteps
<1> HIDE DEF run
<1>4. RunShape(w, run) /\ Holding(writer[w])
  BY <1>1, <1>2, <1>3 DEF RunShape, Holding
<1>5. ASSUME ~overlapped, w \in Tails PROVE Covers(run)
  BY <1>1, <1>3, <1>5 DEF RebuildInv, RunsApart, Gathering, Covers
<1>6. ~overlapped => syncedAt <= run.looked
  BY <1>1, <1>3 DEF RebuildInv, RunsApart, Looking
<1> QED BY <1>1, <1>4, <1>5, <1>6, RunReads

LEMMA FetchesKeep ==
  ASSUME RebuildInv, NEW w \in Writers, NEW c \in Persons, FetchesOne(w, c) PROVE RebuildInv'
<1> DEFINE got == [who |-> c, version |-> rfRow[c].version]
           run == [writer[w] EXCEPT !.step = "write", !.todo = @ \ {c}, !.got = got]
<1>1. /\ writer' = [writer EXCEPT ![w] = run] /\ writer[w].step = "fetch"
      /\ UNCHANGED <<legacyTime, rfRow, cachedRow, syncedAt, passed, overlapped>>
  BY DEF FetchesOne, Becomes
<1>2. writer[w] \in Runs /\ RunShape(w, writer[w]) /\ rfRow[c].version \in Nat
  BY DEF RebuildInv, RebuildShape
<1>3. got \in [who : Persons \cup {"none"}, version : Nat] /\ got.who = c /\ got.version = rfRow[c].version
  BY <1>2
<1> HIDE DEF got
<1>4. /\ run \in Runs /\ run.todo = writer[w].todo \ {c} /\ run.looked = writer[w].looked
      /\ run.cursor = writer[w].cursor /\ run.step = "write" /\ run.got = got
  BY <1>2, <1>3 DEF Runs, RunSteps
<1> HIDE DEF run
<1>5. RunShape(w, run) /\ Holding(writer[w])
  BY <1>1, <1>2, <1>3, <1>4 DEF RunShape, Holding, Gathering
<1>6. ASSUME ~overlapped, w \in Tails PROVE Covers(run)
  BY <1>1, <1>3, <1>4, <1>6 DEF RebuildInv, RunsApart, Gathering, Covers
<1>7. ~overlapped => syncedAt <= run.looked
  BY <1>1, <1>4 DEF RebuildInv, RunsApart, Looking
<1> QED BY <1>1, <1>5, <1>6, <1>7, RunReads

LEMMA WritesKeep == ASSUME RebuildInv, NEW w \in Writers, WritesOne(w) PROVE RebuildInv'
<1> DEFINE got == writer[w].got
           run == [writer[w] EXCEPT !.step = "fetch", !.got = Nothing]
<1>1. /\ writer' = [writer EXCEPT ![w] = run] /\ writer[w].step = "write"
      /\ cachedRow' = [cachedRow EXCEPT ![got.who] = got.version]
      /\ UNCHANGED <<legacyTime, rfRow, syncedAt, passed, overlapped>>
  BY DEF WritesOne, Becomes
<1>2. /\ writer \in [Writers -> Runs] /\ writer[w] \in Runs /\ RunShape(w, writer[w])
      /\ cachedRow \in [Persons -> Nat]
      /\ got.who \in Persons /\ got.version \in Nat /\ got.version <= rfRow[got.who].version
      /\ got.version = rfRow[got.who].version \/ rfRow[got.who].at >= writer[w].looked
  BY <1>1 DEF RebuildInv, RebuildShape, RunShape, Runs
<1>3. /\ run \in Runs /\ run.todo = writer[w].todo /\ run.looked = writer[w].looked
      /\ run.cursor = writer[w].cursor /\ run.step = "fetch"
  BY <1>2 DEF Runs, RunSteps, Nothing
<1> HIDE DEF run, got
<1>4. \A v \in Writers : writer'[v] = IF v = w THEN run ELSE writer[v]
  BY <1>1, <1>2
<1>5. /\ cachedRow' \in [Persons -> Nat]
      /\ \A c \in Persons : cachedRow'[c] = IF c = got.who THEN got.version ELSE cachedRow[c]
  BY <1>1, <1>2
<1>6. RebuildShape'
  <2>1. \A v \in Writers : RunShape(v, writer'[v])
    BY <1>1, <1>2, <1>3, <1>4 DEF RebuildInv, RebuildShape, RunShape, Gathering
  <2>2. writer' \in [Writers -> Runs]
    BY <1>1, <1>2, <1>3
  <2>3. \A v \in Writers : RunShape(v, writer[v])'
    BY <1>1, <2>1 DEF RunShape
  <2> QED BY <1>1, <1>2, <1>5, <2>2, <2>3 DEF RebuildInv, RebuildShape
<1>7. ASSUME ~overlapped' PROVE RunsApart'
  <2>1. RunsApart /\ Holding(writer[w]) /\ Looking(writer[w]) /\ Gathering(writer[w])
    BY <1>1, <1>7 DEF RebuildInv, Holding, Looking, Gathering
  <2>2. \A v \in Writers \ {w} : ~Holding(writer[v]) /\ ~Looking(writer[v]) /\ ~Gathering(writer[v])
    BY <2>1 DEF RunsApart, Holding, Looking, Gathering
  <2>3. syncedAt <= writer[w].looked /\ (w \in Tails => Covers(writer[w]))
    BY <2>1 DEF RunsApart
  <2>4. \A c \in Persons : Stale(c)' =>
          IF c = got.who THEN rfRow[c].at >= run.looked ELSE Stale(c)
    BY <1>1, <1>2, <1>3, <1>5 DEF Stale
  <2>5. ASSUME w \in Tails, NEW c \in Persons, Stale(c)', rfRow[c].at < run.looked, c \notin passed
        PROVE  c \in run.todo \/ DayOf(rfRow[c].at) >= DayOf(run.cursor)
    <3>1. c # got.who /\ Stale(c)
      <4>1. rfRow[c].at \in Nat /\ run.looked \in Nat
        BY <1>3 DEF RebuildInv, RebuildShape, Runs
      <4> QED BY <2>4, <2>5, <4>1
    <3> QED BY <1>1, <1>3, <2>3, <2>5, <3>1 DEF Covers, got
  <2>6. \A v \in Tails : Gathering(writer[v])' => Covers(writer[v])'
    <3> SUFFICES ASSUME NEW v \in Tails, Gathering(writer'[v]), NEW c \in Persons, Stale(c)',
                        rfRow'[c].at < writer'[v].looked, c \notin passed'
                 PROVE  \/ c \in writer'[v].todo
                        \/ writer'[v].step # "stamp" /\ DayOf(rfRow'[c].at) >= DayOf(writer'[v].cursor)
      BY DEF Covers, DayOf, Gathering
    <3>1. v = w
      BY <1>4, <2>2 DEF Writers
    <3> QED BY <1>1, <1>3, <1>4, <2>5, <3>1
  <2>7. \A u, v \in Writers : u # v => ~Holding(writer'[u]) \/ ~Holding(writer'[v])
    BY <1>4, <2>2
  <2>8. \A v \in Writers : Looking(writer'[v]) => syncedAt <= writer'[v].looked
    BY <1>3, <1>4, <2>2, <2>3
  <2>9. NoneForgotten'
    <3> SUFFICES ASSUME NEW c \in Persons, Stale(c)', DayOf(rfRow[c].at) < DayOf(syncedAt)
                 PROVE  c \in passed
      BY <1>1 DEF NoneForgotten, DayOf
    <3>1. rfRow[c].at \in Nat /\ run.looked \in Nat /\ syncedAt \in Nat
      BY <1>3 DEF RebuildInv, RebuildShape, Runs
    <3>2. ASSUME c = got.who PROVE FALSE
      <4>1. syncedAt <= rfRow[c].at
        BY <1>3, <2>3, <2>4, <3>1, <3>2
      <4> QED BY <3>1, <4>1, DayOrder, DayRange
    <3> QED BY <2>1, <2>4, <3>2 DEF RunsApart, NoneForgotten
  <2>10. \A v \in Writers : Looking(writer[v])' => syncedAt' <= writer'[v].looked
    BY <1>1, <2>8 DEF Looking
  <2> QED BY <2>6, <2>7, <2>9, <2>10 DEF RunsApart, Holding
<1> QED BY <1>6, <1>7 DEF RebuildInv

LEMMA CompletesKeep == ASSUME RebuildInv, NEW w \in Writers, Completes(w) PROVE RebuildInv'
<1> DEFINE run == [AtRest EXCEPT !.step = "release"]
<1>1. /\ writer[w].step = "fetch" /\ writer[w].todo = {} /\ syncedAt' = CursorOf(w)
      /\ passed' = passed \cup {c \in Persons : Stale(c) /\ (w \in Rebuilds \/ rfRow[c].at >= writer[w].looked)}
      /\ writer' = [writer EXCEPT ![w] = run]
      /\ UNCHANGED <<legacyTime, rfRow, cachedRow, overlapped>>
  BY DEF Completes, Goes, Becomes
<1>2. /\ writer \in [Writers -> Runs] /\ writer[w] \in Runs /\ RunShape(w, writer[w])
      /\ legacyTime \in Nat
  BY RebuildConstants DEF RebuildInv, RebuildShape
<1>3. run \in Runs /\ run.step = "release" /\ run.looked = 0
  BY DEF AtRest, Runs, RunSteps, Nothing, Never
<1> HIDE DEF run
<1>4. \A v \in Writers : writer'[v] = IF v = w THEN run ELSE writer[v]
  BY <1>1, <1>2
<1>5. w \notin Rebuilds => w \in Tails
  BY DEF Writers
<1>6. CursorOf(w) \in 0 .. legacyTime
  BY <1>1, <1>2, <1>5 DEF CursorOf, RunShape, Gathering
<1>7. RebuildShape'
  <2>1. \A v \in Writers : RunShape(v, writer'[v])
    BY <1>2, <1>3, <1>4 DEF RebuildInv, RebuildShape, RunShape, Gathering
  <2>2. writer' \in [Writers -> Runs]
    BY <1>1, <1>2, <1>3
  <2>3. \A v \in Writers : RunShape(v, writer[v])'
    BY <1>1, <2>1 DEF RunShape
  <2> QED BY <1>1, <1>6, <2>2, <2>3 DEF RebuildInv, RebuildShape
<1>8. ASSUME ~overlapped' PROVE RunsApart'
  <2>1. RunsApart /\ Holding(writer[w]) /\ Gathering(writer[w])
    BY <1>1, <1>8 DEF RebuildInv, Holding, Gathering
  <2>2. \A v \in Writers : v # w => ~Holding(writer[v]) /\ ~Looking(writer[v]) /\ ~Gathering(writer[v])
    BY <2>1 DEF RunsApart, Holding, Looking, Gathering
  <2>3. ~Looking(run) /\ ~Gathering(run)
    BY <1>3 DEF Looking, Gathering
  <2>4. \A v \in Writers : ~Looking(writer'[v]) /\ ~Gathering(writer'[v])
    BY <1>4, <2>2, <2>3
  <2>5. \A u, v \in Writers : u # v => ~Holding(writer'[u]) \/ ~Holding(writer'[v])
    BY <1>4, <2>2
  <2>6. NoneForgotten'
    <3> SUFFICES ASSUME NEW c \in Persons, Stale(c), DayOf(rfRow[c].at) < DayOf(CursorOf(w))
                 PROVE  c \in passed'
      BY <1>1 DEF NoneForgotten, DayOf, Stale
    <3>1. CASE w \in Rebuilds
      BY <1>1, <3>1
    <3>2. CASE w \notin Rebuilds
      <4>1. Covers(writer[w]) /\ CursorOf(w) = writer[w].cursor
        BY <1>5, <2>1, <3>2 DEF RunsApart, CursorOf
      <4>2. rfRow[c].at \in Nat /\ writer[w].looked \in Nat /\ CursorOf(w) \in Nat
        BY <1>2, <1>6 DEF RebuildInv, RebuildShape, Runs
      <4>3. DayOf(rfRow[c].at) \in Nat /\ DayOf(CursorOf(w)) \in Nat
        BY <4>2, DayRange
      <4>4. c \in passed \/ rfRow[c].at >= writer[w].looked
        BY <1>1, <4>1, <4>2, <4>3 DEF Covers
      <4> QED BY <1>1, <4>4
    <3> QED BY <3>1, <3>2
  <2> QED BY <2>4, <2>5, <2>6 DEF RunsApart, Holding, Looking, Gathering, Writers
<1> QED BY <1>7, <1>8 DEF RebuildInv

LEMMA PersonKeeps == ASSUME RebuildInv, NEW c \in Persons, PersonUpdated(c) PROVE RebuildInv'
<1>1. /\ rfRow' = [rfRow EXCEPT ![c] = [version |-> @.version + 1, at |-> legacyTime]]
      /\ UNCHANGED <<legacyTime, cachedRow, syncedAt, inFlight, writer, passed, overlapped>>
  BY DEF PersonUpdated
<1>2. /\ rfRow \in [Persons -> [version : Nat, at : Nat]] /\ legacyTime \in Nat
      /\ syncedAt \in 0 .. legacyTime
  BY RebuildConstants DEF RebuildInv, RebuildShape
<1>3. /\ rfRow' \in [Persons -> [version : Nat, at : Nat]]
      /\ \A d \in Persons : d # c => rfRow'[d] = rfRow[d]
      /\ rfRow'[c].version = rfRow[c].version + 1 /\ rfRow'[c].at = legacyTime
  BY <1>1, <1>2
<1>4. RebuildShape'
  <2>1. \A w \in Writers : RunShape(w, writer[w])'
    <3> SUFFICES ASSUME NEW w \in Writers, writer[w].step = "write"
                 PROVE  /\ writer[w].got.version <= rfRow'[writer[w].got.who].version
                        /\ \/ writer[w].got.version = rfRow'[writer[w].got.who].version
                           \/ rfRow'[writer[w].got.who].at >= writer[w].looked
      BY <1>1, <1>2 DEF RebuildInv, RebuildShape, RunShape
    <3>1. /\ writer[w] \in Runs /\ writer[w].looked <= legacyTime /\ writer[w].got.who \in Persons
          /\ writer[w].got.version <= rfRow[writer[w].got.who].version
          /\ writer[w].got.version = rfRow[writer[w].got.who].version \/ rfRow[writer[w].got.who].at >= writer[w].looked
      BY DEF RebuildInv, RebuildShape, RunShape
    <3>2. writer[w].got.version \in Nat /\ rfRow[c].version \in Nat /\ writer[w].looked \in Nat
      BY <1>2, <3>1 DEF Runs
    <3> QED BY <1>2, <1>3, <3>1, <3>2
  <2>2. \A d \in Persons : cachedRow[d] <= rfRow'[d].version
    <3>1. \A d \in Persons : cachedRow[d] \in Nat /\ rfRow[d].version \in Nat /\ cachedRow[d] <= rfRow[d].version
      BY <1>2 DEF RebuildInv, RebuildShape
    <3> QED BY <1>3, <3>1
  <2> QED BY <1>1, <1>2, <1>3, <2>1, <2>2 DEF RebuildInv, RebuildShape
<1>5. ASSUME ~overlapped' PROVE RunsApart'
  <2>1. RunsApart
    BY <1>1, <1>5 DEF RebuildInv
  <2>2. \A d \in Persons : d # c => (Stale(d)' <=> Stale(d))
    BY <1>1, <1>3 DEF Stale
  <2>3. NoneForgotten'
    <3> SUFFICES ASSUME NEW d \in Persons, Stale(d)', DayOf(rfRow'[d].at) < DayOf(syncedAt)
                 PROVE  d \in passed
      BY <1>1 DEF NoneForgotten, DayOf
    <3>1. CASE d = c
      BY <1>2, <1>3, <3>1, DayOrder, DayRange
    <3> QED BY <1>3, <2>1, <2>2, <3>1 DEF RunsApart, NoneForgotten
  <2>4. \A w \in Tails : Gathering(writer[w]) => Covers(writer[w])'
    <3> SUFFICES ASSUME NEW w \in Tails, Gathering(writer[w]), NEW d \in Persons, Stale(d)',
                        rfRow'[d].at < writer[w].looked, d \notin passed
                 PROVE  \/ d \in writer[w].todo
                        \/ /\ writer[w].step = "write" /\ writer[w].got.who = d
                           /\ writer[w].got.version = rfRow'[d].version
                        \/ writer[w].step # "stamp" /\ DayOf(rfRow'[d].at) >= DayOf(writer[w].cursor)
      BY <1>1 DEF Covers, DayOf
    <3>1. writer[w] \in Runs /\ writer[w].looked <= legacyTime
      BY DEF RebuildInv, RebuildShape, RunShape, Writers
    <3>2. d # c
      BY <1>2, <1>3, <3>1 DEF Runs
    <3> QED BY <1>3, <2>1, <2>2, <3>2 DEF RunsApart, Covers
  <2> QED BY <1>1, <2>1, <2>3, <2>4 DEF RunsApart, Holding, Looking, Gathering
<1> QED BY <1>4, <1>5 DEF RebuildInv

LEMMA TicksKeep == ASSUME RebuildInv, LegacyTick PROVE RebuildInv'
<1>1. /\ legacyTime' = legacyTime + 1 /\ legacyTime < MaxLegacyTime
      /\ UNCHANGED <<rfRow, cachedRow, syncedAt, inFlight, writer, passed, overlapped>>
  BY DEF LegacyTick
<1>2. legacyTime \in 0 .. MaxLegacyTime /\ syncedAt \in 0 .. legacyTime /\ MaxLegacyTime \in Nat
  BY RebuildConstants DEF RebuildInv, RebuildShape
<1>3. RebuildShape'
  <2>1. \A w \in Writers : writer[w] \in Runs /\ RunShape(w, writer[w])
    BY DEF RebuildInv, RebuildShape
  <2>2. \A w \in Writers : RunShape(w, writer[w])'
    BY <1>1, <1>2, <2>1 DEF RunShape, Runs
  <2>3. legacyTime' \in 0 .. MaxLegacyTime /\ syncedAt \in 0 .. legacyTime'
    BY <1>1, <1>2
  <2> QED BY <1>1, <2>2, <2>3 DEF RebuildInv, RebuildShape
<1>4. overlapped' \/ RunsApart'
  BY <1>1 DEF RebuildInv, RunsApart, NoneForgotten, Covers, Stale
<1> QED BY <1>3, <1>4 DEF RebuildInv

LEMMA RebuildKept == RebuildInv /\ [RebuildNext]_legacyVars => RebuildInv'
<1> SUFFICES ASSUME RebuildInv, [RebuildNext]_legacyVars PROVE RebuildInv'
  OBVIOUS
<1>1. CASE UNCHANGED legacyVars
  <2>1. RebuildShape'
    BY <1>1 DEF legacyVars, RebuildInv, RebuildShape, RunShape
  <2> QED BY <1>1, <2>1 DEF legacyVars, RebuildInv, RunsApart, NoneForgotten, Covers, Stale
<1>2. CASE RebuildNext
  BY <1>2, PersonKeeps, RunSettles, ClaimsKeep, SearchesKeep, NewCursorKeeps, WritesKeep, CompletesKeep,
     FetchesKeep, TicksKeep DEF RebuildNext
<1> QED BY <1>1, <1>2

(* rf-list-client.js:134-138, workflow.js:143-150: a legacy row that no tail will *)
(* look at again is not stale, but for those that StaleWasPassed names.           *)
THEOREM NoRowForgotten == RebuildSpec => [](StaleWasPassed /\ RebuildTypeOK)
BY RebuildImplies, RebuildStarts, RebuildKept, PTL DEF RebuildSpec

-----------------------------------------------------------------------------
(* The parts where they run together: each takes steps of its own, or none. *)

LEMMA PartsStep ==
  ASSUME [RecordsNext]_recordsVars
  PROVE  /\ [ConflictNext]_conflictVars /\ [RevealNext]_revealVars /\ [IndexNext]_indexVars
         /\ [IntakeNext]_intakeVars /\ [MatchNext]_matchVars /\ [KrispNext]_krispVars
         /\ [RebuildNext]_legacyVars
<1>1. CASE UNCHANGED recordsVars
  BY <1>1 DEF recordsVars, conflictVars, revealVars, indexVars, intakeVars, matchVars, krispVars, legacyVars
<1>2. ASSUME NEW p, Others(p)
      PROVE  /\ p # "conflict" => UNCHANGED conflictVars
             /\ p # "reveal" => UNCHANGED revealVars
             /\ p # "index" => UNCHANGED indexVars
             /\ p # "intake" => UNCHANGED intakeVars
             /\ p # "match" => UNCHANGED matchVars
             /\ p # "krisp" => UNCHANGED krispVars
             /\ p # "legacy" => UNCHANGED legacyVars
  BY <1>2, Zenon DEF Others
<1>3. CASE Does("conflict", ConflictNext /\ CallersInTurn)
  BY <1>2, <1>3 DEF Does
<1>4. CASE Does("reveal", RevealNext /\ ~raced)
  BY <1>2, <1>4 DEF Does
<1>5. CASE Does("index", IndexNext /\ ~lapsed)
  BY <1>2, <1>5 DEF Does
<1>6. CASE Does("intake", IntakeNext /\ AddsInTurn)
  BY <1>2, <1>6 DEF Does
<1>7. CASE Does("match", MatchNext)
  BY <1>2, <1>7 DEF Does
<1>8. CASE Does("krisp", KrispNext)
  BY <1>2, <1>8 DEF Does
<1>9. CASE Does("legacy", RebuildNext /\ UpdatesInTurn)
  BY <1>2, <1>9 DEF Does
<1> QED BY <1>1, <1>3, <1>4, <1>5, <1>6, <1>7, <1>8, <1>9, Zenon DEF RecordsNext

LEMMA PartsSpec ==
  RecordsSpec => /\ ConflictSpec /\ RevealSpec /\ IndexSpec /\ IntakeSpec /\ MatchSpec /\ KrispSpec
                 /\ RebuildSpec
<1>1. RecordsInit => /\ ConflictInit /\ RevealInit /\ IndexInit /\ IntakeInit /\ MatchInit /\ KrispInit
                     /\ RebuildInit
  BY DEF RecordsInit
<1> QED BY <1>1, PartsStep, PTL DEF RecordsSpec, ConflictSpec, RevealSpec, IndexSpec, IntakeSpec, MatchSpec,
             KrispSpec, RebuildSpec

(* The states of every part are well formed. *)
THEOREM RecordTypes == RecordsSpec => []RecordTypesOK
<1>1. ConflictTypeOK /\ RevealTypeOK /\ IndexTypeOK /\ IntakeTypeOK /\ MatchTypeOK /\ KrispTypeOK
        /\ RebuildTypeOK => RecordTypesOK
  BY DEF RecordTypesOK
<1> QED BY <1>1, PartsSpec, NoneLostButInHandover, ListsMerge, KeysStayTrue, BoughtOnce, MatchesAreRight,
           NotesAreRight, NoRowForgotten, PTL

(* What is proved of the parts holds where they run together: no value of a contact is lost but
   in a handover, the lists of numbers merge, the keys and rows of the caches are true, a number
   is bought once, nobody is taken for another, and a meeting's notes are posted once. *)
THEOREM RecordsHold ==
  RecordsSpec => /\ [](LostOnlyInHandover /\ RevealsMerge /\ CachedIsTrue)
                 /\ [](IntakeHolds /\ NoStrangerRevealed /\ KrispNotesHold)
<1>1. /\ KeysAreTrue /\ StaleWasPassed => CachedIsTrue
      /\ PaidTwiceOnlyTogether /\ AddsAgree => IntakeHolds
  BY DEF CachedIsTrue, IntakeHolds
<1> QED BY <1>1, PartsSpec, NoneLostButInHandover, ListsMerge, KeysStayTrue, BoughtOnce, MatchesAreRight,
           NotesAreRight, NoRowForgotten, PTL

(* The intake among them: a number is bought twice within the cooldown only by works that had the
   candidate in hand at once or lost a flag, and all occurrences of a profile in a batch end with
   its one record in RF. *)
THEOREM IntakeIsRight == RecordsSpec => []IntakeHolds
BY RecordsHold, PTL
=============================================================================

------------------------------ MODULE MusicProofs ------------------------------
(***************************************************************************)
(* The music remote's object for any requests, clients, cooldowns, bounds  *)
(* and restarts: its command queue first, then the demand gate, then the   *)
(* commands delivered at once, and last the three of them as MCMusic       *)
(* checks them.                                                            *)
(***************************************************************************)
EXTENDS MCMusic, SequenceTheorems, FiniteSetTheorems, WellFoundedInduction, TLAPS

-----------------------------------------------------------------------------
(* A set of naturals has a first. *)
LEMMA FirstExists ==
  ASSUME NEW S, S \subseteq Nat, S # {}
  PROVE  \E x \in S : \A y \in S : x <= y
<1>1. \E x \in S : \A y \in S : ~(<<y, x>> \in OpToRel(<, Nat))
  BY NatLessThanWellFounded, WFMin
<1>2. \A x, y \in Nat : x < y => <<x, y>> \in OpToRel(<, Nat)
  BY DEF OpToRel
<1>3. \A x, y \in S : x \in Nat /\ y \in Nat /\ (~(y < x) => x <= y)
  OBVIOUS
<1> QED BY <1>1, <1>2, <1>3

(* A function on the places of a sequence is a sequence as long. *)
LEMMA Mapped ==
  ASSUME NEW S, NEW T, NEW s \in Seq(S), NEW t, t \in [DOMAIN s -> T]
  PROVE  t \in Seq(T) /\ Len(t) = Len(s)
<1>1. Len(s) \in Nat /\ DOMAIN s = 1 .. Len(s)
  BY LenProperties
<1>2. t \in [1 .. Len(s) -> T]
  BY <1>1
<1>3. t \in Seq(T)
  BY <1>1, <1>2, SeqDef
<1> QED BY <1>1, <1>2, <1>3, LenProperties

(* What is left of a sequence when one place is taken out. *)
LEMMA Removed ==
  ASSUME NEW S, NEW s \in Seq(S), NEW n \in DOMAIN s
  PROVE  /\ RemoveAt(s, n) \in Seq(S)
         /\ Len(RemoveAt(s, n)) = Len(s) - 1
         /\ \A i \in 1 .. Len(s) - 1 : RemoveAt(s, n)[i] = IF i < n THEN s[i] ELSE s[i + 1]
<1> DEFINE a == SubSeq(s, 1, n - 1)
           b == SubSeq(s, n + 1, Len(s))
<1>1. Len(s) \in Nat /\ n \in 1 .. Len(s) /\ \A i \in 1 .. Len(s) : s[i] \in S
  BY LenProperties, ElementOfSeq
<1>2. /\ a \in Seq(S) /\ Len(a) = n - 1
      /\ \A i \in 1 .. n - 1 : a[i] = s[i]
  BY <1>1, SubSeqProperties
<1>3. /\ b \in Seq(S) /\ Len(b) = Len(s) - n
      /\ \A i \in 1 .. Len(s) - n : b[i] = s[n + i]
  BY <1>1, SubSeqProperties
<1>4. RemoveAt(s, n) = a \o b
  BY DEF RemoveAt
<1> HIDE DEF a, b
<1>5. /\ a \o b \in Seq(S) /\ Len(a \o b) = Len(s) - 1
      /\ \A i \in 1 .. Len(s) - 1 : (a \o b)[i] = IF i <= n - 1 THEN a[i] ELSE b[i - (n - 1)]
  <2>1. Len(a) + Len(b) = Len(s) - 1
    BY <1>1, <1>2, <1>3
  <2>2. /\ a \o b \in Seq(S) /\ Len(a \o b) = Len(a) + Len(b)
        /\ \A i \in 1 .. Len(a) + Len(b) :
             (a \o b)[i] = IF i <= Len(a) THEN a[i] ELSE b[i - Len(a)]
    BY <1>2, <1>3, ConcatProperties
  <2> QED BY <1>2, <2>1, <2>2
<1>6. ASSUME NEW i \in 1 .. Len(s) - 1
      PROVE  (a \o b)[i] = IF i < n THEN s[i] ELSE s[i + 1]
  <2>1. CASE i < n
    BY <1>1, <1>2, <1>5, <2>1
  <2>2. CASE ~(i < n)
    <3>1. i - (n - 1) \in 1 .. Len(s) - n /\ n + (i - (n - 1)) = i + 1
      BY <1>1, <2>2
    <3>2. b[i - (n - 1)] = s[i + 1]
      BY <1>3, <3>1
    <3>3. (a \o b)[i] = b[i - (n - 1)]
      BY <1>1, <1>5, <2>2
    <3> QED BY <2>2, <3>2, <3>3
  <2> QED BY <2>1, <2>2
<1> QED BY <1>4, <1>5, <1>6

-----------------------------------------------------------------------------
(***************************************************************************)
(* The command queue.  Its state is well formed, a pick takes no place     *)
(* that MAX_QUEUE counts, no request stands in it twice, and what is being *)
(* delivered keeps its place in it, unless a newer pick has taken that.    *)
(***************************************************************************)
Cooldowns == [Categories -> 0 .. Later(CooldownPlay, CooldownEnqueue)]

\* The enqueue being delivered is the first in the queue.
FirstInLine(cmd, n) ==
    cmd.req \in Enqueues =>
        queue[n].req = cmd.req /\ \A i \in 1 .. n - 1 : queue[i].req \notin Enqueues

InPlace(cmd, n) ==
    /\ n \in DOMAIN queue
    /\ Category(queue[n].req) = Category(cmd.req)
    /\ FirstInLine(cmd, n)
    /\ queue[n].req = cmd.req => queue[n].attempts = cmd.attempts
    /\ cmd.attempts < MaxAttempts

QueueShape ==
    /\ TypeOK
    /\ SlotOf(queue) = {} => Len(queue) <= MaxQueue
    /\ \A i, j \in SlotOf(queue) : i = j
    /\ \A i, j \in DOMAIN queue : queue[i].req = queue[j].req => i = j
    /\ \A i \in DOMAIN queue : queue[i].attempts < MaxAttempts
    /\ phase = "deliver" => job \in [idx : Nat, cmd : Commands] /\ InPlace(job.cmd, job.idx)

(* The bounds of what the constants and the helpers give. *)
LEMMA Bounds ==
  /\ {CooldownPlay, CooldownEnqueue, SettleTime, MaxDefer, MaxRestarts} \subseteq Nat
  /\ CooldownPlay <= Later(CooldownPlay, CooldownEnqueue)
  /\ CooldownEnqueue <= Later(CooldownPlay, CooldownEnqueue)
  /\ Later(CooldownPlay, CooldownEnqueue) \in Nat
  /\ Heartbeat \in Nat \ {0} /\ MaxQueue \in Nat \ {0} /\ MaxAttempts \in Nat \ {0}
  /\ 0 < MaxAttempts
  BY MusicConstants DEF Later

LEMMA EligibleType ==
  ASSUME NEW cmd \in Commands, NEW cool \in Cooldowns
  PROVE  EligibleIn(cmd, cool) \in Nat
<1>1. cool[Category(cmd.req)] \in Nat
  BY Bounds DEF Cooldowns, Category, Categories
<1>2. cmd.settle \in Nat /\ cmd.cap \in Nat
  BY Bounds DEF Commands
<1> QED BY <1>1, <1>2 DEF EligibleIn, Later, Sooner

(* What reconcileAlarm computes is never later than a command is eligible. *)
LEMMA DueInTime ==
  ASSUME NEW d \in BOOLEAN, NEW q \in Seq(Commands), NEW cool \in Cooldowns
  PROVE  /\ Due(d, q, cool) \in Nat \cup {NoAlarm}
         /\ q # <<>> => Due(d, q, cool) # NoAlarm
         /\ \A i \in DOMAIN q : Due(d, q, cool) <= EligibleIn(q[i], cool)
<1>1. \A i \in DOMAIN q : q[i] \in Commands /\ EligibleIn(q[i], cool) \in Nat
  BY EligibleType, LenProperties
<1>2. CASE q = <<>>
  <2>1. DOMAIN q = {}
    BY <1>2, LenProperties
  <2> QED BY <1>2, <2>1, Bounds DEF Due, DrainIn, NoAlarm
<1>3. CASE q # <<>>
  <2> DEFINE S == {EligibleIn(q[i], cool) : i \in DOMAIN q}
             w == DrainIn(q, cool)
  <2>1. 1 \in DOMAIN q
    BY <1>3, EmptySeq, LenProperties
  <2>2. S \subseteq Nat /\ S # {}
    BY <1>1, <2>1
  <2>3. \E x \in S : \A y \in S : x <= y
    BY <2>2, FirstExists
  <2>4. w \in S /\ \A i \in DOMAIN q : w <= EligibleIn(q[i], cool)
    <3>1. \E x \in S : \A i \in DOMAIN q : x <= EligibleIn(q[i], cool)
      BY <2>3
    <3> QED BY <1>3, <3>1 DEF DrainIn
  <2>5. w \in Nat /\ w # NoAlarm
    BY <2>2, <2>4 DEF NoAlarm
  <2> HIDE DEF w, S
  <2>6. Due(d, q, cool) = IF ~d THEN w ELSE Sooner(Heartbeat, w)
    BY <2>5 DEF Due, w
  <2>7. Due(d, q, cool) \in Nat /\ Due(d, q, cool) <= w
    BY <2>5, <2>6, Bounds DEF Sooner
  <2>8. \A i \in DOMAIN q : Due(d, q, cool) <= EligibleIn(q[i], cool)
    BY <1>1, <2>4, <2>5, <2>7
  <2> QED BY <2>7, <2>8 DEF NoAlarm
<1> QED BY <1>2, <1>3

(* What is being delivered stays in place when the queue only grows, ages  *)
(* or takes a newer pick.                                                  *)
LEMMA StaysInPlace ==
  ASSUME job' = job, queue \in Seq(Commands), queue' \in Seq(Commands),
         Len(queue) <= Len(queue'), InPlace(job.cmd, job.idx),
         \A i \in DOMAIN queue :
            \/ queue'[i].req = queue[i].req /\ queue'[i].attempts = queue[i].attempts
            \/ {queue[i].req, queue'[i].req} \subseteq Plays /\ queue'[i].req # job.cmd.req
  PROVE  InPlace(job.cmd, job.idx)'
<1> DEFINE n == job.idx
<1>1. n \in DOMAIN queue /\ n \in DOMAIN queue' /\ DOMAIN queue = 1 .. Len(queue) /\ Len(queue) \in Nat
  BY LenProperties DEF InPlace
<1>2. Plays \cap Enqueues = {}
  BY MusicConstants
<1>3. Category(queue'[n].req) = Category(job.cmd.req)
  BY <1>1 DEF InPlace, Category
<1>4. ASSUME job.cmd.req \in Enqueues
      PROVE  queue'[n].req = job.cmd.req /\ \A i \in 1 .. n - 1 : queue'[i].req \notin Enqueues
  BY <1>1, <1>2, <1>4 DEF InPlace, FirstInLine
<1>5. queue'[n].req = job.cmd.req => queue'[n].attempts = job.cmd.attempts
  BY <1>1 DEF InPlace
<1> QED BY <1>1, <1>3, <1>4, <1>5 DEF InPlace, FirstInLine

(* A queue that has a place for each request has its history typed. *)
LEMMA TriesType == ASSUME tries \in [Requests -> Nat], NEW q PROVE TriesIn(q) \in [Requests -> Nat]
  BY DEF TriesIn

(* A pick takes the slot, or opens one at the end of the queue. *)
LEMMA PickPlaced ==
  ASSUME QueueShape, NEW r \in Plays, PickPlay(r)
  PROVE  /\ queue' \in Seq(Commands)
         /\ Len(queue) <= Len(queue') /\ Len(queue') <= MaxQueue + 1
         /\ \E n \in DOMAIN queue' :
              /\ SlotOf(queue') = {n} /\ queue'[n].req = r /\ queue'[n].attempts = 0
              /\ \A i \in DOMAIN queue' \ {n} : i \in DOMAIN queue /\ queue'[i] = queue[i]
              /\ n \in DOMAIN queue => queue[n].req \in Plays
         /\ \A i \in DOMAIN queue : i \in DOMAIN queue' /\ queue[i].req # r
         /\ phase = "deliver" => job.cmd.req # r
<1> USE DEF QueueShape, TypeOK
<1>1. DOMAIN queue = 1 .. Len(queue) /\ Len(queue) \in Nat /\ \A i \in DOMAIN queue : queue[i] \in Commands
  BY LenProperties, ElementOfSeq
<1>2. NewPick(r) \in Commands /\ NewPick(r).req = r /\ NewPick(r).attempts = 0
  BY Bounds DEF NewPick, Commands, Requests
<1>3. /\ \A i \in DOMAIN queue : queue[i].req # r
      /\ phase = "deliver" => job.cmd.req # r
  BY DEF PickPlay, Free
<1>4. CASE SlotOf(queue) = {}
  <2> DEFINE n == Len(queue) + 1
  <2>1. queue' = Append(queue, NewPick(r))
    BY <1>4 DEF PickPlay
  <2>2. /\ queue' \in Seq(Commands) /\ Len(queue') = n
        /\ \A i \in 1 .. Len(queue) : queue'[i] = queue[i]
        /\ queue'[n] = NewPick(r)
    BY <1>2, <2>1, AppendProperties
  <2>3. DOMAIN queue' = 1 .. n
    BY <2>2, LenProperties
  <2>4. SlotOf(queue') = {n}
    <3>1. \A i \in 1 .. Len(queue) : queue[i].req \notin Plays
      BY <1>1, <1>4 DEF SlotOf
    <3>2. \A i \in 1 .. n : queue'[i].req \in Plays <=> i = n
      BY <1>1, <1>2, <2>2, <3>1
    <3> QED BY <1>1, <2>3, <3>2 DEF SlotOf
  <2>5. Len(queue') <= MaxQueue + 1
    BY <1>1, <1>4, <2>2, Bounds
  <2>6. n \in DOMAIN queue' /\ n \notin DOMAIN queue /\ DOMAIN queue' \ {n} = DOMAIN queue
    BY <1>1, <2>3
  <2> HIDE DEF n
  <2>7. queue'[n].req = r /\ queue'[n].attempts = 0
    BY <1>2, <2>2
  <2>8. \A i \in DOMAIN queue' \ {n} : i \in DOMAIN queue /\ queue'[i] = queue[i]
    BY <1>1, <2>2, <2>6
  <2>9. Len(queue) <= Len(queue') /\ \A i \in DOMAIN queue : i \in DOMAIN queue'
    BY <1>1, <2>2, <2>6 DEF n
  <2> QED BY <1>3, <2>2, <2>4, <2>5, <2>6, <2>7, <2>8, <2>9
<1>5. CASE SlotOf(queue) # {}
  <2>1. PICK n \in DOMAIN queue : SlotOf(queue) = {n}
    BY <1>5 DEF SlotOf
  <2> DEFINE new == [NewPick(r) EXCEPT !.cap = queue[n].cap]
  <2>2. queue' = [i \in DOMAIN queue |-> IF i = n THEN new ELSE queue[i]]
    BY <1>5, <2>1 DEF PickPlay
  <2>3. new \in Commands /\ new.req = r /\ new.attempts = 0
    BY <1>1, <1>2 DEF Commands, NewPick
  <2> HIDE DEF new
  <2>4. queue' \in [DOMAIN queue -> Commands]
    BY <1>1, <2>2, <2>3
  <2>5. queue' \in Seq(Commands) /\ Len(queue') = Len(queue)
    BY <2>4, Mapped
  <2>6. DOMAIN queue' = DOMAIN queue
    BY <2>4
  <2>7. \A i \in DOMAIN queue : queue'[i] = IF i = n THEN new ELSE queue[i]
    BY <2>2
  <2>8. SlotOf(queue') = {n} /\ queue[n].req \in Plays
    BY <2>1, <2>3, <2>6, <2>7 DEF SlotOf
  <2> QED BY <1>1, <1>3, <2>1, <2>3, <2>5, <2>6, <2>7, <2>8
<1> QED BY <1>4, <1>5

LEMMA PickPlayShape ==
  ASSUME QueueShape, NEW r \in Plays, PickPlay(r)
  PROVE  QueueShape'
<1>1. /\ queue' \in Seq(Commands)
      /\ Len(queue) <= Len(queue') /\ Len(queue') <= MaxQueue + 1
      /\ \A i \in DOMAIN queue : i \in DOMAIN queue' /\ queue[i].req # r
      /\ phase = "deliver" => job.cmd.req # r
  BY PickPlaced
<1>2. PICK n \in DOMAIN queue' :
         /\ SlotOf(queue') = {n} /\ queue'[n].req = r /\ queue'[n].attempts = 0
         /\ \A i \in DOMAIN queue' \ {n} : i \in DOMAIN queue /\ queue'[i] = queue[i]
         /\ n \in DOMAIN queue => queue[n].req \in Plays
  BY PickPlaced
<1>3. UNCHANGED <<cooldown, demand, phase, job, line, restarts>> /\ pick' = r
  BY DEF PickPlay
<1> USE DEF QueueShape, TypeOK
<1>4. tries' \in [Requests -> Nat]
  BY TriesType DEF PickPlay
<1>5. alarm' \in Nat \cup {NoAlarm}
  BY <1>1, DueInTime DEF PickPlay, ReconcileAlarm, Cooldowns
<1>6. \A i \in DOMAIN queue :
        \/ queue'[i].req = queue[i].req /\ queue'[i].attempts = queue[i].attempts
        \/ {queue[i].req, queue'[i].req} \subseteq Plays /\ queue'[i].req = r
  BY <1>1, <1>2
<1>7. phase' = "deliver" => job' \in [idx : Nat, cmd : Commands] /\ InPlace(job.cmd, job.idx)'
  BY <1>1, <1>3, <1>6, StaysInPlace
<1>8. TypeOK'
  BY <1>1, <1>3, <1>4, <1>5
<1>9. \A i, j \in DOMAIN queue' : queue'[i].req = queue'[j].req => i = j
  BY <1>1, <1>2
<1>10. \A i \in DOMAIN queue' : queue'[i].attempts < MaxAttempts
  BY <1>2, Bounds
<1> QED BY <1>2, <1>7, <1>8, <1>9, <1>10 DEF SlotOf

LEMMA EnqueueShape ==
  ASSUME QueueShape, NEW r \in Enqueues, Enqueue(r)
  PROVE  QueueShape'
<1> USE DEF QueueShape, TypeOK
<1> DEFINE new == [req |-> r, settle |-> 0, cap |-> 0, attempts |-> 0]
<1>1. DOMAIN queue = 1 .. Len(queue) /\ Len(queue) \in Nat /\ \A i \in DOMAIN queue : queue[i] \in Commands
  BY LenProperties, ElementOfSeq
<1>2. new \in Commands /\ new.req = r /\ new.attempts = 0
  BY Bounds DEF Commands, Requests
<1>3. queue' = Append(queue, new) /\ Len(queue) < MaxQueue /\ line' = Append(line, r)
  BY DEF Enqueue
<1>4. UNCHANGED <<cooldown, demand, phase, job, pick, tries, restarts>>
  BY DEF Enqueue
<1>5. \A i \in DOMAIN queue : queue[i].req # r
  BY DEF Enqueue, Free
<1> HIDE DEF new
<1>6. /\ queue' \in Seq(Commands) /\ Len(queue') = Len(queue) + 1
      /\ \A i \in 1 .. Len(queue) : queue'[i] = queue[i]
      /\ queue'[Len(queue) + 1] = new
  BY <1>2, <1>3, AppendProperties
<1>7. DOMAIN queue' = 1 .. Len(queue) + 1
  BY <1>6, LenProperties
<1>8. line' \in Seq(Enqueues)
  BY <1>3, AppendProperties
<1>9. SlotOf(queue') = SlotOf(queue)
  BY <1>1, <1>2, <1>6, <1>7, MusicConstants DEF SlotOf
<1>10. Len(queue') <= MaxQueue
  BY <1>1, <1>3, <1>6, Bounds
<1>11. \A i, j \in DOMAIN queue' : queue'[i].req = queue'[j].req => i = j
  BY <1>1, <1>2, <1>5, <1>6, <1>7
<1>12. \A i \in DOMAIN queue' : queue'[i].attempts < MaxAttempts
  <2>1. queue'[Len(queue) + 1].attempts < MaxAttempts
    BY <1>2, <1>6, Bounds
  <2>2. \A i \in 1 .. Len(queue) : queue'[i].attempts < MaxAttempts
    BY <1>1, <1>6
  <2> QED BY <1>1, <1>7, <2>1, <2>2
<1>13. alarm' \in Nat \cup {NoAlarm}
  BY <1>4, <1>6, DueInTime DEF Enqueue, ReconcileAlarm, Cooldowns
<1>14. phase' = "deliver" => job' \in [idx : Nat, cmd : Commands] /\ InPlace(job.cmd, job.idx)'
  BY <1>1, <1>4, <1>6, StaysInPlace
<1> QED BY <1>1, <1>4, <1>6, <1>8, <1>9, <1>10, <1>11, <1>12, <1>13, <1>14, Bounds DEF SlotOf

(* What firstEligibleIndex finds: an enqueue it finds is the first one.    *)
LEMMA FirstEligibleFound ==
  ASSUME QueueShape, FirstEligible # 0
  PROVE  /\ FirstEligible \in DOMAIN queue
         /\ Eligible(FirstEligible)
         /\ FirstInLine(queue[FirstEligible], FirstEligible)
<1> USE DEF QueueShape, TypeOK
<1> DEFINE S == {i \in DOMAIN queue : Eligible(i)}
           n == FirstEligible
<1>1. DOMAIN queue = 1 .. Len(queue) /\ Len(queue) \in Nat
  BY LenProperties
<1>2. S # {} /\ S \subseteq Nat
  BY <1>1 DEF FirstEligible
<1>3. \E i \in S : \A j \in S : i <= j
  BY <1>2, FirstExists
<1>4. \E i \in DOMAIN queue : Eligible(i) /\ \A j \in 1 .. i - 1 : ~Eligible(j)
  <2>1. PICK i \in S : \A j \in S : i <= j
    BY <1>3
  <2>2. \A j \in 1 .. i - 1 : j \in DOMAIN queue /\ ~(i <= j)
    BY <1>1, <2>1
  <2> QED BY <2>1, <2>2
<1>5. n \in DOMAIN queue /\ Eligible(n) /\ \A j \in 1 .. n - 1 : ~Eligible(j)
  BY <1>2, <1>4 DEF FirstEligible
<1>6. ASSUME queue[n].req \in Enqueues, NEW i \in 1 .. n - 1, queue[i].req \in Enqueues PROVE FALSE
  <2>1. queue[n].req \notin Plays /\ queue[i].req \notin Plays
    BY <1>6, MusicConstants
  <2>2. EligibleIn(queue[i], cooldown) = EligibleIn(queue[n], cooldown)
    BY <2>1 DEF EligibleIn, Category
  <2> QED BY <1>5, <2>2 DEF Eligible
<1> QED BY <1>5, <1>6 DEF FirstInLine

LEMMA DrainSelectShape == ASSUME QueueShape, DrainSelect PROVE QueueShape'
<1> USE DEF QueueShape, TypeOK
<1> DEFINE n == FirstEligible
           cmd == queue[n]
<1>1. n \in DOMAIN queue /\ FirstInLine(cmd, n)
  BY FirstEligibleFound DEF DrainSelect
<1>2. /\ job' = [idx |-> n, cmd |-> cmd] /\ tries' = [tries EXCEPT ![cmd.req] = @ + 1]
      /\ phase' = "deliver"
      /\ UNCHANGED <<queue, cooldown, demand, alarm, line, pick, restarts>>
  BY DEF DrainSelect
<1>3. n \in 1 .. MaxQueue + 1 /\ cmd \in Commands /\ cmd.attempts < MaxAttempts
  BY <1>1, LenProperties, Bounds
<1> HIDE DEF n
<1>4. tries' \in [Requests -> Nat]
  BY <1>2, <1>3 DEF Commands
<1>5. job' \in [idx : 1 .. MaxQueue + 1, cmd : Commands] /\ job'.idx = n /\ job'.cmd = cmd
  BY <1>2, <1>3
<1>6. job' \in [idx : Nat, cmd : Commands]
  BY <1>5, Bounds
<1>7. InPlace(job.cmd, job.idx)'
  BY <1>1, <1>2, <1>3, <1>5 DEF InPlace, FirstInLine
<1> QED BY <1>2, <1>4, <1>5, <1>6, <1>7 DEF SlotOf

(* Taking a place out of the queue. *)
LEMMA RemovalShape ==
  ASSUME QueueShape, NEW n \in DOMAIN queue, queue' = RemoveAt(queue, n)
  PROVE  /\ queue' \in Seq(Commands) /\ Len(queue') = Len(queue) - 1 /\ Len(queue') <= MaxQueue
         /\ \A i \in DOMAIN queue' : queue'[i] = queue[IF i < n THEN i ELSE i + 1]
         /\ DOMAIN queue' = 1 .. Len(queue) - 1
         /\ \A i, j \in SlotOf(queue') : i = j
         /\ \A i, j \in DOMAIN queue' : queue'[i].req = queue'[j].req => i = j
         /\ \A i \in DOMAIN queue' : queue'[i].attempts < MaxAttempts
<1> USE DEF QueueShape, TypeOK
<1>1. DOMAIN queue = 1 .. Len(queue) /\ Len(queue) \in Nat
  BY LenProperties
<1>2. /\ queue' \in Seq(Commands) /\ Len(queue') = Len(queue) - 1
      /\ \A i \in 1 .. Len(queue) - 1 : queue'[i] = IF i < n THEN queue[i] ELSE queue[i + 1]
  BY Removed
<1>3. DOMAIN queue' = 1 .. Len(queue) - 1
  BY <1>2, LenProperties
<1> DEFINE old(i) == IF i < n THEN i ELSE i + 1
<1>4. \A i \in DOMAIN queue' : old(i) \in DOMAIN queue /\ queue'[i] = queue[old(i)]
  BY <1>1, <1>2, <1>3
<1>5. \A i, j \in DOMAIN queue' : old(i) = old(j) => i = j
  BY <1>1, <1>3
<1> HIDE DEF old
<1>6. \A i, j \in DOMAIN queue' : queue'[i].req = queue'[j].req => i = j
  BY <1>4, <1>5
<1>7. \A i \in SlotOf(queue') : i \in DOMAIN queue' /\ old(i) \in SlotOf(queue)
  BY <1>4 DEF SlotOf
<1>8. \A i, j \in SlotOf(queue') : i = j
  BY <1>5, <1>7
<1>9. \A i \in DOMAIN queue' : queue'[i].attempts < MaxAttempts
  BY <1>4
<1>10. Len(queue') <= MaxQueue
  BY <1>1, <1>2, Bounds
<1> QED BY <1>2, <1>3, <1>4, <1>6, <1>8, <1>9, <1>10 DEF old

(* The end of the alarm handler, whatever it leaves of the queue. *)
LEMMA ResumeShape ==
  ASSUME QueueShape, NEW q, NEW cool, Resume(q, cool), cool \in Cooldowns,
         line' \in Seq(Enqueues), pick' \in Plays \cup {NoPick},
         \/ queue' = queue
         \/ \E n \in DOMAIN queue : queue' = RemoveAt(queue, n)
         \/ /\ queue' \in Seq(Commands) /\ Len(queue') = Len(queue)
            /\ \A i \in DOMAIN queue : queue'[i].req = queue[i].req /\ queue'[i].attempts < MaxAttempts
  PROVE  QueueShape'
<1> USE DEF QueueShape, TypeOK
<1>1. DOMAIN queue = 1 .. Len(queue) /\ Len(queue) \in Nat
  BY LenProperties
<1>2. /\ queue' = q /\ cooldown' = cool /\ phase' = "idle" /\ job' = NoJob
      /\ UNCHANGED <<demand, restarts>>
  BY DEF Resume
<1>3. tries' \in [Requests -> Nat]
  BY TriesType DEF Resume
<1>4. /\ queue' \in Seq(Commands) /\ Len(queue') <= MaxQueue + 1
      /\ SlotOf(queue') = {} => Len(queue') <= MaxQueue
      /\ \A i, j \in SlotOf(queue') : i = j
      /\ \A i, j \in DOMAIN queue' : queue'[i].req = queue'[j].req => i = j
      /\ \A i \in DOMAIN queue' : queue'[i].attempts < MaxAttempts
  <2>1. CASE queue' = queue
    BY <2>1
  <2>2. CASE \E n \in DOMAIN queue : queue' = RemoveAt(queue, n)
    <3>1. PICK n \in DOMAIN queue : queue' = RemoveAt(queue, n)
      BY <2>2
    <3>2. Len(queue') \in Nat /\ Len(queue') <= MaxQueue
      BY <3>1, RemovalShape, LenProperties
    <3>3. Len(queue') <= MaxQueue + 1
      BY <3>2, Bounds
    <3> QED BY <3>1, <3>2, <3>3, RemovalShape
  <2>3. CASE /\ queue' \in Seq(Commands) /\ Len(queue') = Len(queue)
             /\ \A i \in DOMAIN queue : queue'[i].req = queue[i].req /\ queue'[i].attempts < MaxAttempts
    <3>1. DOMAIN queue' = DOMAIN queue
      BY <1>1, <2>3, LenProperties
    <3>2. SlotOf(queue') = SlotOf(queue)
      BY <2>3, <3>1 DEF SlotOf
    <3> QED BY <2>3, <3>1, <3>2
  <2> QED BY <2>1, <2>2, <2>3
<1>5. alarm' \in Nat \cup {NoAlarm}
  BY <1>2, <1>4, DueInTime DEF Resume, ReconcileAlarm
<1>6. job' \in [idx : {0}]
  BY <1>2 DEF NoJob
<1> QED BY <1>2, <1>3, <1>4, <1>5, <1>6 DEF Cooldowns, SlotOf

LEMMA StampType ==
  ASSUME QueueShape, phase = "deliver"
  PROVE  StampExec \in Cooldowns
<1>1. \A k \in Categories : Cooldown[k] \in 0 .. Later(CooldownPlay, CooldownEnqueue)
  BY Bounds DEF Cooldown, Categories
<1> QED BY <1>1 DEF StampExec, Cooldowns, QueueShape, TypeOK, Category, Categories

LEMMA DrainedShape == ASSUME QueueShape, Drained PROVE QueueShape'
<1> USE DEF Drained
<1>1. line' \in Seq(Enqueues)
  <2>1. line \in Seq(Enqueues)
    BY DEF QueueShape, TypeOK
  <2> QED BY <2>1, HeadTailProperties DEF Verdict
<1>2. pick' \in Plays \cup {NoPick}
  BY DEF Verdict, QueueShape, TypeOK
<1>3. queue' = queue \/ \E n \in DOMAIN queue : queue' = RemoveAt(queue, n)
  BY DEF Resume, StillThere
<1> QED BY <1>1, <1>2, <1>3, StampType, ResumeShape

(* A failed attempt is counted where the command still stands. *)
LEMMA RetryCounts ==
  ASSUME QueueShape, RetryLater
  PROVE  \/ ~StillThere /\ queue' = queue
         \/ /\ StillThere /\ job.idx \in DOMAIN queue
            /\ queue' \in Seq(Commands) /\ Len(queue') = Len(queue)
            /\ \A i \in DOMAIN queue :
                 /\ i # job.idx => queue'[i] = queue[i]
                 /\ queue'[i].req = queue[i].req
                 /\ i = job.idx => queue'[i].attempts = job.cmd.attempts + 1
<1> USE DEF QueueShape, TypeOK, RetryLater
<1>1. CASE ~StillThere
  BY <1>1 DEF Resume
<1>2. CASE StillThere
  <2> DEFINE new == [queue[job.idx] EXCEPT !.attempts = job.cmd.attempts + 1]
  <2>1. queue' = [queue EXCEPT ![job.idx] = new] /\ job.idx \in DOMAIN queue
    BY <1>2 DEF Resume, StillThere
  <2>2. queue[job.idx] \in Commands /\ job.cmd.attempts + 1 \in 0 .. MaxAttempts
    <3>1. job.cmd.attempts \in 0 .. MaxAttempts
      BY DEF Commands
    <3>2. job.cmd.attempts + 1 \in 0 .. MaxAttempts
      <4>1. job.cmd.attempts + 1 < MaxAttempts
        OBVIOUS
      <4> HIDE DEF QueueShape, TypeOK, RetryLater
      <4> QED BY <3>1, <4>1, Bounds
    <3>3. DOMAIN queue = 1 .. Len(queue)
      BY LenProperties
    <3> QED BY <2>1, <3>2, <3>3, ElementOfSeq
  <2>3. new \in Commands /\ new.req = queue[job.idx].req /\ new.attempts = job.cmd.attempts + 1
    BY <2>2 DEF Commands
  <2> HIDE DEF new
  <2>4. DOMAIN queue = 1 .. Len(queue)
    BY LenProperties
  <2>5. /\ queue' \in Seq(Commands) /\ Len(queue') = Len(queue)
        /\ \A i \in 1 .. Len(queue) : queue'[i] = IF i = job.idx THEN new ELSE queue[i]
    BY <2>1, <2>3, <2>4, ExceptSeq
  <2> QED BY <1>2, <2>1, <2>3, <2>4, <2>5
<1> QED BY <1>1, <1>2

LEMMA RetryLaterShape == ASSUME QueueShape, RetryLater PROVE QueueShape'
<1> USE DEF QueueShape, TypeOK
<1>1. line' \in Seq(Enqueues) /\ pick' \in Plays \cup {NoPick}
  BY DEF RetryLater
<1>2. job.cmd.attempts + 1 < MaxAttempts
  BY DEF RetryLater
<1>3. \/ queue' = queue
      \/ /\ queue' \in Seq(Commands) /\ Len(queue') = Len(queue)
         /\ \A i \in DOMAIN queue : queue'[i].req = queue[i].req /\ queue'[i].attempts < MaxAttempts
  BY <1>2, RetryCounts
<1> QED BY <1>1, <1>3, ResumeShape DEF RetryLater, Cooldowns

LEMMA TickShape == ASSUME QueueShape, Tick PROVE QueueShape'
<1> DEFINE Down(m) == IF m > 0 THEN m - 1 ELSE m
           older(i) == [queue[i] EXCEPT !.settle = Down(@), !.cap = Down(@)]
<1>1. /\ queue \in Seq(Commands) /\ cooldown \in Cooldowns /\ alarm \in Nat \cup {NoAlarm}
      /\ DOMAIN queue = 1 .. Len(queue) /\ \A i \in DOMAIN queue : queue[i] \in Commands
  BY LenProperties, ElementOfSeq DEF QueueShape, TypeOK, Cooldowns
<1>2. /\ queue' = [i \in DOMAIN queue |-> older(i)]
      /\ cooldown' = [k \in Categories |-> Down(cooldown[k])]
      /\ alarm' = Down(alarm)
      /\ UNCHANGED <<demand, phase, job, line, pick, tries, restarts>>
  BY DEF Tick, history
<1>3. \A m \in Nat : \A n \in 0 .. m : Down(n) \in 0 .. m
  OBVIOUS
<1>4. alarm' \in Nat \cup {NoAlarm}
  <2>1. CASE alarm \in Nat
    <3>1. Down(alarm) \in Nat
      BY <2>1
    <3> QED BY <1>2, <3>1
  <2>2. CASE alarm = NoAlarm
    <3>1. Down(alarm) = NoAlarm
      BY <2>2 DEF NoAlarm
    <3> QED BY <1>2, <3>1
  <2> QED BY <1>1, <2>1, <2>2
<1> HIDE DEF Down
<1>5. ASSUME NEW i \in DOMAIN queue
      PROVE  older(i) \in Commands /\ older(i).req = queue[i].req /\ older(i).attempts = queue[i].attempts
  <2>1. queue[i] \in Commands /\ Down(queue[i].settle) \in 0 .. SettleTime /\ Down(queue[i].cap) \in 0 .. MaxDefer
    BY <1>1, <1>3, Bounds DEF Commands
  <2> QED BY <2>1 DEF Commands
<1> HIDE DEF older
<1>6. queue' \in [DOMAIN queue -> Commands] /\ DOMAIN queue' = DOMAIN queue
  BY <1>2, <1>5
<1>7. queue' \in Seq(Commands) /\ Len(queue') = Len(queue)
  BY <1>1, <1>6, Mapped
<1>8. \A i \in DOMAIN queue : queue'[i].req = queue[i].req /\ queue'[i].attempts = queue[i].attempts
  BY <1>2, <1>5
<1>9. SlotOf(queue') = SlotOf(queue)
  BY <1>6, <1>8 DEF SlotOf
<1>10. cooldown' \in Cooldowns
  <2>1. \A k \in Categories : Down(cooldown[k]) \in 0 .. Later(CooldownPlay, CooldownEnqueue)
    BY <1>1, <1>3, Bounds DEF Cooldowns
  <2> QED BY <1>2, <2>1 DEF Cooldowns
<1>11. phase' = "deliver" => job' \in [idx : Nat, cmd : Commands] /\ InPlace(job.cmd, job.idx)'
  <2>1. phase = "deliver" => job \in [idx : Nat, cmd : Commands] /\ InPlace(job.cmd, job.idx)
    BY DEF QueueShape
  <2>2. Len(queue) <= Len(queue')
    BY <1>1, <1>7, LenProperties
  <2> QED BY <1>1, <1>2, <1>7, <1>8, <2>1, <2>2, StaysInPlace
<1>12. Len(queue') <= MaxQueue + 1 /\ (SlotOf(queue') = {} => Len(queue') <= MaxQueue)
  BY <1>7, <1>9 DEF QueueShape, TypeOK
<1>13. TypeOK'
  BY <1>2, <1>4, <1>7, <1>10, <1>12 DEF QueueShape, TypeOK, Cooldowns
<1>14. /\ \A i, j \in SlotOf(queue') : i = j
       /\ \A i, j \in DOMAIN queue' : queue'[i].req = queue'[j].req => i = j
       /\ \A i \in DOMAIN queue' : queue'[i].attempts < MaxAttempts
  BY <1>6, <1>8, <1>9 DEF QueueShape
<1> QED BY <1>11, <1>12, <1>13, <1>14 DEF QueueShape, SlotOf

LEMMA QueueInit == Init => QueueShape
<1> SUFFICES ASSUME Init PROVE QueueShape
  OBVIOUS
<1> USE DEF Init
<1>1. queue \in Seq(Commands) /\ Len(queue) = 0 /\ DOMAIN queue = {}
  BY EmptySeq
<1>2. cooldown \in Cooldowns
  BY Bounds DEF Cooldowns
<1>3. line \in Seq(Enqueues) /\ restarts \in 0 .. MaxRestarts
  BY EmptySeq, Bounds
<1>4. job \in [idx : {0}] /\ tries \in [Requests -> Nat]
  BY DEF NoJob
<1>5. 0 <= MaxQueue + 1 /\ 0 <= MaxQueue
  BY Bounds
<1>6. TypeOK
  BY <1>1, <1>2, <1>3, <1>4, <1>5 DEF TypeOK, Cooldowns
<1> QED BY <1>1, <1>5, <1>6 DEF QueueShape, SlotOf

LEMMA QueueNext == ASSUME QueueShape, [Next]_vars PROVE QueueShape'
<1>1. ASSUME NEW r \in Plays, PickPlay(r) PROVE QueueShape'
  BY <1>1, PickPlayShape
<1>2. ASSUME NEW r \in Enqueues, Enqueue(r) PROVE QueueShape'
  BY <1>2, EnqueueShape
<1> USE DEF QueueShape, TypeOK
\* Steps that leave the queue and what is being delivered alone.
<1>3. ASSUME UNCHANGED <<queue, cooldown, job, history>>, demand' \in BOOLEAN,
             alarm' \in Nat \cup {NoAlarm}, restarts' \in 0 .. MaxRestarts,
             phase' \in {"idle", "upstream", phase}
      PROVE  QueueShape'
  <2>1. phase' = "deliver" => job' \in [idx : Nat, cmd : Commands] /\ InPlace(job.cmd, job.idx)'
    BY <1>3, StaysInPlace
  <2> QED BY <1>3, <2>1 DEF history, SlotOf
<1>4. ASSUME NEW d \in BOOLEAN PROVE Due(d, queue, cooldown) \in Nat \cup {NoAlarm}
  BY DueInTime DEF Cooldowns
<1>5. CASE SubscriberCounted
  BY <1>3, <1>5 DEF SubscriberCounted
<1>6. CASE SubscriberServed
  BY <1>3, <1>4, <1>6 DEF SubscriberServed, ReconcileAlarm
<1>7. CASE LastSubscriberLeaves
  BY <1>3, <1>4, <1>7 DEF LastSubscriberLeaves, ReconcileAlarm
<1>8. CASE AlarmFires
  BY <1>3, <1>8 DEF AlarmFires
<1>9. CASE DrainNothing
  BY <1>3, <1>4, <1>9 DEF DrainNothing, ReconcileAlarm
<1>10. CASE Restart
  <2>1. restarts' \in 0 .. MaxRestarts
    BY <1>10, Bounds DEF Restart
  <2>2. alarm' \in Nat \cup {NoAlarm}
    BY <1>4, <1>10 DEF Restart
  <2>3. job' \in [idx : {0}] /\ phase' = "idle" /\ UNCHANGED <<queue, cooldown, demand, history>>
    BY <1>10 DEF Restart, NoJob
  <2> QED BY <2>1, <2>2, <2>3 DEF history, SlotOf
<1>11. CASE UNCHANGED vars
  BY <1>3, <1>11 DEF vars
<1> QED BY <1>1, <1>2, <1>5, <1>6, <1>7, <1>8, <1>9, <1>10, <1>11, DrainSelectShape, DrainedShape,
           RetryLaterShape, TickShape DEF Next

(***************************************************************************)
(* The queue never outgrows MAX_QUEUE and the slot of a pick, and what the *)
(* object keeps is well formed (music-do.js:655-725).                      *)
(***************************************************************************)
THEOREM QueueTyped == Spec => []TypeOK
<1>1. QueueShape => TypeOK
  BY DEF QueueShape
<1> QED BY <1>1, QueueInit, QueueNext, PTL DEF Spec

-----------------------------------------------------------------------------
(* Whoever ends by reconciling the alarm sets it in time. *)
LEMMA Reconciled ==
  ASSUME QueueShape', alarm' = Due(demand', queue', cooldown')
  PROVE  WakesInTime'
<1>1. queue' \in Seq(Commands) /\ cooldown' \in Cooldowns /\ demand' \in BOOLEAN
  BY DEF QueueShape, TypeOK, Cooldowns
<1>2. /\ queue' # <<>> => alarm' # NoAlarm
      /\ \A i \in DOMAIN queue' : alarm' <= EligibleIn(queue'[i], cooldown')
  BY <1>1, DueInTime
<1> QED BY <1>2 DEF WakesInTime

(* A tick brings no command nearer than by a tick. *)
LEMMA EligibleAges ==
  ASSUME NEW cmd \in Commands, NEW cool \in Cooldowns, NEW cmd2 \in Commands, NEW cool2 \in Cooldowns,
         cmd2.req = cmd.req, cmd.settle - 1 <= cmd2.settle, cmd.cap - 1 <= cmd2.cap,
         \A k \in Categories : cool[k] - 1 <= cool2[k]
  PROVE  EligibleIn(cmd, cool) - 1 <= EligibleIn(cmd2, cool2)
<1> DEFINE f == cool[Category(cmd.req)]
           f2 == cool2[Category(cmd.req)]
<1>1. f \in Nat /\ f2 \in Nat /\ f - 1 <= f2
  BY Bounds DEF Cooldowns, Category, Categories
<1>2. cmd.settle \in Nat /\ cmd.cap \in Nat /\ cmd2.settle \in Nat /\ cmd2.cap \in Nat
  BY Bounds DEF Commands
<1> HIDE DEF f, f2
<1>3. Later(f, Sooner(Later(cmd.settle, f), cmd.cap)) - 1
        <= Later(f2, Sooner(Later(cmd2.settle, f2), cmd2.cap))
  BY <1>1, <1>2 DEF Later, Sooner
<1> QED BY <1>1, <1>3 DEF EligibleIn, f, f2

LEMMA TickWakes == ASSUME QueueShape, WakesInTime, Tick PROVE WakesInTime'
<1> DEFINE Down(m) == IF m > 0 THEN m - 1 ELSE m
           older(i) == [queue[i] EXCEPT !.settle = Down(@), !.cap = Down(@)]
<1>1. /\ queue \in Seq(Commands) /\ cooldown \in Cooldowns /\ alarm \in Nat \cup {NoAlarm}
      /\ DOMAIN queue = 1 .. Len(queue) /\ \A i \in DOMAIN queue : queue[i] \in Commands
  BY LenProperties, ElementOfSeq DEF QueueShape, TypeOK, Cooldowns
<1>2. /\ queue' = [i \in DOMAIN queue |-> older(i)]
      /\ cooldown' = [k \in Categories |-> Down(cooldown[k])]
      /\ alarm' = Down(alarm) /\ phase' = phase
  BY DEF Tick
<1>3. QueueShape'
  BY TickShape
<1>4. queue' \in Seq(Commands) /\ cooldown' \in Cooldowns
  BY <1>3 DEF QueueShape, TypeOK, Cooldowns
<1>5. DOMAIN queue' = DOMAIN queue /\ \A i \in DOMAIN queue : queue'[i] \in Commands
  BY <1>2, <1>4, LenProperties, ElementOfSeq
<1>6. \A m \in Nat : m - 1 <= Down(m)
  OBVIOUS
<1>7. ASSUME phase' = "idle", queue' # <<>>
      PROVE  alarm' # NoAlarm /\ \A i \in DOMAIN queue' : alarm' <= EligibleIn(queue'[i], cooldown')
  <2>1. queue # <<>>
    BY <1>1, <1>4, <1>5, <1>7, EmptySeq, LenProperties
  <2>2. alarm \in Nat /\ \A i \in DOMAIN queue : alarm <= EligibleIn(queue[i], cooldown)
    BY <1>1, <1>2, <1>7, <2>1 DEF WakesInTime
  <2>3. alarm' \in Nat /\ (alarm = 0 \/ alarm' = alarm - 1) /\ alarm' <= alarm
    <3>1. Down(alarm) \in Nat /\ (alarm = 0 \/ Down(alarm) = alarm - 1) /\ Down(alarm) <= alarm
      BY <2>2
    <3> QED BY <1>2, <3>1
  <2>4. alarm' # NoAlarm
    BY <2>3 DEF NoAlarm
  <2>5. ASSUME NEW i \in DOMAIN queue PROVE alarm' <= EligibleIn(queue'[i], cooldown')
    <3>1. \A k \in Categories : cooldown[k] - 1 <= cooldown'[k]
      <4>1. \A k \in Categories : cooldown[k] \in Nat
        BY <1>1, Bounds DEF Cooldowns
      <4> QED BY <1>2, <1>6, <4>1
    <3>2. /\ queue'[i].req = queue[i].req
          /\ queue[i].settle - 1 <= queue'[i].settle /\ queue[i].cap - 1 <= queue'[i].cap
      <4>1. queue[i] \in Commands /\ queue[i].settle \in Nat /\ queue[i].cap \in Nat
        BY <1>1, Bounds DEF Commands
      <4>2. queue'[i] = older(i)
        BY <1>2
      <4>3. older(i).req = queue[i].req /\ older(i).settle = Down(queue[i].settle)
            /\ older(i).cap = Down(queue[i].cap)
        BY <4>1 DEF Commands
      <4> QED BY <1>6, <4>1, <4>2, <4>3
    <3>3. EligibleIn(queue[i], cooldown) - 1 <= EligibleIn(queue'[i], cooldown')
      BY <1>1, <1>4, <1>5, <3>1, <3>2, EligibleAges
    <3>4. EligibleIn(queue[i], cooldown) \in Nat /\ EligibleIn(queue'[i], cooldown') \in Nat
      BY <1>1, <1>4, <1>5, EligibleType
    <3> QED BY <2>2, <2>3, <3>3, <3>4
  <2> QED BY <1>5, <2>4, <2>5
<1> QED BY <1>7 DEF WakesInTime

LEMMA WakesNext == ASSUME QueueShape, WakesInTime, [Next]_vars PROVE WakesInTime'
<1>1. QueueShape'
  BY QueueNext
<1>2. CASE \/ \E r \in Plays : PickPlay(r)
           \/ \E r \in Enqueues : Enqueue(r)
           \/ SubscriberServed \/ DrainNothing \/ Drained \/ RetryLater
  <2>1. alarm' = Due(demand', queue', cooldown')
    BY <1>2 DEF PickPlay, Enqueue, SubscriberServed, DrainNothing, Drained, RetryLater, Resume,
                ReconcileAlarm
  <2> QED BY <1>1, <2>1, Reconciled
<1>3. CASE LastSubscriberLeaves
  <2>1. alarm' = Due(demand', queue', cooldown')
    BY <1>3 DEF LastSubscriberLeaves, ReconcileAlarm
  <2> QED BY <1>1, <2>1, Reconciled
<1>4. CASE AlarmFires \/ DrainSelect
  BY <1>4 DEF AlarmFires, DrainSelect, WakesInTime
<1>5. CASE SubscriberCounted \/ UNCHANGED vars
  BY <1>5 DEF SubscriberCounted, WakesInTime, vars
<1>6. CASE Restart
  <2>1. UNCHANGED <<queue, cooldown, demand>>
    BY <1>6 DEF Restart
  <2>2. queue \in Seq(Commands) /\ cooldown \in Cooldowns /\ demand \in BOOLEAN
    BY DEF QueueShape, TypeOK, Cooldowns
  <2>3. CASE queue = <<>>
    BY <2>1, <2>3 DEF WakesInTime
  <2>4. CASE queue # <<>>
    <3>1. Due(demand, queue, cooldown) # NoAlarm
      BY <2>2, <2>4, DueInTime
    <3>2. alarm' = Due(demand', queue', cooldown')
      BY <1>6, <2>1, <3>1 DEF Restart
    <3> QED BY <1>1, <3>2, Reconciled
  <2> QED BY <2>3, <2>4
<1>7. CASE Tick
  BY <1>7, TickWakes
<1> QED BY <1>2, <1>3, <1>4, <1>5, <1>6, <1>7 DEF Next

(***************************************************************************)
(* The alarm is never later than the first moment a queued command is      *)
(* eligible, whoever set it last: a pick, an enqueue, a subscriber, the    *)
(* drain or the constructor (music-do.js:411-437).                         *)
(***************************************************************************)
THEOREM AlarmIsInTime == Spec => []WakesInTime
<1>1. Init => WakesInTime
  BY DEF Init, WakesInTime
<1>2. Init => QueueShape
  BY QueueInit
<1>3. QueueShape /\ WakesInTime /\ [Next]_vars => QueueShape' /\ WakesInTime'
  BY QueueNext, WakesNext
<1> QED BY <1>1, <1>2, <1>3, PTL DEF Spec

-----------------------------------------------------------------------------
(* Where in the queue each enqueue of the line stands. *)
Placed(at, q, l) ==
    /\ at \in [DOMAIN l -> DOMAIN q]
    /\ \A k \in DOMAIN l : q[at[k]].req = l[k]
    /\ \A k, j \in DOMAIN l : k < j => at[k] < at[j]
    /\ \A i \in DOMAIN q : q[i].req \in Enqueues => \E k \in DOMAIN l : at[k] = i

LEMMA KeptIsPlaced ==
  /\ EnqueuesKept <=> \E at : Placed(at, queue, line)
  /\ EnqueuesKept' <=> \E at : Placed(at, queue', line')
  BY DEF EnqueuesKept, Placed

(* A step that touches no enqueue, and adds none, keeps them where they are. *)
LEMMA EnqueuesStay ==
  ASSUME line \in Seq(Enqueues), line' = line, EnqueuesKept, DOMAIN queue \subseteq DOMAIN queue',
         \A i \in DOMAIN queue : queue'[i].req = queue[i].req
                                 \/ {queue'[i].req, queue[i].req} \cap Enqueues = {},
         \A i \in DOMAIN queue' \ DOMAIN queue : queue'[i].req \notin Enqueues
  PROVE  EnqueuesKept'
<1>1. PICK at : Placed(at, queue, line)
  BY KeptIsPlaced
<1>2. \A k \in DOMAIN line : line[k] \in Enqueues
  BY ElementOfSeq, LenProperties
<1>3. at \in [DOMAIN line -> DOMAIN queue'] /\ \A k \in DOMAIN line : queue'[at[k]].req = line[k]
  BY <1>1, <1>2 DEF Placed
<1>4. \A i \in DOMAIN queue' : queue'[i].req \in Enqueues => \E k \in DOMAIN line : at[k] = i
  BY <1>1 DEF Placed
<1>5. Placed(at, queue', line')
  BY <1>1, <1>3, <1>4 DEF Placed
<1> QED BY <1>5, KeptIsPlaced

LEMMA EnqueueKeeps ==
  ASSUME QueueShape, EnqueuesKept, NEW r \in Enqueues, Enqueue(r)
  PROVE  EnqueuesKept'
<1> DEFINE n == Len(queue) + 1
           m == Len(line) + 1
           new == [req |-> r, settle |-> 0, cap |-> 0, attempts |-> 0]
<1>1. /\ queue \in Seq(Commands) /\ DOMAIN queue = 1 .. Len(queue) /\ Len(queue) \in Nat
      /\ line \in Seq(Enqueues) /\ DOMAIN line = 1 .. Len(line) /\ Len(line) \in Nat
  BY LenProperties DEF QueueShape, TypeOK
<1>2. queue' = Append(queue, new) /\ line' = Append(line, r)
  BY DEF Enqueue
<1>3. new \in Commands /\ new.req = r
  BY Bounds DEF Commands, Requests
<1> HIDE DEF new
<1>4. /\ \A i \in 1 .. Len(queue) : queue'[i] = queue[i]
      /\ queue'[n].req = r /\ DOMAIN queue' = 1 .. n
  <2>1. queue' \in Seq(Commands) /\ Len(queue') = n /\ queue'[n] = new
        /\ \A i \in 1 .. Len(queue) : queue'[i] = queue[i]
    BY <1>1, <1>2, <1>3, AppendProperties
  <2> QED BY <1>3, <2>1, LenProperties
<1>5. /\ \A k \in 1 .. Len(line) : line'[k] = line[k]
      /\ line'[m] = r /\ DOMAIN line' = 1 .. m
  <2>1. line' \in Seq(Enqueues) /\ Len(line') = m /\ line'[m] = r
        /\ \A k \in 1 .. Len(line) : line'[k] = line[k]
    BY <1>1, <1>2, AppendProperties
  <2> QED BY <2>1, LenProperties
<1>6. PICK at : Placed(at, queue, line)
  BY KeptIsPlaced
<1> DEFINE on == [k \in 1 .. m |-> IF k = m THEN n ELSE at[k]]
<1>7. \A k \in 1 .. Len(line) : k \in 1 .. m /\ k # m /\ at[k] \in 1 .. Len(queue)
                                /\ queue[at[k]].req = line[k]
  BY <1>1, <1>6 DEF Placed
<1>8. n \in 1 .. n /\ m \in 1 .. m /\ (1 .. m) \ {m} = 1 .. Len(line) /\ (1 .. n) \ {n} = 1 .. Len(queue)
  BY <1>1
<1>9. on[m] = n /\ \A k \in 1 .. Len(line) : on[k] = at[k]
  BY <1>7, <1>8
<1>10. on \in [DOMAIN line' -> DOMAIN queue']
  <2>1. \A k \in 1 .. m : (IF k = m THEN n ELSE at[k]) \in 1 .. n
    BY <1>1, <1>7, <1>8
  <2> QED BY <1>4, <1>5, <2>1
<1> HIDE DEF on, n, m
<1>11. \A k \in DOMAIN line' : queue'[on[k]].req = line'[k]
  BY <1>4, <1>5, <1>7, <1>8, <1>9
<1>12. \A k, j \in DOMAIN line' : k < j => on[k] < on[j]
  <2> SUFFICES ASSUME NEW k \in 1 .. m, NEW j \in 1 .. m, k < j PROVE on[k] < on[j]
    BY <1>5
  <2>1. k \in 1 .. Len(line)
    BY <1>1 DEF m
  <2>2. CASE j = m
    BY <1>1, <1>7, <1>9, <2>1, <2>2 DEF n
  <2>3. CASE j # m
    BY <1>1, <1>6, <1>8, <1>9, <2>1, <2>3 DEF Placed
  <2> QED BY <2>2, <2>3
<1>13. \A i \in DOMAIN queue' : queue'[i].req \in Enqueues => \E k \in DOMAIN line' : on[k] = i
  <2> SUFFICES ASSUME NEW i \in 1 .. n, queue'[i].req \in Enqueues PROVE \E k \in 1 .. m : on[k] = i
    BY <1>4, <1>5
  <2>1. CASE i = n
    BY <1>8, <1>9, <2>1
  <2>2. CASE i # n
    BY <1>1, <1>4, <1>6, <1>7, <1>8, <1>9, <2>2 DEF Placed
  <2> QED BY <2>1, <2>2
<1>14. Placed(on, queue', line')
  BY <1>10, <1>11, <1>12, <1>13 DEF Placed
<1> QED BY <1>14, KeptIsPlaced

(* The drain takes what was delivered, from where it stands by then. *)
LEMMA DrainedKeeps == ASSUME QueueShape, EnqueuesKept, Drained PROVE EnqueuesKept'
<1> DEFINE n == job.idx
           r == job.cmd.req
<1>1. /\ queue \in Seq(Commands) /\ DOMAIN queue = 1 .. Len(queue) /\ Len(queue) \in Nat
      /\ line \in Seq(Enqueues) /\ DOMAIN line = 1 .. Len(line) /\ Len(line) \in Nat
      /\ \A k \in 1 .. Len(line) : line[k] \in Enqueues
      /\ r \in Requests /\ n \in DOMAIN queue /\ Category(queue[n].req) = Category(r)
      /\ FirstInLine(job.cmd, n) /\ \A i \in DOMAIN queue : queue[i].req \in Requests
  <2>1. line \in Seq(Enqueues) /\ queue \in Seq(Commands)
    BY DEF QueueShape, TypeOK
  <2>2. job \in [idx : Nat, cmd : Commands] /\ InPlace(job.cmd, job.idx)
    BY DEF QueueShape, Drained
  <2>3. /\ DOMAIN queue = 1 .. Len(queue) /\ Len(queue) \in Nat
        /\ DOMAIN line = 1 .. Len(line) /\ Len(line) \in Nat
        /\ \A k \in 1 .. Len(line) : line[k] \in Enqueues
        /\ \A i \in DOMAIN queue : queue[i] \in Commands
    BY <2>1, LenProperties, ElementOfSeq
  <2>4. r \in Requests /\ \A i \in DOMAIN queue : queue[i].req \in Requests
    BY <2>2, <2>3 DEF Commands
  <2>5. n \in DOMAIN queue /\ Category(queue[n].req) = Category(r) /\ FirstInLine(job.cmd, n)
    BY <2>2 DEF InPlace
  <2> QED BY <2>1, <2>3, <2>4, <2>5
<1>2. Plays \cap Enqueues = {}
  BY MusicConstants
<1>3. PICK at : Placed(at, queue, line)
  BY KeptIsPlaced
<1>4. /\ queue' = (IF StillThere THEN RemoveAt(queue, n) ELSE queue)
      /\ line' = (IF line # <<>> /\ Head(line) = r THEN Tail(line) ELSE line)
  BY DEF Drained, Resume, Verdict
<1>5. line # <<>> => Len(line) # 0 /\ Head(line) = line[1] /\ Head(line) \in Enqueues
  BY <1>1, EmptySeq, HeadTailProperties
<1>6. CASE ~StillThere
  <2>1. r \in Plays
    BY <1>1, <1>6 DEF StillThere, FirstInLine, Category, Requests
  <2>2. line' = line /\ queue' = queue
    BY <1>1, <1>2, <1>4, <1>5, <1>6, <2>1
  <2> QED BY <1>1, <2>2, EnqueuesStay
<1> HIDE DEF n
<1>7. CASE StillThere
  <2> DEFINE old(i) == IF i < n THEN i ELSE i + 1
  <2>1. /\ DOMAIN queue' = 1 .. Len(queue) - 1
        /\ \A i \in DOMAIN queue' : queue'[i] = queue[old(i)]
    BY <1>1, <1>4, <1>7, RemovalShape
  <2>2. CASE r \in Plays
    <3>1. line' = line
      BY <1>1, <1>2, <1>4, <1>5, <2>2
    <3>2. queue[n].req \in Plays
      BY <1>1, <2>2 DEF Category, Requests
    <3> DEFINE on == [k \in DOMAIN line |-> IF at[k] < n THEN at[k] ELSE at[k] - 1]
    <3>3. \A k \in DOMAIN line : at[k] \in 1 .. Len(queue) /\ at[k] # n
      BY <1>1, <1>2, <1>3, <3>2 DEF Placed
    <3>4. \A k \in DOMAIN line : on[k] \in 1 .. Len(queue) - 1 /\ old(on[k]) = at[k]
      BY <1>1, <3>3
    <3>5. on \in [DOMAIN line' -> DOMAIN queue']
      BY <2>1, <3>1, <3>4
    <3>6. \A k, j \in DOMAIN line : k < j => on[k] < on[j]
      BY <1>1, <1>3, <3>3 DEF Placed
    <3>7. \A i \in DOMAIN queue' : queue'[i].req \in Enqueues => \E k \in DOMAIN line : on[k] = i
      <4> SUFFICES ASSUME NEW i \in 1 .. Len(queue) - 1, queue[old(i)].req \in Enqueues
                   PROVE  \E k \in DOMAIN line : on[k] = i
        BY <2>1
      <4>1. old(i) \in DOMAIN queue
        BY <1>1
      <4>2. PICK k \in DOMAIN line : at[k] = old(i)
        BY <1>3, <4>1 DEF Placed
      <4>3. on[k] = IF at[k] < n THEN at[k] ELSE at[k] - 1
        OBVIOUS
      <4>4. (IF old(i) < n THEN old(i) ELSE old(i) - 1) = i
        BY <1>1
      <4>5. on[k] = i
        BY <4>2, <4>3, <4>4
      <4> QED BY <4>5
    <3> HIDE DEF on, old
    <3>8. \A k \in DOMAIN line : queue'[on[k]].req = line[k]
      BY <1>3, <2>1, <3>4 DEF Placed
    <3>9. Placed(on, queue', line')
      BY <3>1, <3>5, <3>6, <3>7, <3>8 DEF Placed
    <3> QED BY <3>9, KeptIsPlaced
  <2>3. CASE r \in Enqueues
    <3>1. queue[n].req = r /\ \A i \in 1 .. n - 1 : queue[i].req \notin Enqueues
      BY <1>1, <2>3 DEF FirstInLine
    <3>2. 1 \in DOMAIN line /\ at[1] = n
      <4>1. PICK k \in DOMAIN line : at[k] = n
        BY <1>1, <1>3, <2>3, <3>1 DEF Placed
      <4>2. 1 \in DOMAIN line
        BY <1>1, <4>1
      <4>3. ASSUME k # 1 PROVE FALSE
        <5>1. at[1] < at[k] /\ at[1] \in 1 .. Len(queue) /\ queue[at[1]].req \in Enqueues
          BY <1>1, <1>3, <4>1, <4>2, <4>3 DEF Placed
        <5>2. at[1] \in 1 .. n - 1
          BY <1>1, <4>1, <5>1
        <5> QED BY <3>1, <5>1, <5>2
      <4> QED BY <4>1, <4>2, <4>3
    <3>3. line[1] = r /\ line # <<>>
      BY <1>1, <1>3, <3>1, <3>2, EmptySeq DEF Placed
    <3>4. line' = Tail(line)
      BY <1>4, <1>5, <3>3
    <3>5. DOMAIN line' = 1 .. Len(line) - 1 /\ \A k \in 1 .. Len(line) - 1 : line'[k] = line[k + 1]
      <4>1. line' \in Seq(Enqueues) /\ Len(line') = Len(line) - 1
            /\ \A k \in 1 .. Len(line) - 1 : line'[k] = line[k + 1]
        BY <1>1, <3>3, <3>4, HeadTailProperties
      <4> QED BY <4>1, LenProperties
    <3> DEFINE on == [k \in 1 .. Len(line) - 1 |-> at[k + 1] - 1]
    <3>6. \A k \in 1 .. Len(line) - 1 : k + 1 \in DOMAIN line /\ at[k + 1] \in 1 .. Len(queue) /\ n < at[k + 1]
      BY <1>1, <1>3, <3>2 DEF Placed
    <3>7. \A k \in 1 .. Len(line) - 1 : on[k] \in 1 .. Len(queue) - 1 /\ old(on[k]) = at[k + 1]
      BY <1>1, <3>6
    <3>8. on \in [DOMAIN line' -> DOMAIN queue']
      BY <2>1, <3>5, <3>7
    <3>9. \A k, j \in 1 .. Len(line) - 1 : k < j => on[k] < on[j]
      <4> SUFFICES ASSUME NEW k \in 1 .. Len(line) - 1, NEW j \in 1 .. Len(line) - 1, k < j
                   PROVE  on[k] < on[j]
        OBVIOUS
      <4>1. k + 1 < j + 1
        BY <1>1
      <4>2. at[k + 1] < at[j + 1]
        BY <1>3, <3>6, <4>1 DEF Placed
      <4> QED BY <1>1, <3>6, <4>2
    <3>10. \A i \in DOMAIN queue' : queue'[i].req \in Enqueues => \E k \in 1 .. Len(line) - 1 : on[k] = i
      <4> SUFFICES ASSUME NEW i \in 1 .. Len(queue) - 1, queue[old(i)].req \in Enqueues
                   PROVE  \E k \in 1 .. Len(line) - 1 : on[k] = i
        BY <2>1
      <4>1. old(i) \in DOMAIN queue /\ old(i) # n
        BY <1>1
      <4>2. PICK k \in DOMAIN line : at[k] = old(i)
        BY <1>3, <4>1 DEF Placed
      <4>3. k # 1 /\ k - 1 \in 1 .. Len(line) - 1 /\ k - 1 + 1 = k /\ i < Len(queue)
        BY <1>1, <3>2, <4>1, <4>2
      <4>4. n < old(i)
        BY <3>6, <4>2, <4>3
      <4>5. at[k] - 1 = i
        BY <1>1, <4>2, <4>4
      <4>6. on[k - 1] = i
        BY <4>3, <4>5
      <4> QED BY <4>3, <4>6
    <3> HIDE DEF on, old
    <3>11. \A k \in 1 .. Len(line) - 1 : queue'[on[k]].req = line'[k]
      BY <1>3, <2>1, <3>5, <3>6, <3>7 DEF Placed
    <3>12. Placed(on, queue', line')
      BY <3>5, <3>8, <3>9, <3>10, <3>11 DEF Placed
    <3> QED BY <3>12, KeptIsPlaced
  <2> QED BY <1>1, <2>2, <2>3 DEF Requests
<1> QED BY <1>6, <1>7

LEMMA KeptNext == ASSUME QueueShape, EnqueuesKept, [Next]_vars PROVE EnqueuesKept'
<1>1. line \in Seq(Enqueues) /\ queue \in Seq(Commands) /\ DOMAIN queue = 1 .. Len(queue)
      /\ Plays \cap Enqueues = {}
  BY LenProperties, MusicConstants DEF QueueShape, TypeOK
<1>2. ASSUME line' = line, DOMAIN queue' = DOMAIN queue,
             \A i \in DOMAIN queue : queue'[i].req = queue[i].req
      PROVE  EnqueuesKept'
  BY <1>1, <1>2, EnqueuesStay
<1>3. ASSUME NEW r \in Plays, PickPlay(r) PROVE EnqueuesKept'
  <2>1. /\ \A i \in DOMAIN queue : i \in DOMAIN queue'
        /\ \E n \in DOMAIN queue' :
             /\ SlotOf(queue') = {n} /\ queue'[n].req = r /\ queue'[n].attempts = 0
             /\ \A i \in DOMAIN queue' \ {n} : i \in DOMAIN queue /\ queue'[i] = queue[i]
             /\ n \in DOMAIN queue => queue[n].req \in Plays
    BY <1>3, PickPlaced
  <2>2. \A i \in DOMAIN queue : queue'[i].req = queue[i].req
                                \/ {queue'[i].req, queue[i].req} \cap Enqueues = {}
    BY <1>1, <2>1
  <2>3. \A i \in DOMAIN queue' \ DOMAIN queue : queue'[i].req \notin Enqueues
    BY <1>1, <2>1
  <2>4. line' = line
    BY <1>3 DEF PickPlay
  <2> QED BY <1>1, <2>1, <2>2, <2>3, <2>4, EnqueuesStay
<1>4. CASE RetryLater
  <2>1. DOMAIN queue' = DOMAIN queue /\ \A i \in DOMAIN queue : queue'[i].req = queue[i].req
    BY <1>1, <1>4, RetryCounts, LenProperties
  <2> QED BY <1>2, <1>4, <2>1 DEF RetryLater
<1>5. CASE Tick
  <2>1. DOMAIN queue' = DOMAIN queue /\ line' = line
    BY <1>5 DEF Tick, history
  <2>2. \A i \in DOMAIN queue : queue'[i].req = queue[i].req
    <3>1. \A i \in DOMAIN queue : queue[i] \in Commands
      BY <1>1, ElementOfSeq
    <3> QED BY <1>5, <3>1 DEF Tick, Commands
  <2> QED BY <1>2, <2>1, <2>2
<1>6. CASE UNCHANGED <<queue, line>>
  BY <1>2, <1>6
<1> QED BY <1>3, <1>4, <1>5, <1>6, EnqueueKeeps, DrainedKeeps
        DEF Next, SubscriberCounted, SubscriberServed, LastSubscriberLeaves, AlarmFires, DrainNothing,
            DrainSelect, Restart, history, vars

(***************************************************************************)
(* Every accepted enqueue stays in the queue, in the order accepted, until *)
(* it has its verdict, although the drain removes by an index it read      *)
(* before the delivery and picks overtake (music-do.js:816-830).           *)
(***************************************************************************)
THEOREM NoEnqueueLost == Spec => []EnqueuesKept
<1>1. Init => EnqueuesKept
  <2>1. Init => Placed(<<>>, queue, line)
    BY EmptySeq DEF Init, Placed
  <2> QED BY <2>1, KeptIsPlaced
<1> QED BY <1>1, QueueInit, QueueNext, KeptNext, PTL DEF Spec

-----------------------------------------------------------------------------
LEMMA QueueFacts ==
  ASSUME QueueShape
  PROVE  /\ queue \in Seq(Commands) /\ DOMAIN queue = 1 .. Len(queue) /\ Len(queue) \in Nat
         /\ \A i \in DOMAIN queue :
              /\ queue[i] \in Commands /\ queue[i].req \in Requests
              /\ queue[i].attempts \in Nat /\ queue[i].attempts < MaxAttempts
         /\ restarts \in Nat /\ tries \in [Requests -> Nat] /\ MaxAttempts \in Nat
<1>1. queue \in Seq(Commands) /\ tries \in [Requests -> Nat] /\ restarts \in 0 .. MaxRestarts
  BY DEF QueueShape, TypeOK
<1>2. DOMAIN queue = 1 .. Len(queue) /\ Len(queue) \in Nat /\ \A i \in DOMAIN queue : queue[i] \in Commands
  BY <1>1, LenProperties, ElementOfSeq
<1>3. \A i \in DOMAIN queue : queue[i].req \in Requests /\ queue[i].attempts \in 0 .. MaxAttempts
  BY <1>2 DEF Commands
<1>4. \A i \in DOMAIN queue : queue[i].attempts < MaxAttempts
  BY DEF QueueShape
<1> QED BY <1>1, <1>2, <1>3, <1>4, Bounds

(* What was delivered stands where it stood, or a newer pick has its place. *)
LEMMA JobStands ==
  ASSUME QueueShape, phase = "deliver"
  PROVE  /\ job.idx \in DOMAIN queue /\ job.cmd \in Commands
         /\ Category(queue[job.idx].req) = Category(job.cmd.req)
         /\ StillThere => queue[job.idx].req = job.cmd.req /\ queue[job.idx].attempts = job.cmd.attempts
         /\ ~StillThere => job.cmd.req \in Plays /\ \A i \in DOMAIN queue : queue[i].req # job.cmd.req
<1> DEFINE n == job.idx
           r == job.cmd.req
<1>1. job \in [idx : Nat, cmd : Commands] /\ InPlace(job.cmd, job.idx)
  BY DEF QueueShape
<1>2. job.cmd \in Commands /\ r \in Requests /\ queue \in Seq(Commands)
  BY <1>1 DEF Commands, QueueShape, TypeOK
<1>3. n \in DOMAIN queue /\ Category(queue[n].req) = Category(r)
  BY <1>1 DEF InPlace
<1>4. r \in Enqueues => queue[n].req = r
  BY <1>1 DEF InPlace, FirstInLine
<1>5. \A i \in DOMAIN queue : queue[i].req \in Requests
  BY QueueFacts
<1>6. CASE r \in Enqueues
  BY <1>1, <1>2, <1>3, <1>4, <1>6, MusicConstants DEF StillThere, InPlace
<1>7. CASE r \in Plays
  <2>1. queue[n].req \in Plays
    BY <1>3, <1>5, <1>7 DEF Category, Requests
  <2>2. StillThere <=> queue[n].req = r
    BY <1>3, <2>1 DEF StillThere
  <2>3. \A i \in DOMAIN queue : queue[i].req = r => i = n
    BY <1>3, <1>7, <2>1 DEF QueueShape, SlotOf
  <2> QED BY <1>1, <1>2, <1>3, <1>7, <2>2, <2>3 DEF InPlace
<1> QED BY <1>2, <1>6, <1>7 DEF Requests

LEMMA DrainedPick == ASSUME QueueShape, LatestPickKept, Drained PROVE LatestPickKept'
<1> DEFINE n == job.idx
           r == job.cmd.req
           old(i) == IF i < n THEN i ELSE i + 1
<1>1. /\ queue \in Seq(Commands) /\ DOMAIN queue = 1 .. Len(queue) /\ Len(queue) \in Nat
      /\ pick \in Plays \cup {NoPick} /\ NoPick \notin Plays /\ Plays \cap Enqueues = {}
  BY LenProperties, MusicConstants DEF QueueShape, TypeOK, NoPick
<1>2. /\ n \in DOMAIN queue /\ Category(queue[n].req) = Category(r)
      /\ StillThere => queue[n].req = r
      /\ ~StillThere => r \in Plays /\ \A i \in DOMAIN queue : queue[i].req # r
  BY JobStands DEF Drained
<1>3. /\ queue' = (IF StillThere THEN RemoveAt(queue, n) ELSE queue)
      /\ pick' = IF pick = r THEN NoPick ELSE pick
  BY DEF Drained, Resume, Verdict
<1>4. pick \in Plays => \E i \in DOMAIN queue : SlotOf(queue) = {i} /\ queue[i].req = pick
  BY <1>1 DEF LatestPickKept
<1>5. CASE ~StillThere
  <2>1. pick # r
    BY <1>2, <1>4, <1>5
  <2> QED BY <1>3, <1>5, <2>1 DEF LatestPickKept
<1>6. CASE StillThere
  <2>1. /\ DOMAIN queue' = 1 .. Len(queue) - 1
        /\ \A i \in DOMAIN queue' : queue'[i] = queue[old(i)]
    BY <1>2, <1>3, <1>6, RemovalShape
  <2>2. \A i \in DOMAIN queue' : old(i) \in DOMAIN queue \ {n}
    BY <1>1, <1>2, <2>1
  <2>3. \A j \in DOMAIN queue \ {n} : \E i \in DOMAIN queue' : old(i) = j
    <3> SUFFICES ASSUME NEW j \in DOMAIN queue \ {n} PROVE \E i \in DOMAIN queue' : old(i) = j
      OBVIOUS
    <3>1. CASE j < n
      <4>1. j \in DOMAIN queue' /\ old(j) = j
        BY <1>1, <1>2, <2>1, <3>1
      <4> QED BY <4>1
    <3>2. CASE ~(j < n)
      <4>1. j - 1 \in DOMAIN queue' /\ old(j - 1) = j
        BY <1>1, <1>2, <2>1, <3>2
      <4> QED BY <4>1
    <3> QED BY <3>1, <3>2
  <2>4. \A i, j \in DOMAIN queue' : old(i) = old(j) => i = j
    BY <1>1, <1>2, <2>1
  <2> HIDE DEF old
  <2>5. \A i \in DOMAIN queue' : i \in SlotOf(queue') <=> old(i) \in SlotOf(queue)
    BY <2>1, <2>2 DEF SlotOf
  <2>6. CASE queue[n].req \in Plays
    <3>1. SlotOf(queue) = {n}
      BY <1>1, <1>2, <1>4, <2>6 DEF LatestPickKept, SlotOf
    <3>2. pick = r
      BY <1>1, <1>2, <1>4, <1>6, <3>1 DEF LatestPickKept
    <3>3. SlotOf(queue') = {}
      BY <2>2, <2>5, <3>1 DEF SlotOf
    <3> QED BY <1>3, <3>2, <3>3 DEF LatestPickKept
  <2>7. CASE queue[n].req \notin Plays
    <3>1. n \notin SlotOf(queue) /\ r \notin Plays
      BY <1>2, <1>6, <2>7 DEF SlotOf
    <3>2. CASE pick = NoPick
      <4>1. SlotOf(queue') = {}
        BY <2>5, <3>2 DEF LatestPickKept, SlotOf
      <4> QED BY <1>3, <3>2, <4>1 DEF LatestPickKept
    <3>3. CASE pick # NoPick
      <4>1. pick' = pick
        BY <1>1, <1>3, <3>1, <3>3
      <4>2. PICK j \in DOMAIN queue : SlotOf(queue) = {j} /\ queue[j].req = pick
        BY <1>1, <1>4, <3>3
      <4>3. PICK i \in DOMAIN queue' : old(i) = j
        BY <2>3, <3>1, <4>2
      <4>4. SlotOf(queue') = {i} /\ queue'[i].req = pick
        BY <2>1, <2>4, <2>5, <4>2, <4>3 DEF SlotOf
      <4> QED BY <3>3, <4>1, <4>4 DEF LatestPickKept
    <3> QED BY <3>2, <3>3
  <2> QED BY <2>6, <2>7
<1> QED BY <1>5, <1>6

LEMMA PickNext == ASSUME QueueShape, LatestPickKept, [Next]_vars PROVE LatestPickKept'
<1>1. queue \in Seq(Commands) /\ DOMAIN queue = 1 .. Len(queue) /\ Len(queue) \in Nat
      /\ Plays \cap Enqueues = {} /\ NoPick \notin Plays
  BY LenProperties, MusicConstants DEF QueueShape, TypeOK, NoPick
<1>2. ASSUME pick' = pick, DOMAIN queue \subseteq DOMAIN queue',
             \A i \in DOMAIN queue : queue'[i].req = queue[i].req,
             \A i \in DOMAIN queue' \ DOMAIN queue : queue'[i].req \notin Plays
      PROVE  LatestPickKept'
  <2>1. SlotOf(queue') = SlotOf(queue)
    BY <1>2 DEF SlotOf
  <2> QED BY <1>2, <2>1 DEF LatestPickKept
<1>3. ASSUME NEW r \in Plays, PickPlay(r) PROVE LatestPickKept'
  <2>1. \E n \in DOMAIN queue' : SlotOf(queue') = {n} /\ queue'[n].req = r
    BY <1>3, PickPlaced
  <2>2. pick' = r /\ r # NoPick
    BY <1>1, <1>3 DEF PickPlay
  <2> QED BY <2>1, <2>2 DEF LatestPickKept
<1>4. ASSUME NEW r \in Enqueues, Enqueue(r) PROVE LatestPickKept'
  <2> DEFINE new == [req |-> r, settle |-> 0, cap |-> 0, attempts |-> 0]
  <2>1. queue' = Append(queue, new) /\ pick' = pick
    BY <1>4 DEF Enqueue
  <2>2. new \in Commands /\ new.req = r
    BY Bounds DEF Commands, Requests
  <2> HIDE DEF new
  <2>3. queue' \in Seq(Commands) /\ Len(queue') = Len(queue) + 1 /\ queue'[Len(queue) + 1] = new
        /\ \A i \in 1 .. Len(queue) : queue'[i] = queue[i]
    BY <1>1, <2>1, <2>2, AppendProperties
  <2>4. DOMAIN queue' = 1 .. Len(queue) + 1
    BY <2>3, LenProperties
  <2> QED BY <1>1, <1>2, <2>1, <2>2, <2>3, <2>4
<1>5. CASE RetryLater
  <2>1. DOMAIN queue' = DOMAIN queue /\ \A i \in DOMAIN queue : queue'[i].req = queue[i].req
    BY <1>1, <1>5, RetryCounts, LenProperties
  <2> QED BY <1>2, <1>5, <2>1 DEF RetryLater
<1>6. CASE Tick
  <2>1. DOMAIN queue' = DOMAIN queue /\ pick' = pick
    BY <1>6 DEF Tick, history
  <2>2. \A i \in DOMAIN queue : queue'[i].req = queue[i].req
    <3>1. \A i \in DOMAIN queue : queue[i] \in Commands
      BY <1>1, ElementOfSeq
    <3> QED BY <1>6, <3>1 DEF Tick, Commands
  <2> QED BY <1>2, <2>1, <2>2
<1>7. CASE UNCHANGED <<queue, pick>>
  BY <1>2, <1>7
<1> QED BY <1>3, <1>4, <1>5, <1>6, <1>7, DrainedPick
        DEF Next, SubscriberCounted, SubscriberServed, LastSubscriberLeaves, AlarmFires, DrainNothing,
            DrainSelect, Restart, history, vars

(***************************************************************************)
(* The slot holds the latest pick until that pick has its verdict, also    *)
(* when it arrived while an older one was being delivered, and no older    *)
(* one comes back (music-do.js:662-667).                                   *)
(***************************************************************************)
THEOREM LatestPickWins == Spec => []LatestPickKept
<1>1. Init => LatestPickKept
  <2>1. Init => DOMAIN queue = {}
    BY EmptySeq DEF Init
  <2> QED BY <2>1 DEF Init, LatestPickKept, SlotOf
<1> QED BY <1>1, QueueInit, QueueNext, PickNext, PTL DEF Spec

-----------------------------------------------------------------------------
(***************************************************************************)
(* A delivery that was begun is counted on its command, or is the one      *)
(* under way, or was cut short by a restart; what has left the queue is    *)
(* forgotten.                                                              *)
(***************************************************************************)
UnderWay(p, j, r) == IF p = "deliver" /\ j.cmd.req = r THEN 1 ELSE 0

LEMMA OneUnderWay == \A p, j, r : UnderWay(p, j, r) \in {0, 1}
  BY DEF UnderWay

Counted ==
    /\ \A i \in DOMAIN queue :
         tries[queue[i].req] <= queue[i].attempts + restarts + UnderWay(phase, job, queue[i].req)
    /\ \A r \in Requests : (\A i \in DOMAIN queue : queue[i].req # r) => tries[r] = 0

LEMMA CountedBounds == ASSUME QueueShape, Counted PROVE AttemptsBounded
<1>1. /\ \A i \in DOMAIN queue : queue[i].attempts \in Nat /\ queue[i].attempts < MaxAttempts
      /\ restarts \in Nat /\ MaxAttempts \in Nat /\ tries \in [Requests -> Nat]
  BY QueueFacts
<1>2. \A r : UnderWay(phase, job, r) \in {0, 1}
  BY OneUnderWay
<1> SUFFICES ASSUME NEW r \in Requests PROVE tries[r] <= MaxAttempts + restarts
  BY DEF AttemptsBounded
<1>3. CASE \A i \in DOMAIN queue : queue[i].req # r
  BY <1>1, <1>3 DEF Counted
<1>4. ASSUME NEW i \in DOMAIN queue, queue[i].req = r
      PROVE  tries[r] <= MaxAttempts + restarts
  BY <1>1, <1>2, <1>4 DEF Counted
<1> QED BY <1>3, <1>4

(* What stays in the queue keeps its count when the others are forgotten. *)
LEMMA CountedLater ==
  ASSUME QueueShape, Counted, tries' = TriesIn(queue'), restarts' = restarts,
         \A i \in DOMAIN queue' :
            /\ queue'[i].req \in Requests /\ queue'[i].attempts \in Nat
            /\ \/ \A j \in DOMAIN queue : queue[j].req # queue'[i].req
               \/ \E j \in DOMAIN queue :
                    /\ queue'[i].req = queue[j].req
                    /\ queue[j].attempts + UnderWay(phase, job, queue[j].req)
                         <= queue'[i].attempts + UnderWay(phase', job', queue[j].req)
  PROVE  Counted'
<1>1. ASSUME NEW i \in DOMAIN queue'
      PROVE  tries'[queue'[i].req] <= queue'[i].attempts + restarts' + UnderWay(phase', job', queue'[i].req)
  <2> DEFINE r == queue'[i].req
             new == queue'[i].attempts
             now == UnderWay(phase', job', r)
  <2>1. r \in Requests /\ new \in Nat /\ now \in {0, 1} /\ restarts \in Nat /\ tries[r] \in Nat
    BY QueueFacts, OneUnderWay
  <2>2. tries'[r] = tries[r]
    BY <2>1 DEF TriesIn
  <2>3. CASE \A j \in DOMAIN queue : queue[j].req # r
    <3>1. tries[r] = 0
      BY <2>1, <2>3 DEF Counted
    <3> HIDE DEF r, new, now
    <3> QED BY <2>1, <2>2, <3>1 DEF r, new, now
  <2>4. ASSUME NEW j \in DOMAIN queue, r = queue[j].req,
               queue[j].attempts + UnderWay(phase, job, queue[j].req) <= new + UnderWay(phase', job', queue[j].req)
        PROVE  tries'[r] <= new + restarts' + now
    <3> DEFINE old == queue[j].attempts
               was == UnderWay(phase, job, r)
    <3>1. tries[r] <= old + restarts + was /\ old + was <= new + now
      BY <2>4 DEF Counted
    <3>2. old \in Nat /\ was \in {0, 1}
      BY QueueFacts, OneUnderWay
    <3> HIDE DEF r, new, now, old, was
    <3> QED BY <2>1, <2>2, <3>1, <3>2
  <2> QED BY <2>3, <2>4
<1>2. \A r \in Requests : (\A i \in DOMAIN queue' : queue'[i].req # r) => tries'[r] = 0
  BY DEF TriesIn
<1> QED BY <1>1, <1>2 DEF Counted

LEMMA CountedNext == ASSUME QueueShape, Counted, [Next]_vars PROVE Counted'
<1>1. /\ queue \in Seq(Commands) /\ DOMAIN queue = 1 .. Len(queue) /\ Len(queue) \in Nat
      /\ \A i \in DOMAIN queue : queue[i] \in Commands /\ queue[i].attempts \in Nat
                                 /\ queue[i].req \in Requests
      /\ restarts \in Nat /\ tries \in [Requests -> Nat]
  BY QueueFacts
<1>2. \A p, j, r : UnderWay(p, j, r) \in {0, 1}
  BY OneUnderWay
<1>3. QueueShape' /\ queue' \in Seq(Commands)
      /\ \A i \in DOMAIN queue' : queue'[i].req \in Requests /\ queue'[i].attempts \in Nat
  <2>1. QueueShape'
    BY QueueNext
  <2>2. queue' \in Seq(Commands)
    BY <2>1 DEF QueueShape, TypeOK
  <2>3. \A i \in DOMAIN queue' : queue'[i] \in Commands
    BY <2>2, ElementOfSeq, LenProperties
  <2> QED BY <2>1, <2>2, <2>3, Bounds DEF Commands
<1>4. ASSUME NEW r \in Plays, PickPlay(r) PROVE Counted'
  <2>1. /\ \A i \in DOMAIN queue : queue[i].req # r
        /\ \E n \in DOMAIN queue' :
             /\ queue'[n].req = r
             /\ \A i \in DOMAIN queue' \ {n} : i \in DOMAIN queue /\ queue'[i] = queue[i]
    BY <1>4, PickPlaced
  <2>2. UNCHANGED <<phase, job, restarts>> /\ tries' = TriesIn(queue')
    BY <1>4 DEF PickPlay
  <2>3. \A q \in Requests : UnderWay(phase', job', q) = UnderWay(phase, job, q)
    BY <2>2 DEF UnderWay
  <2>4. ASSUME NEW i \in DOMAIN queue'
        PROVE  \/ \A j \in DOMAIN queue : queue[j].req # queue'[i].req
               \/ \E j \in DOMAIN queue : queue'[i].req = queue[j].req
                    /\ queue[j].attempts + UnderWay(phase, job, queue[j].req)
                         <= queue'[i].attempts + UnderWay(phase', job', queue[j].req)
    <3>1. CASE queue'[i].req = r
      BY <2>1, <3>1
    <3>2. CASE queue'[i].req # r
      <4>1. i \in DOMAIN queue /\ queue'[i] = queue[i]
        BY <2>1, <3>2
      <4>2. queue[i].attempts + UnderWay(phase', job', queue[i].req) >= queue[i].attempts + UnderWay(phase, job, queue[i].req)
        BY <1>1, <1>2, <2>3, <4>1
      <4> QED BY <4>1, <4>2
    <3> QED BY <3>1, <3>2
  <2> QED BY <1>3, <2>2, <2>4, CountedLater
<1>5. ASSUME NEW r \in Enqueues, Enqueue(r) PROVE Counted'
  <2> DEFINE n == Len(queue) + 1
             new == [req |-> r, settle |-> 0, cap |-> 0, attempts |-> 0]
  <2>1. /\ queue' = Append(queue, new) /\ UNCHANGED <<phase, job, restarts, tries>>
        /\ \A i \in DOMAIN queue : queue[i].req # r
    BY <1>5 DEF Enqueue, Free
  <2>2. new \in Commands /\ new.req = r /\ new.attempts = 0 /\ r \in Requests
    BY Bounds DEF Commands, Requests
  <2> HIDE DEF new
  <2>3. Len(queue') = n /\ queue'[n] = new /\ \A i \in 1 .. Len(queue) : queue'[i] = queue[i]
    BY <1>1, <2>1, <2>2, AppendProperties
  <2>4. DOMAIN queue' = 1 .. n
    BY <1>3, <2>3, LenProperties
  <2>5. \A q \in Requests : UnderWay(phase', job', q) = UnderWay(phase, job, q)
    BY <2>1 DEF UnderWay
  <2>6. tries[r] = 0
    BY <2>1, <2>2 DEF Counted
  <2>7. ASSUME NEW i \in DOMAIN queue'
        PROVE  tries'[queue'[i].req] <= queue'[i].attempts + restarts' + UnderWay(phase', job', queue'[i].req)
    <3>1. CASE i = n
      BY <1>1, <1>2, <2>1, <2>2, <2>3, <2>6, <3>1
    <3>2. CASE i # n
      <4>1. i \in DOMAIN queue /\ queue'[i] = queue[i]
        BY <1>1, <2>3, <2>4, <3>2
      <4>2. UnderWay(phase', job', queue[i].req) = UnderWay(phase, job, queue[i].req)
        BY <1>1, <2>5, <4>1
      <4> QED BY <2>1, <4>1, <4>2 DEF Counted
    <3> QED BY <3>1, <3>2
  <2>8. \A q \in Requests : (\A i \in DOMAIN queue' : queue'[i].req # q) => tries'[q] = 0
    BY <1>1, <2>1, <2>3, <2>4 DEF Counted
  <2> QED BY <2>7, <2>8 DEF Counted
<1>6. CASE DrainSelect
  <2> DEFINE n == FirstEligible
             r == queue[n].req
  <2>1. n \in DOMAIN queue /\ phase = "upstream"
    BY <1>6, FirstEligibleFound DEF DrainSelect
  <2>2. /\ job' = [idx |-> n, cmd |-> queue[n]] /\ phase' = "deliver"
        /\ tries' = [tries EXCEPT ![r] = @ + 1] /\ UNCHANGED <<queue, restarts>>
    BY <1>6 DEF DrainSelect
  <2> HIDE DEF n
  <2>3. /\ r \in Requests /\ tries'[r] = tries[r] + 1
        /\ \A q \in Requests \ {r} : tries'[q] = tries[q] /\ UnderWay(phase', job', q) = 0
        /\ UnderWay(phase', job', r) = 1 /\ \A q \in Requests : UnderWay(phase, job, q) = 0
    BY <1>1, <2>1, <2>2 DEF UnderWay
  <2>4. ASSUME NEW i \in DOMAIN queue
        PROVE  tries'[queue[i].req] <= queue[i].attempts + restarts + UnderWay(phase', job', queue[i].req)
    <3> DEFINE q == queue[i].req
               a == queue[i].attempts
               now == UnderWay(phase', job', q)
    <3>1. tries[q] <= a + restarts + UnderWay(phase, job, q)
      BY DEF Counted
    <3>2. q \in Requests /\ tries[q] \in Nat /\ a \in Nat /\ UnderWay(phase, job, q) = 0
      BY <1>1, <2>3
    <3>3. q = r => tries'[q] = tries[q] + 1 /\ now = 1
      BY <2>3
    <3>4. q # r => tries'[q] = tries[q] /\ now = 0
      BY <2>3, <3>2
    <3> HIDE DEF q, a, now
    <3>5. tries'[q] <= a + restarts + now
      BY <1>1, <3>1, <3>2, <3>3, <3>4
    <3> QED BY <3>5 DEF q, a, now
  <2>5. \A q \in Requests : (\A i \in DOMAIN queue : queue[i].req # q) => tries'[q] = 0
    BY <2>1, <2>3 DEF Counted
  <2> QED BY <2>2, <2>4, <2>5 DEF Counted
<1>7. CASE Drained \/ RetryLater
  <2>1. phase = "deliver" /\ phase' = "idle" /\ tries' = TriesIn(queue') /\ restarts' = restarts
    BY <1>7 DEF Drained, RetryLater, Resume
  <2> DEFINE n == job.idx
             r == job.cmd.req
  <2>2. /\ n \in DOMAIN queue /\ job.cmd \in Commands
        /\ StillThere => queue[n].req = r /\ queue[n].attempts = job.cmd.attempts
        /\ ~StillThere => \A i \in DOMAIN queue : queue[i].req # r
    BY <2>1, JobStands
  <2>3. \A q \in Requests : UnderWay(phase', job', q) = 0 /\ (q # r => UnderWay(phase, job, q) = 0)
    BY <2>1 DEF UnderWay
  <2>4. ASSUME NEW i \in DOMAIN queue',
               NEW j \in DOMAIN queue, queue'[i].req = queue[j].req,
               \/ queue[j].req # r /\ queue'[i].attempts = queue[j].attempts
               \/ queue'[i].attempts = queue[j].attempts + 1
        PROVE  \E k \in DOMAIN queue : queue'[i].req = queue[k].req
                 /\ queue[k].attempts + UnderWay(phase, job, queue[k].req)
                         <= queue'[i].attempts + UnderWay(phase', job', queue[k].req)
    BY <1>1, <1>2, <2>3, <2>4
  <2>5. CASE Drained
    <3>1. queue' = IF StillThere THEN RemoveAt(queue, n) ELSE queue
      BY <2>5 DEF Drained, Resume
    <3>2. \A i \in DOMAIN queue' : \E j \in DOMAIN queue : queue'[i] = queue[j] /\ queue[j].req # r
      <4>1. CASE ~StillThere
        BY <2>2, <3>1, <4>1
      <4>2. CASE StillThere
        <5>1. \A i \in DOMAIN queue' : queue'[i] = queue[IF i < n THEN i ELSE i + 1]
              /\ DOMAIN queue' = 1 .. Len(queue) - 1
          BY <2>2, <3>1, <4>2, RemovalShape
        <5>2. \A i \in DOMAIN queue' : (IF i < n THEN i ELSE i + 1) \in DOMAIN queue \ {n}
          BY <1>1, <2>2, <5>1
        <5>3. \A j \in DOMAIN queue \ {n} : queue[j].req # r
          BY <2>2, <4>2 DEF QueueShape
        <5> QED BY <5>1, <5>2, <5>3
      <4> QED BY <4>1, <4>2
    <3>3. \A i \in DOMAIN queue' :
            \E k \in DOMAIN queue : queue'[i].req = queue[k].req
              /\ queue[k].attempts + UnderWay(phase, job, queue[k].req)
                         <= queue'[i].attempts + UnderWay(phase', job', queue[k].req)
      BY <2>4, <3>2
    <3> QED BY <1>3, <2>1, <3>3, CountedLater
  <2>6. CASE RetryLater
    <3>1. \/ ~StillThere /\ queue' = queue
          \/ /\ StillThere /\ queue' \in Seq(Commands) /\ Len(queue') = Len(queue)
             /\ \A i \in DOMAIN queue :
                  /\ i # n => queue'[i] = queue[i]
                  /\ queue'[i].req = queue[i].req
                  /\ i = n => queue'[i].attempts = job.cmd.attempts + 1
      BY <2>6, RetryCounts
    <3>2. DOMAIN queue' = DOMAIN queue
      BY <1>1, <1>3, <3>1, LenProperties
    <3>3. \A i \in DOMAIN queue' : queue'[i].req = queue[i].req
            /\ (\/ queue[i].req # r /\ queue'[i].attempts = queue[i].attempts
                \/ queue'[i].attempts = queue[i].attempts + 1)
      <4>1. CASE ~StillThere
        BY <2>2, <3>1, <4>1
      <4>2. CASE StillThere
        <5>1. \A j \in DOMAIN queue \ {n} : queue[j].req # r
          BY <2>2, <4>2 DEF QueueShape
        <5> QED BY <2>2, <3>1, <3>2, <4>2, <5>1
      <4> QED BY <4>1, <4>2
    <3>4. \A i \in DOMAIN queue' :
            \E k \in DOMAIN queue : queue'[i].req = queue[k].req
              /\ queue[k].attempts + UnderWay(phase, job, queue[k].req)
                         <= queue'[i].attempts + UnderWay(phase', job', queue[k].req)
      BY <2>4, <3>2, <3>3
    <3> QED BY <1>3, <2>1, <3>4, CountedLater
  <2> QED BY <1>7, <2>5, <2>6
<1>8. ASSUME UNCHANGED <<phase, job, tries, restarts>>, DOMAIN queue' = DOMAIN queue,
             \A i \in DOMAIN queue : queue'[i].req = queue[i].req /\ queue'[i].attempts = queue[i].attempts
      PROVE  Counted'
  <2>1. \A q \in Requests : UnderWay(phase', job', q) = UnderWay(phase, job, q)
    BY <1>8 DEF UnderWay
  <2> QED BY <1>1, <1>8, <2>1 DEF Counted
<1>9. CASE Tick
  <2>1. DOMAIN queue' = DOMAIN queue /\ UNCHANGED <<phase, job, tries, restarts>>
    BY <1>9 DEF Tick, history
  <2>2. \A i \in DOMAIN queue : queue'[i].req = queue[i].req /\ queue'[i].attempts = queue[i].attempts
    BY <1>1, <1>9 DEF Tick, Commands
  <2> QED BY <1>8, <2>1, <2>2
<1>10. ASSUME UNCHANGED <<queue, tries>>, phase' # "deliver",
              (restarts' = restarts /\ phase # "deliver") \/ restarts' = restarts + 1
       PROVE  Counted'
  <2>1. \A q \in Requests : UnderWay(phase', job', q) = 0 /\ restarts + UnderWay(phase, job, q) <= restarts'
    <3>1. \A q \in Requests : UnderWay(phase', job', q) = 0 /\ (phase # "deliver" => UnderWay(phase, job, q) = 0)
      BY <1>10 DEF UnderWay
    <3> QED BY <1>1, <1>2, <1>10, <3>1
  <2>2. ASSUME NEW i \in DOMAIN queue
        PROVE  tries[queue[i].req] <= queue[i].attempts + restarts' + UnderWay(phase', job', queue[i].req)
    <3>1. tries[queue[i].req] <= queue[i].attempts + restarts + UnderWay(phase, job, queue[i].req)
      BY DEF Counted
    <3>2. tries[queue[i].req] \in Nat /\ queue[i].req \in Requests /\ restarts' \in Nat
      BY <1>1, <1>10
    <3> QED BY <1>1, <1>2, <2>1, <3>1, <3>2
  <2> QED BY <1>10, <2>2 DEF Counted
<1>11. CASE AlarmFires \/ DrainNothing \/ Restart
  BY <1>10, <1>11 DEF AlarmFires, DrainNothing, Restart, history
<1>12. CASE SubscriberCounted \/ SubscriberServed \/ LastSubscriberLeaves \/ UNCHANGED vars
  BY <1>8, <1>12 DEF SubscriberCounted, SubscriberServed, LastSubscriberLeaves, vars, history
<1> QED BY <1>4, <1>5, <1>6, <1>7, <1>9, <1>11, <1>12 DEF Next

(***************************************************************************)
(* A command is delivered at most MAX_DELIVERY_ATTEMPTS times, plus once   *)
(* per restart that cuts a delivery short (music-do.js:832-853).           *)
(***************************************************************************)
THEOREM NoEndlessRetry == Spec => []AttemptsBounded
<1>1. Init => Counted
  <2>1. Init => DOMAIN queue = {}
    BY EmptySeq DEF Init
  <2> QED BY <2>1 DEF Init, Counted
<1> QED BY <1>1, QueueInit, QueueNext, CountedNext, CountedBounds, PTL DEF Spec

-----------------------------------------------------------------------------
(***************************************************************************)
(* The demand gate, with handlers that overlap in any way, and evictions.  *)
(* A client is counted in the step that accepts it, and a count leaves out *)
(* only the client whose handler counts: others that are leaving make it   *)
(* too high, never too low.  The alarm is set at the end of every handler  *)
(* that may have raised the count or has taken the alarm, so it can be     *)
(* unset only while one of those awaits an open.                           *)
(***************************************************************************)
\* A handler whose end sets the alarm awaits an open.
WillArm == (\E c \in Clients : accepting[c] = "opening") \/ closing # {} \/ waking

\* The handlers that await an open are one at most.
OneAwaits ==
    /\ \A c, d \in Clients : accepting[c] # "no" /\ accepting[d] # "no" => c = d
    /\ \A c, d \in closing : c = d
    /\ (\E c \in Clients : accepting[c] # "no") => closing = {} /\ ~pinging /\ ~waking
    /\ closing # {} => ~pinging /\ ~waking
    /\ ~pinging \/ ~waking

\* As long as no handler has run while another awaited an open.
Calm ==
    /\ OneAwaits
    /\ counted = Cardinality(sockets \ closing)
    /\ ~orphaned
    /\ Opening => ~tracked /\ loaded /\ counted > 0
    /\ sockets = {} => ~tracked /\ ~armed

GateShape ==
    /\ GateTypeOK
    /\ NobodyUncounted
    /\ counted > 0 => armed \/ WillArm
    /\ ~overlapped => Calm

(* A truth value is one. *)
LEMMA GateBooleans ==
  ASSUME GateTypeOK
  PROVE  /\ armed \in BOOLEAN /\ tracked \in BOOLEAN /\ orphaned \in BOOLEAN /\ pinging \in BOOLEAN
         /\ waking \in BOOLEAN /\ loaded \in BOOLEAN /\ overlapped \in BOOLEAN
  BY DEF GateTypeOK

(* Counting a set of clients, and a part of it. *)
LEMMA Counts ==
  ASSUME NEW S \in SUBSET Clients, NEW T \in SUBSET S
  PROVE  /\ Cardinality(S) \in 0 .. Cardinality(Clients) /\ Cardinality(T) \in Nat
         /\ Cardinality(T) <= Cardinality(S)
         /\ Cardinality(S) > 0 <=> S # {}
<1>1. IsFiniteSet(S) /\ Cardinality(S) <= Cardinality(Clients) /\ Cardinality(Clients) \in Nat
  BY FiniteClients, FS_Subset, FS_CardinalityType
<1>2. IsFiniteSet(T) /\ Cardinality(T) <= Cardinality(S)
  BY <1>1, FS_Subset
<1>3. Cardinality(S) \in Nat /\ Cardinality(T) \in Nat /\ (Cardinality(S) = 0 <=> S = {})
  BY <1>1, <1>2, FS_CardinalityType, FS_EmptySet
<1> QED BY <1>1, <1>2, <1>3

(* The alarm follows the count. *)
LEMMA UpstreamReconciled ==
  ASSUME NEW d, ReconcileUpstream(d)
  PROVE  armed' \in BOOLEAN /\ (d > 0 <=> armed')
<1>1. armed' = (d > 0)
  BY DEF ReconcileUpstream
<1>2. (d > 0) \in BOOLEAN
  OBVIOUS
<1>3. armed' \in BOOLEAN
  BY <1>1, <1>2, Zenon
<1>4. d > 0 <=> armed'
  BY <1>1, Zenon
<1> QED BY <1>3, <1>4

(* What a handler that begins notes. *)
LEMMA Noted ==
  ASSUME GateTypeOK, NoteOverlap
  PROVE  overlapped' \in BOOLEAN /\ (~overlapped' => ~overlapped /\ ~Opening)
<1>1. overlapped \in BOOLEAN /\ Opening \in BOOLEAN
  BY GateBooleans DEF Opening
<1>2. overlapped' = (overlapped \/ Opening)
  BY DEF NoteOverlap
<1> HIDE DEF Opening
<1> QED BY <1>1, <1>2, Zenon

LEMMA GateStart == GateInit => GateShape
<1> SUFFICES ASSUME GateInit PROVE GateShape
  OBVIOUS
<1> USE DEF GateInit
<1>1. sockets \ closing = {} /\ counted = 0 /\ Cardinality({}) = 0 /\ Cardinality(Clients) \in Nat
  BY FS_EmptySet, FiniteClients, FS_CardinalityType
<1>2. GateTypeOK
  <2>1. counted \in 0 .. Cardinality(Clients)
    BY <1>1
  <2>2. accepting \in [Clients -> {"no", "opening", "reopening"}]
    OBVIOUS
  <2> QED BY <2>1, <2>2 DEF GateTypeOK
<1>3. NobodyUncounted /\ ~(counted > 0)
  BY <1>1 DEF NobodyUncounted
<1>4. ~Opening
  BY DEF Opening
<1>5. Calm
  BY <1>1, <1>4 DEF Calm, OneAwaits
<1> QED BY <1>2, <1>3, <1>5 DEF GateShape

(* A client that comes is counted, with whoever else is there. *)
LEMMA ConnectKeeps == ASSUME GateShape, NEW c \in Clients, Connect(c) PROVE GateShape'
<1> USE DEF GateShape
<1>1. /\ sockets' = sockets \cup {c} /\ counted' = Cardinality(sockets')
      /\ UNCHANGED <<tracked, orphaned, closing, pinging, waking, loaded>> /\ NoteOverlap /\ loaded
      /\ accepting[c] = "no"
  BY DEF Connect, upstream
<1>2. /\ sockets \subseteq Clients /\ closing \subseteq Clients
      /\ accepting \in [Clients -> {"no", "opening", "reopening"}]
      /\ armed \in BOOLEAN
  BY GateBooleans DEF GateTypeOK
<1>3. /\ counted' \in 0 .. Cardinality(Clients) /\ NobodyUncounted' /\ counted' > 0
  <2>1. sockets' \in SUBSET Clients /\ sockets' \ closing' \in SUBSET sockets' /\ sockets' # {}
    BY <1>1, <1>2
  <2>2. Cardinality(sockets' \ closing') <= Cardinality(sockets')
    BY <2>1, Counts
  <2> QED BY <1>1, <2>1, <2>2, Counts DEF NobodyUncounted
<1>4. \/ tracked /\ armed' \in BOOLEAN /\ armed' /\ accepting' = accepting
      \/ ~tracked /\ armed' = armed /\ accepting' = [accepting EXCEPT ![c] = "opening"]
  <2>1. CASE tracked
    <3>1. ReconcileUpstream(counted') /\ accepting' = accepting
      BY <2>1 DEF Connect
    <3> QED BY <1>3, <2>1, <3>1, UpstreamReconciled
  <2>2. CASE ~tracked
    BY <2>2 DEF Connect
  <2> QED BY <2>1, <2>2
<1>5. accepting' \in [Clients -> {"no", "opening", "reopening"}] /\ armed' \in BOOLEAN
  BY <1>2, <1>4
<1>6. overlapped' \in BOOLEAN /\ (~overlapped' => ~overlapped /\ ~Opening)
  BY <1>1, Noted
<1>7. GateTypeOK'
  BY <1>1, <1>2, <1>3, <1>5, <1>6, GateBooleans DEF GateTypeOK
<1>8. armed' \/ WillArm'
  <2>1. CASE tracked
    BY <1>4, <2>1
  <2>2. CASE ~tracked
    <3>1. accepting'[c] = "opening"
      BY <1>2, <1>4, <2>2
    <3> QED BY <3>1 DEF WillArm
  <2> QED BY <2>1, <2>2
<1>9. ASSUME ~overlapped' PROVE Calm'
  <2>1. Calm /\ ~Opening
    BY <1>6, <1>9
  <2>2. closing = {} /\ ~pinging /\ ~waking /\ \A d \in Clients : accepting[d] = "no"
    BY <2>1 DEF Opening
  <2>3. \A d \in Clients : accepting'[d] # "no" => d = c /\ ~tracked
    BY <1>2, <1>4, <2>2
  <2>4. OneAwaits'
    BY <1>1, <2>2, <2>3 DEF OneAwaits
  <2>5. Opening' => ~tracked
    BY <1>1, <2>2, <2>3 DEF Opening
  <2>6. sockets' \ closing' = sockets' /\ sockets' # {}
    BY <1>1, <2>2
  <2> QED BY <1>1, <1>3, <2>1, <2>4, <2>5, <2>6 DEF Calm
<1> QED BY <1>3, <1>7, <1>8, <1>9

(* One that leaves is left out of the count it makes. *)
LEMMA CloseKeeps == ASSUME GateShape, NEW c \in Clients, Close(c) PROVE GateShape'
<1> USE DEF GateShape
<1>1. /\ sockets \subseteq Clients /\ closing \subseteq Clients
      /\ accepting \in [Clients -> {"no", "opening", "reopening"}]
      /\ overlapped' \in BOOLEAN /\ (~overlapped' => ~overlapped /\ ~Opening)
      /\ loaded' = loaded /\ loaded /\ c \in sockets /\ c \notin closing
  BY Noted DEF GateTypeOK, Close, LastCloses, OneOfManyCloses
<1>2. CASE LastCloses(c)
  <2>1. /\ sockets' = {} /\ counted' = 0 /\ armed' \in BOOLEAN /\ ~armed' /\ tracked' = FALSE
        /\ UNCHANGED <<orphaned, accepting, closing, pinging, waking>>
    BY <1>2, UpstreamReconciled DEF LastCloses, handlers, CloseUpstream
  <2>2. sockets' \ closing' = {} /\ Cardinality({}) = 0
    BY <2>1, FS_EmptySet
  <2>3. NobodyUncounted' /\ ~(counted' > 0) /\ counted' \in 0 .. Cardinality(Clients)
    BY <2>1, <2>2, FiniteClients, FS_CardinalityType DEF NobodyUncounted
  <2>4. GateTypeOK'
    BY <1>1, <2>1, <2>3, GateBooleans DEF GateTypeOK
  <2>5. ASSUME ~overlapped' PROVE Calm'
    <3>1. Calm /\ ~Opening
      BY <1>1, <2>5
    <3>2. OneAwaits' /\ ~Opening'
      BY <2>1, <3>1 DEF Calm, OneAwaits, Opening
    <3> QED BY <2>1, <2>2, <3>1, <3>2 DEF Calm
  <2> QED BY <2>3, <2>4, <2>5
<1>3. CASE OneOfManyCloses(c)
  <2>1. /\ counted' = Cardinality(sockets \ {c}) /\ sockets # {c}
        /\ UNCHANGED <<tracked, orphaned, accepting, pinging, waking>>
        /\ \/ /\ tracked /\ armed' \in BOOLEAN /\ (counted' > 0 => armed')
              /\ sockets' = sockets \ {c} /\ closing' = closing
           \/ ~tracked /\ closing' = closing \cup {c} /\ UNCHANGED <<sockets, armed>>
    BY <1>3, UpstreamReconciled DEF OneOfManyCloses, upstream
  <2>2. sockets' \ closing' \subseteq sockets \ {c} /\ sockets \ {c} \in SUBSET Clients
    BY <1>1, <2>1
  <2>3. /\ counted' \in 0 .. Cardinality(Clients) /\ NobodyUncounted'
        /\ counted' > 0
    BY <1>1, <2>1, <2>2, Counts DEF NobodyUncounted
  <2>4. GateTypeOK'
    BY <1>1, <2>1, <2>3, GateBooleans DEF GateTypeOK
  <2>5. armed' \/ WillArm'
    BY <2>1, <2>3 DEF WillArm
  <2>6. ASSUME ~overlapped' PROVE Calm'
    <3>1. Calm /\ ~Opening
      BY <1>1, <2>6
    <3>2. closing = {} /\ ~pinging /\ ~waking /\ \A d \in Clients : accepting[d] = "no"
      BY <3>1 DEF Opening
    <3>3. OneAwaits'
      BY <2>1, <3>2 DEF OneAwaits
    <3>4. Opening' => ~tracked
      BY <2>1, <3>2 DEF Opening
    <3>5. sockets' \ closing' = sockets \ {c} /\ sockets' # {}
      BY <1>1, <2>1, <3>2
    <3> QED BY <1>1, <2>1, <2>3, <3>1, <3>3, <3>4, <3>5 DEF Calm
  <2> QED BY <2>3, <2>4, <2>5, <2>6
<1> QED BY <1>2, <1>3 DEF Close

(* Whoever has awaited an open sets the alarm by the count. *)
LEMMA OpenedTracks ==
  ASSUME GateTypeOK, NEW ok \in BOOLEAN, OpenUpstream(ok)
  PROVE  /\ tracked' = ok /\ tracked' \in BOOLEAN /\ orphaned' \in BOOLEAN
         /\ ~tracked /\ ~orphaned => ~orphaned'
<1>1. tracked \in BOOLEAN /\ orphaned \in BOOLEAN
  BY GateBooleans
<1>2. orphaned' = (orphaned \/ tracked) /\ tracked' = ok
  BY DEF OpenUpstream
<1> QED BY <1>1, <1>2, Zenon

LEMMA OpenedKeeps == ASSUME GateShape, NEW ok \in BOOLEAN, Opened(ok) PROVE GateShape'
<1> USE DEF GateShape
<1>1. /\ sockets \subseteq Clients /\ closing \subseteq Clients
      /\ accepting \in [Clients -> {"no", "opening", "reopening"}]
      /\ counted \in 0 .. Cardinality(Clients)
      /\ tracked' = ok /\ tracked' \in BOOLEAN /\ orphaned' \in BOOLEAN
      /\ ~tracked /\ ~orphaned => ~orphaned'
      /\ UNCHANGED <<counted, loaded, overlapped>> /\ Opening
  BY OpenedTracks DEF GateTypeOK, Opened, ConnectOpened, ConnectReopened, CloseOpened, PingOpened,
                      WakeOpened, storage, Opening
<1>2. ASSUME ~overlapped' PROVE Calm /\ ~tracked /\ loaded /\ counted > 0 /\ ~orphaned' /\ OneAwaits
                                /\ sockets \ closing # {}
  <2>1. Calm
    BY <1>1, <1>2
  <2>2. ~tracked /\ loaded /\ counted > 0 /\ counted = Cardinality(sockets \ closing)
    BY <1>1, <2>1 DEF Calm
  <2>3. sockets \ closing # {}
    BY <1>1, <2>2, Counts
  <2> QED BY <1>1, <2>1, <2>2, <2>3 DEF Calm
\* What remains to be shown of each.
<1>3. ASSUME sockets' \subseteq Clients, closing' \subseteq closing, armed' \in BOOLEAN,
             accepting' \in [Clients -> {"no", "opening", "reopening"}],
             pinging' \in {FALSE, pinging}, waking' \in {FALSE, waking},
             sockets' \ closing' = sockets \ closing,
             counted > 0 => armed' \/ WillArm',
             ~overlapped /\ OneAwaits => OneAwaits' /\ (ok => ~Opening')
      PROVE  GateShape'
  <2>1. GateTypeOK'
    BY <1>1, <1>3, GateBooleans DEF GateTypeOK
  <2>2. NobodyUncounted'
    BY <1>1, <1>3 DEF NobodyUncounted
  <2>3. ASSUME ~overlapped' PROVE Calm'
    <3>1. sockets' # {}
      BY <1>2, <1>3, <2>3
    <3>2. counted' = Cardinality(sockets' \ closing')
      BY <1>1, <1>2, <1>3, <2>3 DEF Calm
    <3> QED BY <1>1, <1>2, <1>3, <2>3, <3>1, <3>2 DEF Calm
  <2> QED BY <1>1, <1>3, <2>1, <2>2, <2>3
<1>4. ASSUME NEW c \in Clients, ConnectOpened(c, ok) PROVE GateShape'
  <2>1. /\ armed' \in BOOLEAN /\ (counted > 0 => armed')
        /\ UNCHANGED <<sockets, closing, pinging, waking>> /\ accepting[c] # "no"
        /\ accepting' = [accepting EXCEPT ![c] = IF ok THEN "no" ELSE "reopening"]
    BY <1>4, UpstreamReconciled DEF ConnectOpened
  <2>2. /\ accepting' \in [Clients -> {"no", "opening", "reopening"}]
        /\ \A d \in Clients : accepting'[d] # "no" => accepting[d] # "no" /\ (d = c => ~ok)
    BY <1>1, <2>1
  <2>3. OneAwaits => OneAwaits' /\ (ok => ~Opening')
    BY <2>1, <2>2 DEF OneAwaits, Opening
  <2> QED BY <1>1, <1>3, <2>1, <2>2, <2>3
<1>5. ASSUME NEW c \in Clients, ConnectReopened(c, ok) PROVE GateShape'
  <2>1. /\ accepting[c] = "reopening" /\ accepting' = [accepting EXCEPT ![c] = "no"]
        /\ UNCHANGED <<sockets, armed, closing, pinging, waking>>
    BY <1>5 DEF ConnectReopened, storage
  <2>2. accepting' \in [Clients -> {"no", "opening", "reopening"}] /\ armed' \in BOOLEAN
        /\ \A d \in Clients : accepting'[d] # "no" => accepting[d] # "no" /\ d # c
    BY <1>1, <2>1, GateBooleans
  <2>3. WillArm => WillArm'
    BY <1>1, <2>1 DEF WillArm
  <2>4. OneAwaits => OneAwaits' /\ ~Opening'
    BY <2>1, <2>2 DEF OneAwaits, Opening
  <2> QED BY <1>1, <1>3, <2>1, <2>2, <2>3, <2>4
<1>6. ASSUME NEW c \in Clients, CloseOpened(c, ok) PROVE GateShape'
  <2>1. /\ c \in closing /\ sockets' = sockets \ {c} /\ closing' = closing \ {c}
        /\ armed' \in BOOLEAN /\ (counted > 0 => armed') /\ UNCHANGED <<accepting, pinging, waking>>
    BY <1>6, UpstreamReconciled DEF CloseOpened
  <2>2. sockets' \ closing' = sockets \ closing
    BY <2>1
  <2>3. OneAwaits => OneAwaits' /\ ~Opening'
    BY <2>1 DEF OneAwaits, Opening
  <2> QED BY <1>1, <1>3, <2>1, <2>2, <2>3
<1>7. CASE PingOpened(ok)
  <2>1. pinging /\ pinging' = FALSE /\ UNCHANGED <<sockets, armed, accepting, closing, waking>>
    BY <1>7 DEF PingOpened, storage
  <2>2. OneAwaits => OneAwaits' /\ ~Opening'
    BY <2>1 DEF OneAwaits, Opening
  <2>3. (WillArm => WillArm') /\ armed' \in BOOLEAN
    BY <2>1, GateBooleans DEF WillArm
  <2> QED BY <1>1, <1>3, <2>1, <2>2, <2>3
<1>8. CASE WakeOpened(ok)
  <2>1. /\ armed' \in BOOLEAN /\ (counted > 0 => armed') /\ waking /\ waking' = FALSE
        /\ UNCHANGED <<sockets, accepting, closing, pinging>>
    BY <1>8, UpstreamReconciled DEF WakeOpened
  <2>2. OneAwaits => OneAwaits' /\ ~Opening'
    BY <2>1 DEF OneAwaits, Opening
  <2> QED BY <1>1, <1>3, <2>1, <2>2
<1> QED BY <1>4, <1>5, <1>6, <1>7, <1>8 DEF Opened

(* The alarm, and the traffic of a subscriber. *)
LEMMA WakeKeeps == ASSUME GateShape, Wake PROVE GateShape'
<1> USE DEF GateShape
<1>1. /\ armed' = (counted > 0 /\ tracked) /\ loaded /\ ~waking
      /\ UNCHANGED <<sockets, counted, accepting, closing, pinging, loaded>>
      /\ \/ counted > 0 /\ waking' = ~tracked /\ UNCHANGED <<tracked, orphaned>>
         \/ ~(counted > 0) /\ tracked' = FALSE /\ UNCHANGED <<orphaned, waking>>
  BY DEF Wake, CloseUpstream, upstream
<1>2. overlapped' \in BOOLEAN /\ (~overlapped' => ~overlapped /\ ~Opening)
  BY Noted DEF Wake
<1>3. armed' \in BOOLEAN /\ waking' \in BOOLEAN /\ tracked' \in BOOLEAN /\ orphaned' \in BOOLEAN
  BY <1>1, GateBooleans
<1>4. GateTypeOK'
  BY <1>1, <1>2, <1>3, GateBooleans DEF GateTypeOK
<1>5. NobodyUncounted' /\ (counted' > 0 => armed' \/ WillArm')
  BY <1>1 DEF NobodyUncounted, WillArm
<1>6. ASSUME ~overlapped' PROVE Calm'
  <2>1. Calm /\ ~Opening
    BY <1>2, <1>6
  <2>2. closing = {} /\ ~pinging /\ ~waking /\ \A d \in Clients : accepting[d] = "no"
    BY <2>1 DEF Opening
  <2>3. OneAwaits'
    BY <1>1, <2>2 DEF OneAwaits
  <2>4. Opening' => ~tracked' /\ loaded' /\ counted' > 0
    BY <1>1, <2>2 DEF Opening
  <2>5. sockets' = {} => ~tracked' /\ ~armed'
    BY <1>1, <2>1 DEF Calm
  <2> QED BY <1>1, <2>1, <2>3, <2>4, <2>5 DEF Calm
<1> QED BY <1>4, <1>5, <1>6

LEMMA PingKeeps == ASSUME GateShape, Ping PROVE GateShape'
<1> USE DEF GateShape
<1>1. /\ loaded /\ ~tracked /\ pinging' = TRUE /\ sockets \ closing # {}
      /\ UNCHANGED <<sockets, counted, armed, tracked, orphaned, accepting, closing, waking, loaded>>
  BY DEF Ping, storage, upstream
<1>2. overlapped' \in BOOLEAN /\ (~overlapped' => ~overlapped /\ ~Opening)
  BY Noted DEF Ping
<1>3. GateTypeOK'
  BY <1>1, <1>2, GateBooleans DEF GateTypeOK
<1>4. NobodyUncounted' /\ (counted' > 0 => armed' \/ WillArm')
  BY <1>1 DEF NobodyUncounted, WillArm
<1>5. ASSUME ~overlapped' PROVE Calm'
  <2>1. Calm /\ ~Opening
    BY <1>2, <1>5
  <2>2. closing = {} /\ ~pinging /\ ~waking /\ \A d \in Clients : accepting[d] = "no"
    BY <2>1 DEF Opening
  <2>3. OneAwaits'
    BY <1>1, <2>2 DEF OneAwaits
  <2>4. counted > 0
    <3>1. counted = Cardinality(sockets \ closing) /\ sockets \ closing \in SUBSET Clients
      BY <2>1 DEF Calm, GateTypeOK
    <3> QED BY <1>1, <3>1, Counts
  <2> QED BY <1>1, <2>1, <2>3, <2>4 DEF Calm
<1> QED BY <1>3, <1>4, <1>5

LEMMA GateStep == ASSUME GateShape, [GateNext]_gateVars PROVE GateShape'
<1> USE DEF GateShape
<1>1. ASSUME NEW c \in Clients, Detach(c) PROVE GateShape'
  <2>1. /\ c \in closing /\ sockets' = sockets \ {c}
        /\ UNCHANGED <<counted, armed, tracked, orphaned, handlers, loaded, overlapped>>
    BY <1>1 DEF Detach, upstream
  <2>2. sockets' \ closing' = sockets \ closing
    BY <2>1 DEF handlers
  <2>3. GateTypeOK'
    BY <2>1 DEF GateTypeOK, handlers
  <2>4. ASSUME ~overlapped PROVE Calm'
    <3>1. Calm /\ Opening /\ Opening'
      BY <2>1, <2>4 DEF Opening, handlers
    <3>2. counted > 0 /\ counted = Cardinality(sockets \ closing) /\ sockets \ closing \in SUBSET Clients
      BY <3>1 DEF Calm, GateTypeOK
    <3>3. sockets' # {}
      BY <2>2, <3>2, Counts
    <3>4. OneAwaits'
      BY <2>1, <3>1 DEF Calm, OneAwaits, handlers
    <3> QED BY <2>1, <2>2, <3>1, <3>3, <3>4 DEF Calm
  <2> QED BY <2>1, <2>2, <2>3, <2>4 DEF NobodyUncounted, WillArm, handlers
<1>2. CASE Construct
  <2>1. /\ armed' = (armed \/ counted > 0) /\ ~loaded /\ loaded' = TRUE /\ tracked' \in {FALSE, counted > 0}
        /\ UNCHANGED <<sockets, counted, orphaned, handlers, overlapped>>
    BY <1>2 DEF Construct
  <2>2. armed' \in BOOLEAN /\ tracked' \in BOOLEAN /\ (counted > 0 => armed') /\ (counted = 0 => armed' = armed /\ ~tracked')
    <3>1. (counted > 0) \in BOOLEAN /\ (counted = 0 => ~(counted > 0)) /\ armed \in BOOLEAN
      BY GateBooleans
    <3> QED BY <2>1, <3>1, Zenon
  <2>3. GateTypeOK'
    BY <2>1, <2>2, GateBooleans DEF GateTypeOK, handlers
  <2>4. ASSUME ~overlapped PROVE Calm'
    <3>1. Calm /\ ~Opening /\ ~Opening'
      BY <2>1, <2>4 DEF Calm, Opening, handlers
    <3>2. OneAwaits'
      BY <2>1, <3>1 DEF Calm, OneAwaits, handlers
    <3>3. sockets = {} => counted = 0
      <4>1. sockets = {} => sockets \ closing = {}
        OBVIOUS
      <4> QED BY <3>1, <4>1, FS_EmptySet DEF Calm
    <3> QED BY <2>1, <2>2, <3>1, <3>2, <3>3 DEF Calm, handlers
  <2> QED BY <2>1, <2>2, <2>3, <2>4 DEF NobodyUncounted, WillArm, handlers
<1>3. ASSUME UNCHANGED <<sockets, counted, armed, handlers, overlapped>>, loaded' \in BOOLEAN,
             tracked' \in BOOLEAN, tracked' => tracked, orphaned' \in BOOLEAN, orphaned' => orphaned,
             loaded' = loaded \/ ~Opening
      PROVE  GateShape'
  <2>1. GateTypeOK'
    BY <1>3, GateBooleans DEF GateTypeOK, handlers
  <2>2. (Opening' <=> Opening) /\ (OneAwaits => OneAwaits') /\ (WillArm => WillArm')
    BY <1>3 DEF Opening, OneAwaits, WillArm, handlers
  <2>3. NobodyUncounted' /\ (counted' > 0 => armed' \/ WillArm')
    BY <1>3, <2>2 DEF NobodyUncounted, handlers
  <2>4. ASSUME ~overlapped' PROVE Calm'
    <3>1. Calm
      BY <1>3, <2>4
    <3>2. ~orphaned' /\ (~tracked => ~tracked')
      BY <1>3, <3>1 DEF Calm
    <3>3. Opening' => ~tracked' /\ loaded' /\ counted' > 0
      BY <1>3, <2>2, <3>1, <3>2 DEF Calm
    <3> QED BY <1>3, <2>2, <3>1, <3>2, <3>3 DEF Calm, handlers
  <2> QED BY <2>1, <2>3, <2>4
<1>4. CASE \/ Evict \/ UNCHANGED gateVars
           \/ UpstreamDrops /\ UNCHANGED <<storage, orphaned, handlers, loaded, overlapped>>
           \/ OrphanDrops /\ UNCHANGED <<storage, tracked, handlers, loaded, overlapped>>
  <2>1. tracked' = tracked \/ tracked' = FALSE
    BY <1>4 DEF Evict, UpstreamDrops, OrphanDrops, gateVars, upstream
  <2>2. orphaned' = orphaned \/ orphaned' = FALSE
    BY <1>4 DEF Evict, UpstreamDrops, OrphanDrops, gateVars, upstream
  <2>3. tracked' \in BOOLEAN /\ (tracked' => tracked)
    <3>1. CASE tracked' = tracked
      BY <3>1, GateBooleans, Zenon
    <3>2. CASE tracked' = FALSE
      BY <3>2
    <3> QED BY <2>1, <3>1, <3>2
  <2>4. orphaned' \in BOOLEAN /\ (orphaned' => orphaned)
    <3>1. CASE orphaned' = orphaned
      BY <3>1, GateBooleans, Zenon
    <3>2. CASE orphaned' = FALSE
      BY <3>2
    <3> QED BY <2>2, <3>1, <3>2
  <2>5. UNCHANGED <<sockets, counted, armed, handlers, overlapped>>
    BY <1>4 DEF Evict, UpstreamDrops, OrphanDrops, gateVars, storage
  <2>6. loaded' \in BOOLEAN /\ (loaded' = loaded \/ ~Opening)
    BY <1>4, GateBooleans DEF Evict, UpstreamDrops, OrphanDrops, gateVars
  <2> QED BY <1>3, <2>3, <2>4, <2>5, <2>6
<1> QED BY <1>1, <1>2, <1>4, ConnectKeeps, CloseKeeps, OpenedKeeps, WakeKeeps, PingKeeps DEF GateNext

LEMMA GateCounts == ASSUME GateShape PROVE DemandCounted
<1>1. ~Opening => ~WillArm
  BY DEF Opening, WillArm
<1>2. ASSUME sockets = {}, ~Opening, ~overlapped PROVE counted = 0 /\ ~tracked /\ ~orphaned /\ ~armed
  <2>1. Calm /\ sockets \ closing = {}
    BY <1>2 DEF GateShape
  <2> QED BY <1>2, <2>1, FS_EmptySet DEF Calm
<1> QED BY <1>1, <1>2 DEF GateShape, DemandCounted, ArmedWhileWanted, AtRestWhenLeft

THEOREM GateTyped == GateSpec => []GateTypeOK
<1>1. GateShape => GateTypeOK
  BY DEF GateShape
<1> QED BY <1>1, GateStart, GateStep, PTL DEF GateSpec

(***************************************************************************)
(* The count in storage never misses a client that stays; while anyone is  *)
(* counted and no handler awaits, the alarm is armed, also after an        *)
(* eviction; and an object whose handlers never overlapped is at rest when *)
(* its last client has left (music-do.js:33-38, 354-367, 393-407).         *)
(***************************************************************************)
THEOREM GateHolds == GateSpec => []DemandCounted
  BY GateStart, GateStep, GateCounts, PTL DEF GateSpec

-----------------------------------------------------------------------------
(***************************************************************************)
(* The commands delivered at once.  A delivery is never younger than its   *)
(* category's cooldown says, up to its timeout.  The presses sent within   *)
(* the window are those that prev's bucket keeps, in order, and from the   *)
(* bucket's limit on they lie MIN_SPACING apart.                           *)
(***************************************************************************)
DeliveriesAge ==
    \A k \in Throttled : \A i \in DOMAIN delivering[k] :
        delivering[k][i] >= lastExec[k] \/ delivering[k][i] >= DeliverTimeout

Dropped == Len(prevTimes) - Len(sent)

Bucket ==
    /\ \A i \in 1 .. Dropped : prevTimes[i] >= BurstWindow
    /\ \A i \in 1 .. Len(sent) : sent[i] = prevTimes[Dropped + i]
    /\ \A i, j \in 1 .. Len(sent) : i <= j => sent[j] <= sent[i]
    /\ \A i, j \in 1 .. Len(sent) : BurstLimit <= i /\ i <= j => sent[j] + (j - i) * MinSpacing <= sent[i]
    /\ taps # <<>> /\ Last(taps) < MinSpacing =>
         sent # <<>> /\ Last(sent) < Last(taps) + MinSpacing

TransportShape == TransportTypeOK /\ DeliveriesAge /\ NoOvertaking /\ Bucket /\ FastDoubleTapReaches

LEMMA TransportBounds ==
  /\ ThrottleTime \in Nat /\ DeliverTimeout \in Nat /\ BurstLimit \in Nat /\ BurstWindow \in Nat
  /\ MinSpacing \in Nat /\ 0 < ThrottleTime /\ 0 < DeliverTimeout /\ 0 < BurstWindow /\ 0 < MinSpacing
  /\ DeliverTimeout <= ThrottleTime /\ 2 <= BurstLimit /\ 2 * MinSpacing <= BurstWindow
  BY TransportConstants

(* The window cuts a sequence in one place only. *)
LEMMA BeyondIs ==
  ASSUME NEW s \in Seq(Nat), NEW m \in 0 .. Len(s),
         \A i \in 1 .. m : s[i] >= BurstWindow,
         \A i \in m + 1 .. Len(s) : s[i] < BurstWindow
  PROVE  Beyond(s) = m
<1>1. Len(s) \in Nat /\ \A i \in 1 .. Len(s) : s[i] \in Nat
  BY LenProperties, ElementOfSeq
<1> DEFINE Cut(n) == /\ \A i \in 1 .. n : s[i] >= BurstWindow
                     /\ \A i \in n + 1 .. Len(s) : s[i] < BurstWindow
<1>2. ASSUME NEW n \in 0 .. Len(s), Cut(n) PROVE n = m
  <2>1. CASE n < m
    <3>1. n + 1 \in 1 .. m /\ n + 1 \in n + 1 .. Len(s) /\ n + 1 \in 1 .. Len(s)
      BY <1>1, <2>1
    <3>2. s[n + 1] >= BurstWindow /\ s[n + 1] < BurstWindow /\ s[n + 1] \in Nat
      BY <1>1, <1>2, <3>1
    <3> QED BY <3>2, TransportBounds
  <2>2. CASE m < n
    <3>1. m + 1 \in 1 .. n /\ m + 1 \in m + 1 .. Len(s) /\ m + 1 \in 1 .. Len(s)
      BY <1>1, <2>2
    <3>2. s[m + 1] >= BurstWindow /\ s[m + 1] < BurstWindow /\ s[m + 1] \in Nat
      BY <1>1, <1>2, <3>1
    <3> QED BY <3>2, TransportBounds
  <2> QED BY <1>1, <2>1, <2>2
<1>3. Cut(m)
  OBVIOUS
<1>4. Beyond(s) = CHOOSE n \in 0 .. Len(s) : Cut(n)
  BY DEF Beyond
<1> HIDE DEF Cut
<1> QED BY <1>2, <1>3, <1>4

(* Of ages in order, those beyond the window are the first ones. *)
LEMMA WithinIs ==
  ASSUME NEW S, S \subseteq Nat, NEW s \in Seq(S), \A i, j \in 1 .. Len(s) : i <= j => s[j] <= s[i]
  PROVE  /\ Beyond(s) \in 0 .. Len(s)
         /\ \A i \in 1 .. Beyond(s) : s[i] >= BurstWindow
         /\ Within(s) \in Seq(S) /\ Len(Within(s)) = Len(s) - Beyond(s)
         /\ \A i \in 1 .. Len(s) - Beyond(s) : Within(s)[i] = s[Beyond(s) + i] /\ Within(s)[i] < BurstWindow
<1>1. Len(s) \in Nat /\ s \in Seq(Nat) /\ \A i \in 1 .. Len(s) : s[i] \in S /\ s[i] \in Nat
  <2>1. Len(s) \in Nat /\ DOMAIN s = 1 .. Len(s) /\ \A i \in 1 .. Len(s) : s[i] \in S
    BY LenProperties, ElementOfSeq
  <2>2. s \in [1 .. Len(s) -> Nat]
    BY <2>1, LenProperties
  <2> QED BY <2>1, <2>2, SeqDef
<1> DEFINE In == {i \in 1 .. Len(s) : s[i] < BurstWindow}
<1>2. \E m \in 0 .. Len(s) : /\ \A i \in 1 .. m : s[i] >= BurstWindow
                             /\ \A i \in m + 1 .. Len(s) : s[i] < BurstWindow
  <2>1. CASE In = {}
    <3>1. \A i \in 1 .. Len(s) : s[i] >= BurstWindow
      BY <1>1, <2>1, TransportBounds
    <3> WITNESS Len(s) \in 0 .. Len(s)
    <3> QED BY <1>1, <3>1
  <2>2. CASE In # {}
    <3>1. PICK f \in In : \A i \in In : f <= i
      <4>1. In \subseteq Nat
        BY <1>1
      <4> HIDE DEF In
      <4> QED BY <2>2, <4>1, FirstExists
    <3>2. \A i \in 1 .. f - 1 : s[i] >= BurstWindow
      BY <1>1, <3>1, TransportBounds
    <3>3. \A i \in f - 1 + 1 .. Len(s) : s[i] < BurstWindow
      <4>1. ASSUME NEW i \in f .. Len(s) PROVE s[i] < BurstWindow
        <5>1. s[i] <= s[f] /\ s[f] < BurstWindow /\ s[i] \in Nat /\ s[f] \in Nat
          BY <1>1, <3>1
        <5> QED BY <5>1, TransportBounds
      <4>2. f - 1 + 1 = f
        BY <3>1
      <4> QED BY <4>1, <4>2
    <3>4. f - 1 \in 0 .. Len(s)
      BY <1>1, <3>1
    <3> QED BY <3>2, <3>3, <3>4
  <2> QED BY <2>1, <2>2
<1>3. PICK m \in 0 .. Len(s) : /\ \A i \in 1 .. m : s[i] >= BurstWindow
                               /\ \A i \in m + 1 .. Len(s) : s[i] < BurstWindow
  BY <1>2
<1>4. Beyond(s) = m
  BY <1>1, <1>3, BeyondIs
<1>5. /\ SubSeq(s, m + 1, Len(s)) \in Seq(S) /\ Len(SubSeq(s, m + 1, Len(s))) = Len(s) - m
      /\ \A i \in 1 .. Len(s) - m : SubSeq(s, m + 1, Len(s))[i] = s[m + i]
  <2>1. CASE m = Len(s)
    <3>1. SubSeq(s, m + 1, Len(s)) = <<>>
      BY <1>1, <2>1, SubSeqProperties, EmptySeq
    <3> QED BY <1>1, <2>1, <3>1, EmptySeq
  <2>2. CASE m < Len(s)
    BY <1>1, <1>3, <2>2, SubSeqProperties
  <2> QED BY <1>1, <2>1, <2>2
<1>6. \A i \in 1 .. Len(s) - m : m + i \in m + 1 .. Len(s)
  BY <1>1
<1> QED BY <1>3, <1>4, <1>5, <1>6 DEF Within

(* A sequence of ages a tick later. *)
LEMMA OlderIs ==
  ASSUME NEW w \in Nat, NEW s \in Seq(0 .. w)
  PROVE  /\ Older(s, w) \in Seq(0 .. w) /\ Len(Older(s, w)) = Len(s)
         /\ DOMAIN Older(s, w) = DOMAIN s
         /\ \A i \in 1 .. Len(s) : Older(s, w)[i] = IF s[i] < w THEN s[i] + 1 ELSE w
<1>1. Len(s) \in Nat /\ DOMAIN s = 1 .. Len(s) /\ \A i \in 1 .. Len(s) : s[i] \in 0 .. w
  BY LenProperties, ElementOfSeq
<1>2. Older(s, w) \in [DOMAIN s -> 0 .. w]
  <2>1. \A i \in DOMAIN s : (IF s[i] < w THEN s[i] + 1 ELSE w) \in 0 .. w
    BY <1>1
  <2> QED BY <2>1 DEF Older
<1>3. Older(s, w) \in Seq(0 .. w) /\ Len(Older(s, w)) = Len(s)
  BY <1>2, Mapped
<1>4. \A i \in DOMAIN s : Older(s, w)[i] = IF s[i] < w THEN s[i] + 1 ELSE w
  BY DEF Older
<1> QED BY <1>1, <1>2, <1>3, <1>4

LEMMA TransportFacts ==
  ASSUME TransportShape
  PROVE  /\ prevTimes \in Seq(0 .. BurstWindow) /\ Len(prevTimes) \in Nat
         /\ \A i \in 1 .. Len(prevTimes) : prevTimes[i] \in 0 .. BurstWindow
         /\ sent \in Seq(0 .. BurstWindow - 1) /\ Len(sent) \in Nat
         /\ \A i \in 1 .. Len(sent) : sent[i] \in 0 .. BurstWindow - 1
         /\ taps \in Seq(0 .. BurstWindow) /\ Len(taps) \in Nat /\ Len(taps) <= 2
         /\ \A i \in 1 .. Len(taps) : taps[i] \in 0 .. BurstWindow
         /\ Dropped \in Nat /\ Len(sent) + Dropped = Len(prevTimes)
<1>1. /\ prevTimes \in Seq(0 .. BurstWindow) /\ sent \in Seq(0 .. BurstWindow - 1)
      /\ taps \in Seq(0 .. BurstWindow) /\ Len(taps) <= 2 /\ Len(sent) <= Len(prevTimes)
  BY DEF TransportShape, TransportTypeOK
<1>2. /\ Len(prevTimes) \in Nat /\ Len(sent) \in Nat /\ Len(taps) \in Nat
      /\ \A i \in 1 .. Len(prevTimes) : prevTimes[i] \in 0 .. BurstWindow
      /\ \A i \in 1 .. Len(sent) : sent[i] \in 0 .. BurstWindow - 1
      /\ \A i \in 1 .. Len(taps) : taps[i] \in 0 .. BurstWindow
  BY <1>1, LenProperties, ElementOfSeq
<1> QED BY <1>1, <1>2 DEF Dropped

(* What went to the dashboard within the window is what the bucket keeps. *)
LEMMA SentIsWithin == ASSUME TransportShape PROVE Within(prevTimes) = sent
<1>1. prevTimes \in Seq(Nat)
  <2>1. prevTimes \in [1 .. Len(prevTimes) -> Nat]
    BY TransportFacts, LenProperties
  <2> QED BY <2>1, TransportFacts, SeqDef
<1>2. \A i \in 1 .. Dropped : prevTimes[i] >= BurstWindow
  BY DEF TransportShape, Bucket
<1>3. \A i \in 1 .. Len(sent) : sent[i] = prevTimes[Dropped + i]
  BY DEF TransportShape, Bucket
<1>4. \A i \in Dropped + 1 .. Len(prevTimes) : prevTimes[i] < BurstWindow
  <2> SUFFICES ASSUME NEW i \in Dropped + 1 .. Len(prevTimes) PROVE prevTimes[i] < BurstWindow
    OBVIOUS
  <2>1. i - Dropped \in 1 .. Len(sent) /\ Dropped + (i - Dropped) = i
    BY TransportFacts
  <2>2. prevTimes[i] = sent[i - Dropped]
    BY <1>3, <2>1
  <2>3. sent[i - Dropped] \in 0 .. BurstWindow - 1
    BY <2>1, TransportFacts
  <2> QED BY <2>2, <2>3, TransportBounds
<1>5. Dropped \in 0 .. Len(prevTimes)
  BY TransportFacts
<1>6. Beyond(prevTimes) = Dropped
  BY <1>1, <1>2, <1>4, <1>5, BeyondIs
<1> DEFINE t == SubSeq(prevTimes, Dropped + 1, Len(prevTimes))
<1>7. t \in Seq(Nat) /\ Len(t) = Len(sent) /\ \A i \in 1 .. Len(sent) : t[i] = prevTimes[Dropped + i]
  <2> DEFINE m == Dropped + 1
             n == Len(prevTimes)
  <2>1. m \in Int /\ n \in Int /\ n - m + 1 = Len(sent) /\ (m <= n <=> Len(sent) # 0) /\ Len(sent) \in Nat
    BY TransportFacts
  <2>2. \A i \in m .. n : prevTimes[i] \in Nat
    BY TransportFacts
  <2>3. \A i \in 1 .. Len(sent) : m + i - 1 = Dropped + i
    BY TransportFacts
  <2> HIDE DEF m, n
  <2>4. /\ SubSeq(prevTimes, m, n) \in Seq(Nat)
        /\ Len(SubSeq(prevTimes, m, n)) = IF m <= n THEN n - m + 1 ELSE 0
        /\ \A i \in 1 .. n - m + 1 : SubSeq(prevTimes, m, n)[i] = prevTimes[m + i - 1]
    BY <2>1, <2>2, SubSeqProperties
  <2> QED BY <2>1, <2>3, <2>4 DEF m, n
<1> HIDE DEF t
<1>8. t = sent
  <2>1. sent \in Seq(Nat)
    BY TransportFacts, TransportBounds, SeqMonotonic
  <2> QED BY <1>3, <1>7, <2>1, SeqEqual
<1> QED BY <1>6, <1>8 DEF Within, t

LEMMA SpacingAdds == \A m, s \in Nat : (m + 1) * s = m * s + s /\ m * s \in Nat
  OBVIOUS

LEMMA BurstKeeps ==
  ASSUME TransportShape, Burst
  PROVE  TransportShape'
<1> DEFINE n == Len(sent)
           ok == Accepted(sent)
<1>1. /\ prevTimes' = (IF ok THEN Append(sent, 0) ELSE sent)
      /\ sent' = (IF ok THEN Append(sent, 0) ELSE sent)
      /\ taps' = Append(IF Len(taps) = 2 THEN Tail(taps) ELSE taps, 0)
      /\ UNCHANGED <<lastExec, delivering>>
  BY SentIsWithin DEF Burst
<1>2. /\ sent \in Seq(0 .. BurstWindow - 1) /\ n \in Nat /\ \A i \in 1 .. n : sent[i] \in 0 .. BurstWindow - 1
      /\ taps \in Seq(0 .. BurstWindow) /\ Len(taps) \in Nat /\ Len(taps) <= 2
  BY TransportFacts
<1>3. 0 \in 0 .. BurstWindow - 1 /\ 0 \in 0 .. BurstWindow
  BY TransportBounds
<1>4. /\ taps' \in Seq(0 .. BurstWindow) /\ Len(taps') \in 1 .. 2 /\ Last(taps') = 0
      /\ Len(taps') = 2 => taps # <<>> /\ taps'[1] = Last(taps)
  <2> DEFINE u == IF Len(taps) = 2 THEN Tail(taps) ELSE taps
  <2>1. /\ u \in Seq(0 .. BurstWindow) /\ Len(u) \in 0 .. 1
        /\ Len(u) = 1 => taps # <<>> /\ u[1] = Last(taps)
    <3>1. CASE Len(taps) = 2
      <4>1. taps # <<>>
        BY <3>1, EmptySeq
      <4>2. /\ Tail(taps) \in Seq(0 .. BurstWindow) /\ Len(Tail(taps)) = 1
            /\ \A i \in 1 .. 1 : Tail(taps)[i] = taps[i + 1]
        <5>1. 2 - 1 = 1
          OBVIOUS
        <5> QED BY <1>2, <3>1, <4>1, <5>1, HeadTailProperties
      <4>3. Tail(taps)[1] = taps[2]
        <5>1. 1 \in 1 .. 1 /\ 1 + 1 = 2
          OBVIOUS
        <5> QED BY <4>2, <5>1, Zenon
      <4>4. u = Tail(taps) /\ Last(taps) = taps[2]
        BY <3>1 DEF Last
      <4> HIDE DEF u
      <4> QED BY <4>1, <4>2, <4>3, <4>4
    <3>2. CASE Len(taps) # 2
      <4>1. u = taps /\ Len(taps) \in 0 .. 1
        <5>1. \A m \in Nat : m <= 2 /\ m # 2 => m \in 0 .. 1
          OBVIOUS
        <5>2. Len(taps) \in 0 .. 1
          BY <1>2, <3>2, <5>1, Zenon
        <5> QED BY <3>2, <5>2
      <4>2. Len(taps) = 1 => taps # <<>> /\ taps[1] = Last(taps)
        BY EmptySeq DEF Last
      <4> HIDE DEF u
      <4> QED BY <1>2, <4>1, <4>2
    <3> QED BY <3>1, <3>2
  <2> HIDE DEF u
  <2>2. /\ Append(u, 0) \in Seq(0 .. BurstWindow) /\ Len(Append(u, 0)) = Len(u) + 1
        /\ \A i \in 1 .. Len(u) : Append(u, 0)[i] = u[i]
        /\ Append(u, 0)[Len(u) + 1] = 0
    BY <1>3, <2>1, AppendProperties
  <2>3. taps' = Append(u, 0)
    BY <1>1 DEF u
  <2> QED BY <2>1, <2>2, <2>3 DEF Last
<1>5. /\ sent' \in Seq(0 .. BurstWindow - 1) /\ Len(sent') \in n .. n + 1
      /\ \A i \in 1 .. n : sent'[i] = sent[i]
      /\ ok <=> Len(sent') = n + 1
      /\ ok => sent'[n + 1] = 0
  <2>1. CASE ok
    <3>1. sent' = Append(sent, 0)
      BY <1>1, <2>1
    <3>2. /\ Append(sent, 0) \in Seq(0 .. BurstWindow - 1) /\ Len(Append(sent, 0)) = n + 1
          /\ \A i \in 1 .. n : Append(sent, 0)[i] = sent[i]
          /\ Append(sent, 0)[n + 1] = 0
      BY <1>2, <1>3, AppendProperties
    <3> QED BY <1>2, <2>1, <3>1, <3>2
  <2>2. CASE ~ok
    BY <1>1, <1>2, <2>2
  <2> QED BY <2>1, <2>2
<1>6. prevTimes' = sent' /\ Dropped' = 0
  <2>1. prevTimes' = sent'
    BY <1>1
  <2> QED BY <1>2, <1>5, <2>1 DEF Dropped
<1>7. prevTimes' \in Seq(0 .. BurstWindow)
  <2>1. \A i \in 1 .. Len(sent') : sent'[i] \in 0 .. BurstWindow
    BY <1>5, ElementOfSeq, TransportBounds
  <2>2. sent' \in [1 .. Len(sent') -> 0 .. BurstWindow] /\ Len(sent') \in Nat
    BY <1>5, <2>1, LenProperties
  <2> QED BY <1>6, <2>2, SeqDef
<1>8. TransportTypeOK'
  BY <1>1, <1>4, <1>5, <1>6, <1>7, TransportBounds DEF TransportShape, TransportTypeOK
<1>9. n < BurstLimit \/ (n # 0 /\ sent # <<>>)
  BY <1>2, TransportBounds, EmptySeq
<1>10. Len(sent') = n \/ n < BurstLimit \/ MinSpacing <= sent[n]
  BY <1>2, <1>5, TransportBounds DEF Accepted, Last
<1>11. Len(sent') = n => BurstLimit <= n /\ sent[n] < MinSpacing
  <2>1. ~ok => BurstLimit <= n /\ n # 0 /\ ~(Last(sent) >= MinSpacing)
    BY <1>2, TransportBounds DEF Accepted
  <2>2. ~ok => sent[n] \in Nat
    BY <1>2, <2>1, TransportBounds
  <2>3. Len(sent') = n => ~ok
    BY <1>2, <1>5
  <2> HIDE DEF ok
  <2> QED BY <2>1, <2>2, <2>3, TransportBounds DEF Last
<1> HIDE DEF n, ok
<1>12. \A i, j \in 1 .. Len(sent') : i <= j => sent'[j] <= sent'[i]
  <2> SUFFICES ASSUME NEW i \in 1 .. Len(sent'), NEW j \in 1 .. Len(sent'), i <= j PROVE sent'[j] <= sent'[i]
    OBVIOUS
  <2>1. CASE j <= n
    <3>1. i \in 1 .. n /\ j \in 1 .. n
      BY <1>2, <1>5, <2>1
    <3>2. sent[j] <= sent[i]
      BY <3>1 DEF TransportShape, Bucket, n
    <3> QED BY <1>5, <3>1, <3>2
  <2>2. CASE j > n
    <3>1. j = n + 1 /\ sent'[j] = 0
      BY <1>2, <1>5, <2>2
    <3>2. sent'[i] \in Nat
      BY <1>5, ElementOfSeq, TransportBounds
    <3> QED BY <3>1, <3>2
  <2> QED BY <1>2, <1>5, <2>1, <2>2
<1>13. \A i, j \in 1 .. Len(sent') : BurstLimit <= i /\ i <= j => sent'[j] + (j - i) * MinSpacing <= sent'[i]
  <2> SUFFICES ASSUME NEW i \in 1 .. Len(sent'), NEW j \in 1 .. Len(sent'), BurstLimit <= i, i <= j
               PROVE  sent'[j] + (j - i) * MinSpacing <= sent'[i]
    OBVIOUS
  <2>1. CASE j <= n
    <3>1. i \in 1 .. n /\ j \in 1 .. n
      BY <1>2, <1>5, <2>1
    <3>2. sent[j] + (j - i) * MinSpacing <= sent[i]
      BY <3>1 DEF TransportShape, Bucket, n
    <3> QED BY <1>5, <3>1, <3>2
  <2>2. CASE j > n /\ i = j
    <3>1. j = n + 1 /\ sent'[j] = 0 /\ (j - i) * MinSpacing = 0
      BY <1>2, <1>5, <2>2, TransportBounds
    <3> QED BY <2>2, <3>1
  <2>3. CASE j > n /\ i # j
    <3>1. j = n + 1 /\ sent'[j] = 0 /\ i \in 1 .. n /\ n \in 1 .. n /\ Len(sent') = n + 1
      BY <1>2, <1>5, <2>3
    <3>2. MinSpacing <= sent[n]
      BY <1>2, <1>10, <3>1, TransportBounds
    <3>3. sent[n] + (n - i) * MinSpacing <= sent[i]
      BY <3>1 DEF TransportShape, Bucket, n
    <3>4. n - i \in Nat /\ j - i = (n - i) + 1
      BY <1>2, <3>1
    <3>5. (j - i) * MinSpacing = (n - i) * MinSpacing + MinSpacing /\ (n - i) * MinSpacing \in Nat
      BY <3>4, SpacingAdds, TransportBounds
    <3>6. sent[n] \in Nat /\ sent[i] \in Nat
      BY <1>2, <3>1
    <3>7. (j - i) * MinSpacing <= sent[i]
      <4> DEFINE a == (j - i) * MinSpacing
                 b == (n - i) * MinSpacing
      <4>1. a = b + MinSpacing /\ b \in Nat /\ sent[n] + b <= sent[i]
        BY <3>3, <3>5
      <4> HIDE DEF a, b
      <4>2. a <= sent[i]
        BY <3>2, <3>6, <4>1, TransportBounds
      <4> QED BY <4>2 DEF a
    <3>8. (j - i) * MinSpacing \in Nat
      BY <3>4, SpacingAdds, TransportBounds
    <3> QED BY <1>5, <3>1, <3>7, <3>8
  <2> QED BY <1>2, <1>5, <2>1, <2>2, <2>3
<1>14. sent' # <<>> /\ Last(sent') < MinSpacing
  <2>1. CASE Len(sent') = n
    <3>1. n # 0 /\ Last(sent') = sent[n]
      BY <1>2, <1>5, <1>11, <2>1, TransportBounds DEF Last
    <3> QED BY <1>11, <2>1, <3>1, EmptySeq
  <2>2. CASE Len(sent') = n + 1
    BY <1>2, <1>5, <2>2, TransportBounds, EmptySeq DEF Last
  <2> QED BY <1>2, <1>5, <2>1, <2>2
<1>15. Bucket'
  <2>1. \A i \in 1 .. 0 : FALSE
    OBVIOUS
  <2>2. \A i \in 1 .. Len(sent') : 0 + i = i
    OBVIOUS
  <2>3. Last(sent') < Last(taps') + MinSpacing
    BY <1>4, <1>14, TransportBounds
  <2> QED BY <1>6, <1>12, <1>13, <1>14, <2>1, <2>2, <2>3 DEF Bucket
<1>16. FastDoubleTapReaches'
  <2> SUFFICES ASSUME Len(taps') = 2, taps'[1] < MinSpacing PROVE Len(sent') >= 2
    BY DEF FastDoubleTapReaches
  <2>1. sent # <<>>
    BY <1>4 DEF TransportShape, Bucket
  <2>2. n # 0
    BY <1>2, <2>1, EmptySeq, EmptySeq, LenProperties DEF n
  <2> QED BY <1>2, <1>5, <1>11, <2>2, TransportBounds
<1>17. DeliveriesAge' /\ NoOvertaking'
  BY <1>1 DEF TransportShape, DeliveriesAge, NoOvertaking
<1> QED BY <1>8, <1>15, <1>16, <1>17 DEF TransportShape

LEMMA TransportTickKeeps == ASSUME TransportShape, TransportTick PROVE TransportShape'
<1> DEFINE n == Len(sent)
           aged == Older(sent, BurstWindow)
           m == Beyond(aged)
<1>1. /\ lastExec' = Older(lastExec, ThrottleTime)
      /\ prevTimes' = Older(prevTimes, BurstWindow)
      /\ delivering' = [k \in Throttled |-> Older(delivering[k], DeliverTimeout)]
      /\ taps' = Older(taps, BurstWindow)
      /\ sent' = Within(aged)
      /\ \A k \in Throttled : \A i \in DOMAIN delivering[k] : delivering[k][i] < DeliverTimeout
  BY DEF TransportTick
<1>2. /\ lastExec \in [Throttled -> 0 .. ThrottleTime]
      /\ delivering \in [Throttled -> Seq(0 .. DeliverTimeout)]
  BY DEF TransportShape, TransportTypeOK
<1>3. /\ lastExec' \in [Throttled -> 0 .. ThrottleTime]
      /\ \A k \in Throttled : lastExec'[k] = IF lastExec[k] < ThrottleTime THEN lastExec[k] + 1 ELSE ThrottleTime
  <2>1. \A k \in Throttled : (IF lastExec[k] < ThrottleTime THEN lastExec[k] + 1 ELSE ThrottleTime) \in 0 .. ThrottleTime
    BY <1>2, TransportBounds
  <2> QED BY <1>1, <1>2, <2>1 DEF Older
<1>4. ASSUME NEW k \in Throttled
      PROVE  /\ delivering'[k] \in Seq(0 .. DeliverTimeout)
             /\ DOMAIN delivering'[k] = DOMAIN delivering[k]
             /\ \A i \in DOMAIN delivering[k] : delivering'[k][i] = delivering[k][i] + 1 /\ delivering[k][i] \in Nat
  <2>1. delivering'[k] = Older(delivering[k], DeliverTimeout) /\ delivering[k] \in Seq(0 .. DeliverTimeout)
    BY <1>1, <1>2
  <2>2. DOMAIN delivering[k] = 1 .. Len(delivering[k]) /\ \A i \in DOMAIN delivering[k] : delivering[k][i] \in Nat
    BY <2>1, LenProperties, ElementOfSeq, TransportBounds
  <2> QED BY <1>1, <2>1, <2>2, OlderIs, TransportBounds
<1>5. delivering' \in [Throttled -> Seq(0 .. DeliverTimeout)]
  BY <1>1, <1>4
<1>6. DeliveriesAge'
  <2> SUFFICES ASSUME NEW k \in Throttled, NEW i \in DOMAIN delivering'[k]
               PROVE  delivering'[k][i] >= lastExec'[k] \/ delivering'[k][i] >= DeliverTimeout
    BY DEF DeliveriesAge
  <2>1. /\ delivering[k][i] \in Nat /\ lastExec[k] \in 0 .. ThrottleTime
        /\ delivering'[k][i] = delivering[k][i] + 1 /\ delivering[k][i] < DeliverTimeout
        /\ delivering[k][i] >= lastExec[k] \/ delivering[k][i] >= DeliverTimeout
    BY <1>1, <1>2, <1>4 DEF TransportShape, DeliveriesAge
  <2> QED BY <1>3, <2>1, TransportBounds
<1>7. NoOvertaking'
  <2> SUFFICES ASSUME NEW k \in Throttled, NEW i \in DOMAIN delivering'[k], NEW j \in DOMAIN delivering'[k], i < j
               PROVE  FALSE
    BY DEF NoOvertaking
  <2>1. i \in DOMAIN delivering[k] /\ j \in DOMAIN delivering[k] /\ delivering[k][i] < DeliverTimeout
    BY <1>1, <1>4
  <2>2. delivering[k][i] >= DeliverTimeout /\ delivering[k][i] \in Nat
    BY <1>4, <2>1 DEF TransportShape, NoOvertaking
  <2> QED BY <2>1, <2>2, TransportBounds
<1>8. /\ prevTimes' \in Seq(0 .. BurstWindow) /\ Len(prevTimes') = Len(prevTimes)
      /\ \A i \in 1 .. Len(prevTimes) :
           prevTimes'[i] = IF prevTimes[i] < BurstWindow THEN prevTimes[i] + 1 ELSE BurstWindow
  BY <1>1, TransportFacts, OlderIs, TransportBounds
<1>9. /\ taps' \in Seq(0 .. BurstWindow) /\ Len(taps') = Len(taps)
      /\ \A i \in 1 .. Len(taps) : taps'[i] = IF taps[i] < BurstWindow THEN taps[i] + 1 ELSE BurstWindow
  BY <1>1, TransportFacts, OlderIs, TransportBounds
<1>10. /\ aged \in Seq(0 .. BurstWindow) /\ Len(aged) = n /\ n \in Nat
       /\ \A i \in 1 .. n : aged[i] = sent[i] + 1 /\ sent[i] \in Nat /\ sent[i] < BurstWindow
  <2>1. sent \in Seq(0 .. BurstWindow)
    BY TransportFacts, TransportBounds, SeqMonotonic
  <2>2. \A i \in 1 .. n : sent[i] \in Nat /\ sent[i] < BurstWindow
    BY TransportFacts, TransportBounds
  <2>3. /\ aged \in Seq(0 .. BurstWindow) /\ Len(aged) = n
        /\ \A i \in 1 .. n : aged[i] = IF sent[i] < BurstWindow THEN sent[i] + 1 ELSE BurstWindow
    BY <2>1, OlderIs, TransportBounds
  <2> QED BY <2>2, <2>3, TransportFacts
<1> HIDE DEF n, aged
<1>11. \A i, j \in 1 .. n : i <= j => sent[j] <= sent[i]
  BY DEF TransportShape, Bucket, n
<1>12. \A i, j \in 1 .. Len(aged) : i <= j => aged[j] <= aged[i]
  BY <1>10, <1>11
<1>13. /\ m \in 0 .. n /\ \A i \in 1 .. m : aged[i] >= BurstWindow
       /\ sent' \in Seq(0 .. BurstWindow) /\ Len(sent') = n - m
       /\ \A i \in 1 .. n - m : sent'[i] = aged[m + i] /\ sent'[i] < BurstWindow
  <2>1. 0 .. BurstWindow \subseteq Nat
    BY TransportBounds
  <2> QED BY <1>1, <1>10, <1>12, <2>1, WithinIs
<1> HIDE DEF m
<1>14. \A i \in 1 .. n - m : m + i \in 1 .. n /\ sent'[i] = sent[m + i] + 1 /\ sent[m + i] \in Nat
  BY <1>10, <1>13
<1>15. sent' \in Seq(0 .. BurstWindow - 1)
  <2>1. \A i \in 1 .. n - m : sent'[i] \in 0 .. BurstWindow - 1
    BY <1>13, <1>14, TransportBounds
  <2>2. sent' \in [1 .. n - m -> 0 .. BurstWindow - 1] /\ n - m \in Nat
    BY <1>10, <1>13, <2>1, LenProperties
  <2> QED BY <2>2, SeqDef
<1>16. Dropped' = Dropped + m /\ Dropped \in Nat /\ Len(prevTimes) = n + Dropped
  BY <1>8, <1>10, <1>13, TransportFacts DEF Dropped, n
<1>17. TransportTypeOK'
  <2>1. Len(sent') <= Len(prevTimes')
    BY <1>8, <1>10, <1>13, <1>16
  <2>2. Len(taps') <= 2
    BY <1>9, TransportFacts
  <2> QED BY <1>3, <1>5, <1>8, <1>9, <1>15, <2>1, <2>2 DEF TransportTypeOK
<1>18. \A i \in 1 .. n : sent[i] = prevTimes[Dropped + i]
  BY DEF TransportShape, Bucket, n
<1>19. ASSUME NEW i \in 1 .. Dropped + m PROVE prevTimes'[i] >= BurstWindow
  <2>1. i \in 1 .. Len(prevTimes)
    BY <1>10, <1>13, <1>16
  <2>2. CASE i <= Dropped
    <3>1. prevTimes[i] >= BurstWindow /\ prevTimes[i] \in 0 .. BurstWindow
      BY <1>16, <2>1, <2>2, TransportFacts DEF TransportShape, Bucket
    <3> QED BY <1>8, <2>1, <3>1, TransportBounds
  <2>3. CASE ~(i <= Dropped)
    <3>1. i - Dropped \in 1 .. m /\ i - Dropped \in 1 .. n /\ Dropped + (i - Dropped) = i
      BY <1>10, <1>13, <1>16, <2>3
    <3>2. sent[i - Dropped] + 1 >= BurstWindow /\ sent[i - Dropped] < BurstWindow /\ sent[i - Dropped] = prevTimes[i]
          /\ sent[i - Dropped] \in Nat
      BY <1>10, <1>13, <1>18, <3>1
    <3> QED BY <1>8, <2>1, <3>2, TransportBounds
  <2> QED BY <2>2, <2>3
<1>20. ASSUME NEW i \in 1 .. n - m PROVE sent'[i] = prevTimes'[Dropped + m + i]
  <2>1. m + i \in 1 .. n /\ sent'[i] = sent[m + i] + 1 /\ Dropped + m + i = Dropped + (m + i)
        /\ Dropped + m + i \in 1 .. Len(prevTimes)
    BY <1>10, <1>13, <1>14, <1>16
  <2>2. sent[m + i] = prevTimes[Dropped + m + i] /\ sent[m + i] \in Nat /\ sent[m + i] < BurstWindow
    BY <1>10, <1>18, <2>1
  <2> QED BY <1>8, <2>1, <2>2, TransportBounds
<1>21. ASSUME NEW i \in 1 .. n - m, NEW j \in 1 .. n - m, i <= j PROVE sent'[j] <= sent'[i]
  <2>1. m + i <= m + j
    BY <1>10, <1>13, <1>21
  <2> QED BY <1>11, <1>14, <2>1
<1>22. ASSUME NEW i \in 1 .. n - m, NEW j \in 1 .. n - m, BurstLimit <= i, i <= j
       PROVE  sent'[j] + (j - i) * MinSpacing <= sent'[i]
  <2>1. m + i <= m + j /\ BurstLimit <= m + i /\ (m + j) - (m + i) = j - i
    BY <1>10, <1>13, <1>22, TransportBounds
  <2>2. sent[m + j] + (j - i) * MinSpacing <= sent[m + i]
    <3>1. sent[m + j] + ((m + j) - (m + i)) * MinSpacing <= sent[m + i]
      BY <1>14, <2>1 DEF TransportShape, Bucket, n
    <3> QED BY <2>1, <3>1
  <2>3. (j - i) * MinSpacing \in Nat
    <3>1. j - i \in Nat
      BY <1>10, <1>13, <1>22
    <3> QED BY <3>1, SpacingAdds, TransportBounds
  <2> DEFINE a == (j - i) * MinSpacing
  <2>4. a \in Nat /\ sent[m + j] + a <= sent[m + i]
    BY <2>2, <2>3
  <2> HIDE DEF a
  <2>5. sent'[j] + a <= sent'[i]
    BY <1>14, <2>4
  <2> QED BY <2>5 DEF a
<1>23. ASSUME taps' # <<>>, Last(taps') < MinSpacing
       PROVE  sent' # <<>> /\ Last(sent') < Last(taps') + MinSpacing
  <2>1. taps # <<>> /\ Len(taps) \in 1 .. 2
    BY <1>9, <1>23, TransportFacts, EmptySeq
  <2>2. Last(taps') = taps'[Len(taps)] /\ Last(taps) = taps[Len(taps)] /\ taps[Len(taps)] \in Nat
    BY <1>9, <2>1, TransportFacts, TransportBounds DEF Last
  <2>3. Last(taps) \in Nat /\ Last(taps') = Last(taps) + 1
    BY <1>9, <1>23, <2>1, <2>2, TransportBounds
  <2>4. sent # <<>> /\ Last(sent) < Last(taps) + MinSpacing
    BY <1>23, <2>1, <2>3, TransportBounds DEF TransportShape, Bucket
  <2>5. n \in 1 .. n /\ Last(sent) = sent[n]
    BY <1>10, <2>4, TransportFacts, EmptySeq DEF Last, n
  <2>6. aged[n] < BurstWindow /\ aged[n] = sent[n] + 1
    <3>1. aged[n] = sent[n] + 1 /\ sent[n] \in Nat
      BY <1>10, <2>5
    <3> QED BY <1>23, <2>3, <2>4, <2>5, <3>1, TransportBounds
  <2>7. m < n
    BY <1>10, <1>13, <2>5, <2>6, TransportBounds
  <2>8. Last(sent') = sent'[n - m] /\ n - m \in 1 .. n - m /\ m + (n - m) = n
    BY <1>10, <1>13, <2>7 DEF Last
  <2>9. sent' # <<>>
    BY <1>10, <1>13, <2>7, EmptySeq
  <2>10. Last(sent') = sent[n] + 1
    BY <1>14, <2>8
  <2>11. sent[n] \in Nat
    BY <1>10, <2>5
  <2> QED BY <2>3, <2>4, <2>5, <2>9, <2>10, <2>11, TransportBounds
<1>24. Bucket'
  BY <1>13, <1>16, <1>19, <1>20, <1>21, <1>22, <1>23 DEF Bucket
<1>25. FastDoubleTapReaches'
  <2> SUFFICES ASSUME Len(taps') = 2, taps'[2] = 0 PROVE FALSE
    BY DEF FastDoubleTapReaches
  <2>1. 2 \in 1 .. Len(taps) /\ taps[2] \in Nat
    <3>1. 2 \in 1 .. Len(taps)
      BY <1>9
    <3>2. taps[2] \in 0 .. BurstWindow
      BY <3>1, TransportFacts
    <3> QED BY <3>1, <3>2, TransportBounds
  <2> QED BY <1>9, <2>1, TransportBounds
<1> QED BY <1>6, <1>7, <1>17, <1>24, <1>25 DEF TransportShape

(* A delivery begins in a category whose last one has ended or is due to. *)
LEMMA ThrottleKeeps ==
  ASSUME TransportShape, NEW k \in Throttled, Throttle(k)
  PROVE  TransportShape'
<1>1. /\ lastExec[k] = ThrottleTime /\ lastExec' = [lastExec EXCEPT ![k] = 0]
      /\ delivering' = [delivering EXCEPT ![k] = Append(@, 0)]
      /\ UNCHANGED <<prevTimes, taps, sent>>
  BY DEF Throttle
<1>2. lastExec \in [Throttled -> 0 .. ThrottleTime] /\ delivering \in [Throttled -> Seq(0 .. DeliverTimeout)]
  BY DEF TransportShape, TransportTypeOK
<1> DEFINE d == delivering[k]
           e == Append(d, 0)
<1>3. d \in Seq(0 .. DeliverTimeout) /\ Len(d) \in Nat /\ DOMAIN d = 1 .. Len(d)
      /\ \A i \in DOMAIN d : d[i] \in 0 .. DeliverTimeout
  BY <1>2, LenProperties, ElementOfSeq
<1>4. /\ e \in Seq(0 .. DeliverTimeout) /\ Len(e) = Len(d) + 1
      /\ \A i \in 1 .. Len(d) : e[i] = d[i]
      /\ e[Len(d) + 1] = 0
  BY <1>3, AppendProperties, TransportBounds
<1>5. DOMAIN e = 1 .. Len(d) + 1
  BY <1>4, LenProperties
<1>6. \A i \in DOMAIN d : d[i] >= DeliverTimeout
  <2> SUFFICES ASSUME NEW i \in DOMAIN d PROVE d[i] >= DeliverTimeout
    OBVIOUS
  <2>1. d[i] >= ThrottleTime \/ d[i] >= DeliverTimeout
    BY <1>1 DEF TransportShape, DeliveriesAge
  <2> QED BY <1>3, <2>1, TransportBounds
<1>7. /\ delivering'[k] = e /\ lastExec'[k] = 0
      /\ \A c \in Throttled \ {k} : delivering'[c] = delivering[c] /\ lastExec'[c] = lastExec[c]
      /\ delivering' \in [Throttled -> Seq(0 .. DeliverTimeout)]
      /\ lastExec' \in [Throttled -> 0 .. ThrottleTime]
  BY <1>1, <1>2, <1>4, TransportBounds
<1> HIDE DEF e, d
<1>8. ASSUME NEW c \in Throttled, NEW i \in DOMAIN delivering'[c]
      PROVE  delivering'[c][i] >= lastExec'[c] \/ delivering'[c][i] >= DeliverTimeout
  <2>1. CASE c = k
    <3>1. e[i] >= 0
      BY <1>3, <1>4, <1>5, <1>7, <2>1, TransportBounds
    <3> QED BY <1>7, <2>1, <3>1
  <2>2. CASE c # k
    BY <1>7, <2>2 DEF TransportShape, DeliveriesAge
  <2> QED BY <2>1, <2>2
<1>9. ASSUME NEW c \in Throttled, NEW i \in DOMAIN delivering'[c], NEW j \in DOMAIN delivering'[c], i < j
      PROVE  delivering'[c][i] >= DeliverTimeout
  <2>1. CASE c = k
    <3>1. i \in DOMAIN d /\ e[i] = d[i]
      BY <1>3, <1>4, <1>5, <1>7, <1>9, <2>1
    <3> QED BY <1>6, <1>7, <2>1, <3>1
  <2>2. CASE c # k
    BY <1>7, <1>9, <2>2 DEF TransportShape, NoOvertaking
  <2> QED BY <2>1, <2>2
<1>10. DeliveriesAge' /\ NoOvertaking'
  BY <1>8, <1>9 DEF DeliveriesAge, NoOvertaking
<1> QED BY <1>1, <1>7, <1>10 DEF TransportShape, TransportTypeOK, Bucket, FastDoubleTapReaches, Dropped

(* One that ends leaves the others in order. *)
LEMMA DeliveredKeeps ==
  ASSUME TransportShape, NEW k \in Throttled, Delivered(k)
  PROVE  TransportShape'
<1>1. PICK n \in DOMAIN delivering[k] :
         delivering' = [delivering EXCEPT ![k] = RemoveAt(delivering[k], n)]
  BY DEF Delivered
<1>2. UNCHANGED <<lastExec, prevTimes, taps, sent>>
  BY DEF Delivered
<1>3. lastExec \in [Throttled -> 0 .. ThrottleTime] /\ delivering \in [Throttled -> Seq(0 .. DeliverTimeout)]
  BY DEF TransportShape, TransportTypeOK
<1> DEFINE d == delivering[k]
           e == RemoveAt(d, n)
           old(i) == IF i < n THEN i ELSE i + 1
<1>4. d \in Seq(0 .. DeliverTimeout) /\ Len(d) \in Nat /\ DOMAIN d = 1 .. Len(d) /\ n \in DOMAIN d
  BY <1>1, <1>3, LenProperties
<1>5. /\ e \in Seq(0 .. DeliverTimeout) /\ Len(e) = Len(d) - 1
      /\ \A i \in 1 .. Len(d) - 1 : e[i] = IF i < n THEN d[i] ELSE d[i + 1]
  BY <1>4, Removed
<1>6. DOMAIN e = 1 .. Len(d) - 1
  BY <1>5, LenProperties
<1>7. /\ delivering'[k] = e
      /\ \A c \in Throttled \ {k} : delivering'[c] = delivering[c]
      /\ delivering' \in [Throttled -> Seq(0 .. DeliverTimeout)]
  BY <1>1, <1>3, <1>5
<1> HIDE DEF e, d
<1>8. \A i \in DOMAIN e : old(i) \in DOMAIN d /\ e[i] = d[old(i)]
  BY <1>4, <1>5, <1>6
<1>9. \A i, j \in DOMAIN e : i < j => old(i) < old(j)
  BY <1>4, <1>6
<1> HIDE DEF old
<1>10. ASSUME NEW c \in Throttled, NEW i \in DOMAIN delivering'[c]
      PROVE  delivering'[c][i] >= lastExec'[c] \/ delivering'[c][i] >= DeliverTimeout
  BY <1>2, <1>7, <1>8 DEF TransportShape, DeliveriesAge, d
<1>11. ASSUME NEW c \in Throttled, NEW i \in DOMAIN delivering'[c], NEW j \in DOMAIN delivering'[c], i < j
      PROVE  delivering'[c][i] >= DeliverTimeout
  BY <1>7, <1>8, <1>9, <1>11 DEF TransportShape, NoOvertaking, d
<1>12. DeliveriesAge' /\ NoOvertaking'
  BY <1>10, <1>11 DEF DeliveriesAge, NoOvertaking
<1> QED BY <1>2, <1>3, <1>7, <1>12 DEF TransportShape, TransportTypeOK, Bucket, FastDoubleTapReaches, Dropped

LEMMA TransportStart == TransportInit => TransportShape
<1> SUFFICES ASSUME TransportInit PROVE TransportShape
  OBVIOUS
<1> USE DEF TransportInit
<1>1. Len(sent) = 0 /\ Len(taps) = 0 /\ Len(prevTimes) = 0
      /\ prevTimes \in Seq(0 .. BurstWindow) /\ taps \in Seq(0 .. BurstWindow)
      /\ sent \in Seq(0 .. BurstWindow - 1)
  BY EmptySeq
<1>2. delivering \in [Throttled -> Seq(0 .. DeliverTimeout)] /\ \A k \in Throttled : DOMAIN delivering[k] = {}
  BY EmptySeq
<1>3. lastExec \in [Throttled -> 0 .. ThrottleTime]
  BY TransportBounds
<1>4. Dropped = 0 /\ 1 .. 0 = {} /\ taps = <<>>
  BY <1>1 DEF Dropped
<1> QED BY <1>1, <1>2, <1>3, <1>4
        DEF TransportShape, TransportTypeOK, DeliveriesAge, NoOvertaking, Bucket, FastDoubleTapReaches

LEMMA TransportStep == ASSUME TransportShape, [TransportNext]_transportVars PROVE TransportShape'
<1>1. CASE TransportRestarts
  <2>1. /\ delivering' = [k \in Throttled |-> <<>>] /\ UNCHANGED <<lastExec, prevTimes, taps, sent>>
    BY <1>1 DEF TransportRestarts
  <2>2. delivering' \in [Throttled -> Seq(0 .. DeliverTimeout)] /\ \A k \in Throttled : DOMAIN delivering'[k] = {}
    BY <2>1, EmptySeq
  <2> QED BY <2>1, <2>2 DEF TransportShape, TransportTypeOK, DeliveriesAge, NoOvertaking, Bucket,
                            FastDoubleTapReaches, Dropped
<1>2. CASE UNCHANGED transportVars
  BY <1>2 DEF transportVars, TransportShape, TransportTypeOK, DeliveriesAge, NoOvertaking, Bucket,
              FastDoubleTapReaches, Dropped
<1> QED BY <1>1, <1>2, BurstKeeps, TransportTickKeeps, ThrottleKeeps, DeliveredKeeps DEF TransportNext, ThrottleDrops

(* Spaced apart within the window, the presses are so many at most. *)
LEMMA Paced == ASSUME TransportShape PROVE PrevIsPaced
<1> DEFINE n == Len(sent)
           q == (BurstWindow - 1) \div MinSpacing
<1>1. n \in Nat /\ q \in Nat /\ BurstWindow - 1 < (q + 1) * MinSpacing
  <2>1. \A a \in Nat : \A b \in Nat \ {0} : a \div b \in Nat /\ a < (a \div b + 1) * b
    OBVIOUS
  <2>2. BurstWindow - 1 \in Nat /\ MinSpacing \in Nat \ {0}
    BY TransportBounds
  <2> QED BY <2>1, <2>2, TransportFacts, Zenon
<1>2. CASE n <= BurstLimit
  BY <1>1, <1>2, TransportBounds DEF PrevIsPaced
<1>3. CASE BurstLimit < n
  <2> DEFINE k == n - BurstLimit
  <2>1. BurstLimit \in 1 .. n /\ n \in 1 .. n /\ k \in Nat
    BY <1>1, <1>3, TransportBounds
  <2>2. sent[n] + k * MinSpacing <= sent[BurstLimit]
    BY <1>3, <2>1, TransportBounds DEF TransportShape, Bucket
  <2>3. sent[n] \in Nat /\ sent[BurstLimit] \in 0 .. BurstWindow - 1
    BY <2>1, TransportFacts, TransportBounds
  <2>4. k * MinSpacing \in Nat
    BY <2>1, SpacingAdds, TransportBounds
  <2> HIDE DEF q, k
  <2>5. k * MinSpacing < (q + 1) * MinSpacing
    <3> DEFINE a == k * MinSpacing
               b == (q + 1) * MinSpacing
    <3>1. a \in Nat /\ b \in Int /\ sent[n] + a <= sent[BurstLimit] /\ BurstWindow - 1 < b
      BY <1>1, <2>2, <2>4, TransportBounds
    <3> HIDE DEF a, b
    <3>2. a < b
      BY <2>3, <3>1, TransportBounds
    <3> QED BY <3>2 DEF a, b
  <2>6. k <= q
    <3>1. ASSUME q + 1 <= k PROVE FALSE
      <4>1. \A c, d, s \in Nat : c <= d => c * s <= d * s
        OBVIOUS
      <4>2. (q + 1) * MinSpacing <= k * MinSpacing
        BY <1>1, <2>1, <3>1, <4>1, TransportBounds
      <4> DEFINE a == k * MinSpacing
                 b == (q + 1) * MinSpacing
      <4>3. a \in Int /\ b \in Int /\ a < b /\ b <= a
        BY <1>1, <2>1, <2>5, <4>2, TransportBounds
      <4> HIDE DEF a, b
      <4> QED BY <4>3
    <3> QED BY <1>1, <2>1, <3>1
  <2> QED BY <1>1, <2>1, <2>6, TransportBounds DEF PrevIsPaced, q, k
<1> QED BY <1>1, <1>2, <1>3, TransportBounds

THEOREM TransportTyped == TransportSpec => []TransportTypeOK
<1>1. TransportShape => TransportTypeOK
  BY DEF TransportShape
<1> QED BY <1>1, TransportStart, TransportStep, PTL DEF TransportSpec

(***************************************************************************)
(* No pause overtakes the resume before it: a delivery begins when the     *)
(* last of its category has ended or is at its timeout; in no window does  *)
(* the dashboard get more presses of prev than bucket and spacing allow,   *)
(* and a fast double tap gets there as two (music-do.js:100-146, 490-570). *)
(***************************************************************************)
THEOREM InlineHolds == TransportSpec => [](NoOvertaking /\ PrevIsPaced /\ FastDoubleTapReaches)
<1>1. TransportShape => NoOvertaking /\ PrevIsPaced /\ FastDoubleTapReaches
  BY Paced DEF TransportShape
<1> QED BY <1>1, TransportStart, TransportStep, PTL DEF TransportSpec

-----------------------------------------------------------------------------
(***************************************************************************)
(* The object as it is checked: a behaviour runs one part, and the others  *)
(* stand still.                                                            *)
(***************************************************************************)
ObjectShape == QueueShape /\ EnqueuesKept /\ LatestPickKept /\ Counted /\ GateShape /\ TransportShape

LEMMA ObjectStart == MusicInit => ObjectShape
<1>1. Init => DOMAIN queue = {} /\ EnqueuesKept
  <2>1. Init => Placed(<<>>, queue, line) /\ DOMAIN queue = {}
    BY EmptySeq DEF Init, Placed
  <2> QED BY <2>1, KeptIsPlaced
<1>2. Init => LatestPickKept /\ Counted
  BY <1>1 DEF Init, LatestPickKept, SlotOf, Counted
<1> QED BY <1>1, <1>2, QueueInit, GateStart, TransportStart DEF MusicInit, ObjectShape

LEMMA ObjectStep == ASSUME ObjectShape, [MusicNext]_musicVars PROVE ObjectShape'
<1>1. [Next]_vars /\ [GateNext]_gateVars /\ [TransportNext]_transportVars
  BY DEF MusicNext, musicVars, Queue, Demand, Inline
<1> QED BY <1>1, QueueNext, KeptNext, PickNext, CountedNext, GateStep, TransportStep DEF ObjectShape

THEOREM MusicTyped == MusicSpec => []MusicTypesOK
<1>1. ObjectShape => MusicTypesOK
  BY DEF ObjectShape, QueueShape, GateShape, TransportShape, MusicTypesOK
<1> QED BY <1>1, ObjectStart, ObjectStep, PTL DEF MusicSpec

(***************************************************************************)
(* No accepted command is lost, overtaken or brought back by one that came *)
(* during a delivery, or delivered without end; of those that are not      *)
(* queued none overtakes another, and prev's gesture arrives               *)
(* (music-do.js:490-570, 794-858).                                         *)
(***************************************************************************)
THEOREM CommandsAreKept == MusicSpec => []CommandsKept
<1>1. ObjectShape => CommandsKept
  BY CountedBounds, Paced DEF ObjectShape, TransportShape, CommandsKept
<1> QED BY <1>1, ObjectStart, ObjectStep, PTL DEF MusicSpec

=============================================================================

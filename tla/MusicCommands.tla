----------------------------- MODULE MusicCommands -----------------------------
(***************************************************************************)
(* The command queue of the music remote's Durable Object                  *)
(* (music-worker/src/music-do.js): play picks share one debounced slot     *)
(* (latest wins), enqueues are a FIFO, and an alarm drains one eligible    *)
(* command per wake to the dashboard.  The alarm is shared with the        *)
(* upstream heartbeat, seen here only as demand being positive or not.     *)
(*                                                                         *)
(* Every request handler ends before its next await of something that is   *)
(* not storage, so it is one step.  The alarm handler awaits twice, the    *)
(* upstream (AlarmFires to DrainSelect) and the delivery (DrainSelect to   *)
(* DrainFinish), and requests come in meanwhile.                           *)
(*                                                                         *)
(* A time stamp is kept as the ticks left until it matters, down to 0; the *)
(* maxima and minima of commandEligibleAt commute with that.               *)
(***************************************************************************)
EXTENDS Integers, Sequences, SequencesExt

CONSTANTS
    Plays,              \* play and playlist-play requests: pickId and target
    Enqueues,           \* enqueue requests
    CooldownPlay,       \* COOLDOWN_MS.play, in ticks
    CooldownEnqueue,    \* COOLDOWN_MS.enqueue
    SettleTime,         \* PLAY_DEBOUNCE_SETTLE_MS
    MaxDefer,           \* PLAY_MAX_DEFER_MS
    Heartbeat,          \* UPSTREAM_ALARM_INTERVAL_MS
    MaxQueue,           \* MAX_QUEUE
    MaxAttempts,        \* MAX_DELIVERY_ATTEMPTS
    MaxRestarts         \* bound on restarts of the object

ASSUME MusicConstants ==
    /\ Plays \cap Enqueues = {} /\ "none" \notin Plays
    /\ {CooldownPlay, CooldownEnqueue, SettleTime, MaxDefer, MaxRestarts} \subseteq Nat
    /\ {Heartbeat, MaxQueue, MaxAttempts} \subseteq Nat \ {0}

VARIABLES
    queue,      \* storage key cmdQueue: Seq of commands
    cooldown,   \* [Categories -> ticks until lastExec + COOLDOWN_MS]
    demand,     \* BOOLEAN, the persisted demand is positive
    alarm,      \* ticks until the alarm is due, or NoAlarm
    phase,      \* where the alarm handler is: "idle", "upstream" or "deliver"
    job,        \* the command and index drainOneEligible holds across its await
    \* History, read by the properties only:
    line,       \* Seq(Enqueues) accepted and without a verdict, oldest first
    pick,       \* the last play accepted and without a verdict, or NoPick
    tries,      \* [Requests -> deliveries begun for a request now in the queue]
    restarts    \* Nat

history == <<line, pick, tries>>
vars == <<queue, cooldown, demand, alarm, phase, job, history, restarts>>

Requests == Plays \cup Enqueues
Categories == {"play", "enqueue"}
Cooldown == [play |-> CooldownPlay, enqueue |-> CooldownEnqueue]
NoAlarm == -1
NoPick == "none"
Category(r) == IF r \in Plays THEN "play" ELSE "enqueue"

Commands == [req : Requests, settle : 0 .. SettleTime, cap : 0 .. MaxDefer,
             attempts : 0 .. MaxAttempts]
NoJob == [idx |-> 0]

Later(a, b) == IF a > b THEN a ELSE b
Sooner(a, b) == IF a < b THEN a ELSE b

-----------------------------------------------------------------------------
\* Mutant: a stream of picks is deferred as long as it lasts.
EligibleIn_NoCap(cmd, cool) ==
    LET floor == cool[Category(cmd.req)]
    IN  IF cmd.req \in Plays THEN Later(cmd.settle, floor) ELSE floor

\* commandEligibleAt, as the ticks to wait.
EligibleIn(cmd, cool) ==
    LET floor == cool[Category(cmd.req)]
    IN  IF cmd.req \in Plays
        THEN Later(floor, Sooner(Later(cmd.settle, floor), cmd.cap))
        ELSE floor

\* Mutant: the alarm waits for the head of the queue.
DrainIn_HeadOnly(q, cool) == IF q = <<>> THEN NoAlarm ELSE EligibleIn(q[1], cool)

\* When the drain is next due: the earliest element, not the first.
DrainIn(q, cool) ==
    IF q = <<>> THEN NoAlarm
    ELSE CHOOSE w \in {EligibleIn(q[i], cool) : i \in DOMAIN q} :
           \A i \in DOMAIN q : w <= EligibleIn(q[i], cool)

(***************************************************************************)
(* reconcileAlarm: the earlier of the heartbeat and the drain.  With       *)
(* neither the alarm is deleted, unless armOnly (the constructor).         *)
(***************************************************************************)
Due(d, q, cool) ==
    LET drain == DrainIn(q, cool)
    IN  IF ~d THEN drain ELSE IF drain = NoAlarm THEN Heartbeat ELSE Sooner(Heartbeat, drain)

ReconcileAlarm(d, q, cool) == alarm' = Due(d, q, cool)

Init ==
    /\ queue = <<>>
    /\ cooldown = [k \in Categories |-> 0]
    /\ demand = FALSE
    /\ alarm = NoAlarm
    /\ phase = "idle"
    /\ job = NoJob
    /\ line = <<>>
    /\ pick = NoPick
    /\ tries = [r \in Requests |-> 0]
    /\ restarts = 0

-----------------------------------------------------------------------------
\* A request stands for one use of a button at a time: its id is free again
\* once nothing in the object refers to it.
Free(r) ==
    /\ \A i \in DOMAIN queue : queue[i].req # r
    /\ phase = "deliver" => job.cmd.req # r

\* The history of a request ends when it leaves the queue.
TriesIn(q) == [r \in Requests |-> IF \E i \in DOMAIN q : q[i].req = r THEN tries[r] ELSE 0]

SlotOf(q) == {i \in DOMAIN q : q[i].req \in Plays}
NewPick(r) == [req |-> r, settle |-> SettleTime, cap |-> MaxDefer, attempts |-> 0]

\* enqueueLatestWins: the pick replaces the slot's target in place, keeping
\* firstAt, or opens the slot.
PickPlay(r) ==
    /\ Free(r)
    /\ queue' = IF SlotOf(queue) = {} THEN Append(queue, NewPick(r))
                ELSE [i \in DOMAIN queue |->
                        IF i \in SlotOf(queue) THEN [NewPick(r) EXCEPT !.cap = queue[i].cap]
                        ELSE queue[i]]
    /\ ReconcileAlarm(demand, queue', cooldown)
    /\ pick' = r
    /\ tries' = TriesIn(queue')
    /\ UNCHANGED <<cooldown, demand, phase, job, line, restarts>>

\* enqueueCommand: append, unless the backstop refuses.
Enqueue(r) ==
    /\ Free(r)
    /\ Len(queue) < MaxQueue
    /\ queue' = Append(queue, [req |-> r, settle |-> 0, cap |-> 0, attempts |-> 0])
    /\ ReconcileAlarm(demand, queue', cooldown)
    /\ line' = Append(line, r)
    /\ UNCHANGED <<cooldown, demand, phase, job, pick, tries, restarts>>

(***************************************************************************)
(* recomputeDemandAndReconcile.  With subscribers left it awaits the       *)
(* upstream between persisting the demand and setting the alarm.           *)
(***************************************************************************)
SubscriberCounted ==
    /\ demand' = TRUE
    /\ UNCHANGED <<queue, cooldown, alarm, phase, job, history, restarts>>

SubscriberServed ==
    /\ ReconcileAlarm(demand, queue, cooldown)
    /\ UNCHANGED <<queue, cooldown, demand, phase, job, history, restarts>>

\* Mutant: the last one to leave deletes the alarm it shares with the drain.
LastSubscriberLeaves_DeletesAlarm ==
    /\ demand' = FALSE
    /\ alarm' = NoAlarm
    /\ UNCHANGED <<queue, cooldown, phase, job, history, restarts>>

LastSubscriberLeaves ==
    /\ demand' = FALSE
    /\ ReconcileAlarm(FALSE, queue, cooldown)
    /\ UNCHANGED <<queue, cooldown, phase, job, history, restarts>>

-----------------------------------------------------------------------------
(***************************************************************************)
(* alarm(): the upstream first, then drainOneEligible, then re-arm.        *)
(***************************************************************************)
AlarmFires ==
    /\ alarm = 0 /\ phase = "idle"
    /\ alarm' = NoAlarm
    /\ phase' = "upstream"
    /\ UNCHANGED <<queue, cooldown, demand, job, history, restarts>>

\* firstEligibleIndex, or 0 where the code has -1.
Eligible(i) == EligibleIn(queue[i], cooldown) = 0

\* Mutant: the queue is scanned from its tail.
FirstEligible_FromTail ==
    IF \E i \in DOMAIN queue : Eligible(i)
    THEN CHOOSE i \in DOMAIN queue : Eligible(i) /\ \A j \in i + 1 .. Len(queue) : ~Eligible(j)
    ELSE 0

FirstEligible ==
    IF \E i \in DOMAIN queue : Eligible(i)
    THEN CHOOSE i \in DOMAIN queue : Eligible(i) /\ \A j \in 1 .. i - 1 : ~Eligible(j)
    ELSE 0

DrainNothing ==
    /\ phase = "upstream" /\ FirstEligible = 0
    /\ phase' = "idle"
    /\ ReconcileAlarm(demand, queue, cooldown)
    /\ UNCHANGED <<queue, cooldown, demand, job, history, restarts>>

DrainSelect ==
    /\ phase = "upstream" /\ FirstEligible # 0
    /\ job' = [idx |-> FirstEligible, cmd |-> queue[FirstEligible]]
    /\ phase' = "deliver"
    /\ tries' = [tries EXCEPT ![queue[FirstEligible].req] = @ + 1]
    /\ UNCHANGED <<queue, cooldown, demand, alarm, line, pick, restarts>>

\* Identity of what was delivered and what the queue, read anew, holds there.
\* pickId is undefined for both of two enqueues.
StillThere ==
    /\ job.idx \in DOMAIN queue
    /\ LET fresh == queue[job.idx].req
       IN  /\ Category(fresh) = Category(job.cmd.req)
           /\ fresh \in Plays => fresh = job.cmd.req

\* The verdict on the delivered request, as its sender sees it.
Verdict ==
    /\ line' = IF line # <<>> /\ Head(line) = job.cmd.req THEN Tail(line) ELSE line
    /\ pick' = IF pick = job.cmd.req THEN NoPick ELSE pick

Resume(q, cool) ==
    /\ queue' = q
    /\ cooldown' = cool
    /\ phase' = "idle"
    /\ job' = NoJob
    /\ ReconcileAlarm(demand, q, cool)
    /\ tries' = TriesIn(q)
    /\ UNCHANGED <<demand, restarts>>

StampExec == [cooldown EXCEPT ![Category(job.cmd.req)] = Cooldown[Category(job.cmd.req)]]

\* Mutant: the index is removed whatever it holds by now.
Drained_Blind ==
    /\ phase = "deliver"
    /\ Resume(RemoveAt(queue, job.idx), StampExec)
    /\ Verdict

\* Delivered, rejected for good, no dashboard, or given up.
Drained ==
    /\ phase = "deliver"
    /\ Resume(IF StillThere THEN RemoveAt(queue, job.idx) ELSE queue, StampExec)
    /\ Verdict

\* Mutant: the failed attempt is not counted.
RetryLater_NotCounted ==
    /\ phase = "deliver"
    /\ job.cmd.attempts + 1 < MaxAttempts
    /\ Resume(queue, cooldown)
    /\ UNCHANGED <<line, pick>>

\* Mutant: a command that keeps failing is never given up.
RetryLater_NoGiveUp ==
    /\ phase = "deliver"
    /\ Resume(IF StillThere
              THEN [queue EXCEPT ![job.idx].attempts = job.cmd.attempts + 1] ELSE queue,
              cooldown)
    /\ UNCHANGED <<line, pick>>

\* A 5xx answer, a rejected fetch or a timeout, with an attempt left: the
\* command stays for an immediate retry; a superseded pick is abandoned.
RetryLater ==
    /\ phase = "deliver"
    /\ job.cmd.attempts + 1 < MaxAttempts
    /\ Resume(IF StillThere
              THEN [queue EXCEPT ![job.idx].attempts = job.cmd.attempts + 1] ELSE queue,
              cooldown)
    /\ UNCHANGED <<line, pick>>

\* The isolate is evicted or replaced, an alarm handler in it dies with it and
\* is run again, and the constructor re-arms without ever deleting.
Restart ==
    /\ restarts < MaxRestarts
    /\ restarts' = restarts + 1
    /\ phase' = "idle"
    /\ job' = NoJob
    /\ LET due == Due(demand, queue, cooldown)
       IN  alarm' = IF due # NoAlarm THEN due
                    ELSE IF phase # "idle" /\ alarm = NoAlarm THEN 0 ELSE alarm
    /\ UNCHANGED <<queue, cooldown, demand, history>>

Tick ==
    LET Down(n) == IF n > 0 THEN n - 1 ELSE n
    IN  /\ queue' = [i \in DOMAIN queue |->
                       [queue[i] EXCEPT !.settle = Down(@), !.cap = Down(@)]]
        /\ cooldown' = [k \in Categories |-> Down(cooldown[k])]
        /\ alarm' = Down(alarm)
        /\ UNCHANGED <<demand, phase, job, history, restarts>>

Next ==
    \/ \E r \in Plays : PickPlay(r)
    \/ \E r \in Enqueues : Enqueue(r)
    \/ SubscriberCounted \/ SubscriberServed \/ LastSubscriberLeaves
    \/ AlarmFires \/ DrainNothing \/ DrainSelect \/ Drained \/ RetryLater
    \/ Restart
    \/ Tick

(***************************************************************************)
(* A due alarm runs, both of its awaits are bounded by a timeout, and time *)
(* passes.  No request ever has to come, and the dashboard may always fail.*)
(***************************************************************************)
Fairness ==
    /\ WF_vars(Tick)
    /\ WF_vars(AlarmFires)
    /\ WF_vars(DrainNothing \/ DrainSelect)
    /\ WF_vars(Drained \/ RetryLater)

Spec == Init /\ [][Next]_vars
FairSpec == Spec /\ Fairness

-----------------------------------------------------------------------------
TypeOK ==
    /\ queue \in Seq(Commands) /\ Len(queue) <= MaxQueue + 1
    /\ cooldown \in [Categories -> 0 .. Later(CooldownPlay, CooldownEnqueue)]
    /\ demand \in BOOLEAN
    /\ alarm \in Nat \cup {NoAlarm}
    /\ phase \in {"idle", "upstream", "deliver"}
    /\ job \in [idx : {0}] \cup [idx : 1 .. MaxQueue + 1, cmd : Commands]
    /\ line \in Seq(Enqueues)
    /\ pick \in Plays \cup {NoPick}
    /\ tries \in [Requests -> Nat]
    /\ restarts \in 0 .. MaxRestarts

(***************************************************************************)
(* Every accepted enqueue stays in the queue, in the order accepted, until *)
(* it has its verdict, although the drain removes by an index it read      *)
(* before the delivery and picks overtake (music-do.js:816-830).           *)
(***************************************************************************)
EnqueuesKept ==
    \E at \in [DOMAIN line -> DOMAIN queue] :
      /\ \A k \in DOMAIN line : queue[at[k]].req = line[k]
      /\ \A k, l \in DOMAIN line : k < l => at[k] < at[l]
      /\ \A i \in DOMAIN queue : queue[i].req \in Enqueues => \E k \in DOMAIN line : at[k] = i

(***************************************************************************)
(* The slot holds the latest pick until that pick has its verdict, also    *)
(* when it arrived while an older one was being delivered, and no older    *)
(* one comes back (music-do.js:662-667).                                   *)
(***************************************************************************)
LatestPickKept ==
    /\ pick = NoPick => SlotOf(queue) = {}
    /\ pick # NoPick => \E i \in DOMAIN queue : SlotOf(queue) = {i} /\ queue[i].req = pick

(***************************************************************************)
(* A command is delivered at most twice, plus once per restart.            *)
(***************************************************************************)
AttemptsBounded == \A r \in Requests : tries[r] <= MaxAttempts + restarts

(***************************************************************************)
(* Between wakes the alarm is never later than the first moment a queued   *)
(* command is eligible, whoever set it last (music-do.js:411-437).         *)
(***************************************************************************)
WakesInTime ==
    phase = "idle" /\ queue # <<>> =>
      /\ alarm # NoAlarm
      /\ \A i \in DOMAIN queue : alarm <= EligibleIn(queue[i], cooldown)

(***************************************************************************)
(* A stream of picks cannot put off the slot's delivery for ever           *)
(* (PLAY_MAX_DEFER_MS, music-do.js:132-134).                               *)
(***************************************************************************)
PickWaits == SlotOf(queue) # {}
DeliversAPick == phase = "deliver" /\ job.cmd.req \in Plays
PickLands == PickWaits ~> DeliversAPick

(***************************************************************************)
(* Every enqueue has its verdict in the end unless picks go on for ever: a *)
(* failed pick starts no cooldown, and the pick that replaces it keeps its *)
(* place in the queue with its deferral already used up.                   *)
(***************************************************************************)
SomePick == \E r \in Plays : PickPlay(r)
Lands(r) == (r \in ToSet(line) ~> r \notin ToSet(line)) \/ []<><<SomePick>>_vars
EnqueueLands == \A r \in Enqueues : Lands(r)
=============================================================================

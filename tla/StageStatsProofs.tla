---------------------------- MODULE StageStatsProofs ----------------------------
(***************************************************************************)
(* The log of stage moves: for every pipeline, any candidates, moves,      *)
(* webhooks and sweeps at once, and whatever RF fails or cuts.             *)
(*                                                                         *)
(* The argument for the waterline.  A sweep that ends well moves it to the *)
(* instant it began.  Before its own window everything was safe when it    *)
(* began, since an earlier waterline had passed it.  What is inside and    *)
(* older than the overlap was shown by RF's index when the sweep searched: *)
(* its candidate was found, and either gated out, which tells that it had  *)
(* been taken back, or kept in hand until the row was written.             *)
(* Then the push, the lists, the backfill, the walks and the weeks, each   *)
(* with the argument that stands before it, and all of them together.      *)
(***************************************************************************)
EXTENDS MCStageStats, SequenceTheorems, FiniteSetTheorems, WellFoundedInduction, TLAPS

\* A move as RF lists it.
Rec == [at : Nat, from : LadderStages \cup {Pipeline[1]}, to : LadderStages,
        mover : Movers \cup {Nobody}]

\* A candidate's moves follow one another, in time and from stage to stage.
Chained(c) ==
    /\ \A i \in DOMAIN moves[c] : moves[c][i].at <= now /\ moves[c][i].to # moves[c][i].from
    /\ \A i, j \in DOMAIN moves[c] : i < j => moves[c][i].at < moves[c][j].at
    /\ \A i \in DOMAIN moves[c] : i > 1 => moves[c][i].from = moves[c][i - 1].to

\* What the index does not show yet is no older than its lag.
Lagging(c) ==
    visible[c] < Len(moves[c]) => moves[c][visible[c] + 1].at + Lag >= now

RFInv ==
    /\ now \in Nat
    /\ moves \in [Candidates -> Seq(Rec)]
    /\ visible \in [Candidates -> Nat]
    /\ \A c \in Candidates :
         /\ visible[c] <= Len(moves[c]) /\ Len(moves[c]) <= MaxMoves
         /\ Chained(c) /\ Lagging(c)

Fetched == {NoRows} \cup [c : Candidates,
                          movers : UNION {[D -> Movers \cup {Nobody}] : D \in SUBSET (1 .. MaxMoves)}]
Jobs == [after : Int, before : Nat, targets : SUBSET Candidates, failed : BOOLEAN, got : Fetched]

JobTypes ==
    /\ pc \in [Processes -> {"idle", "search", "fetch", "write"}]
    /\ job \in [Processes -> Jobs]
    /\ \A p \in Processes :
         /\ job[p].after <= job[p].before /\ job[p].before <= now
         /\ pc[p] # "write" => job[p].got = NoRows

LogTypes ==
    /\ stored \in [Candidates -> [1 .. MaxMoves -> Movers \cup {Nobody, Absent}]]
    /\ waterline \in {NoWaterline} \cup Nat /\ waterline <= now

Shape == RFInv /\ JobTypes /\ LogTypes

-----------------------------------------------------------------------------
LEMMA SeqFacts ==
  ASSUME NEW s \in Seq(Rec)
  PROVE  /\ Len(s) \in Nat /\ DOMAIN s = 1 .. Len(s) /\ \A i \in DOMAIN s : s[i] \in Rec /\ i \in Nat
  OBVIOUS

(* RF appends a move. *)
LEMMA MoveKeepsRF ==
  ASSUME RFInv, NEW c \in Candidates, NEW to \in LadderStages, NEW m \in Movers \cup {Nobody},
         Move(c, to, m)
  PROVE  RFInv'
<1> DEFINE n == Len(moves[c])
           rec == [at |-> now, from |-> StageAfter(c, n), to |-> to, mover |-> m]
<1>1. /\ now \in Nat /\ n \in Nat /\ n < MaxMoves /\ moves' = [moves EXCEPT ![c] = Append(@, rec)]
      /\ n > 0 => moves[c][n].at < now
      /\ to # StageAfter(c, n) /\ UNCHANGED <<now, visible>>
  BY DEF Move, RFInv
<1>2. moves[c] \in Seq(Rec) /\ DOMAIN moves[c] = 1 .. n
  BY DEF RFInv
<1>3. StageAfter(c, n) \in LadderStages \cup {Pipeline[1]}
  <2>1. n > 0 => moves[c][n] \in Rec
    BY <1>1, <1>2
  <2>2. n > 0 => moves[c][n].to \in LadderStages
    BY <2>1 DEF Rec
  <2> QED BY <1>1, <2>2 DEF StageAfter
<1>4. rec \in Rec
  BY <1>1, <1>3 DEF Rec
<1>5. /\ moves'[c] \in Seq(Rec) /\ Len(moves'[c]) = n + 1 /\ DOMAIN moves'[c] = 1 .. (n + 1)
      /\ moves'[c][n + 1] = rec /\ \A i \in 1 .. n : moves'[c][i] = moves[c][i]
  <2>1. moves'[c] = Append(moves[c], rec)
    BY <1>1 DEF RFInv
  <2> HIDE DEF rec, n
  <2>2. /\ Append(moves[c], rec) \in Seq(Rec) /\ Len(Append(moves[c], rec)) = n + 1
        /\ \A i \in 1 .. n : Append(moves[c], rec)[i] = moves[c][i]
        /\ Append(moves[c], rec)[n + 1] = rec
    BY <1>2, <1>4, AppendProperties DEF n
  <2> QED BY <1>1, <2>1, <2>2
<1>6. \A d \in Candidates : d # c => moves'[d] = moves[d]
  BY <1>1 DEF RFInv
<1>7. moves' \in [Candidates -> Seq(Rec)]
  BY <1>1, <1>5, <1>6 DEF RFInv
<1>8. Chained(c)'
  <2>1. Chained(c)
    BY DEF RFInv
  <2>2. \A i \in 1 .. (n + 1) : moves'[c][i].at <= now /\ moves'[c][i].to # moves'[c][i].from
    BY <1>1, <1>2, <1>5, <2>1 DEF Chained
  <2>3. \A i \in 1 .. n : moves[c][i].at < now
    <3> SUFFICES ASSUME NEW i \in 1 .. n PROVE moves[c][i].at < now
      OBVIOUS
    <3>1. moves[c][i].at \in Nat /\ moves[c][n].at \in Nat
      <4>1. moves[c][i] \in Rec /\ moves[c][n] \in Rec
        BY <1>1, <1>2
      <4> QED BY <4>1 DEF Rec
    <3>2. i < n => moves[c][i].at < moves[c][n].at
      BY <1>1, <1>2, <2>1 DEF Chained
    <3> QED BY <1>1, <3>1, <3>2
  <2>4. \A i, j \in 1 .. (n + 1) : i < j => moves'[c][i].at < moves'[c][j].at
    BY <1>1, <1>2, <1>5, <2>1, <2>3 DEF Chained
  <2>5. \A i \in 1 .. (n + 1) : i > 1 => moves'[c][i].from = moves'[c][i - 1].to
    <3> SUFFICES ASSUME NEW i \in 1 .. (n + 1), i > 1
                 PROVE  moves'[c][i].from = moves'[c][i - 1].to
      OBVIOUS
    <3>1. i - 1 \in 1 .. n /\ moves'[c][i - 1] = moves[c][i - 1]
      BY <1>1, <1>5
    <3>2. CASE i = n + 1
      BY <1>1, <1>5, <3>1, <3>2 DEF StageAfter
    <3>3. CASE i # n + 1
      BY <1>1, <1>2, <1>5, <2>1, <3>1, <3>3 DEF Chained
    <3> QED BY <3>2, <3>3
  <2> QED BY <1>1, <1>5, <2>2, <2>4, <2>5 DEF Chained
<1>9. Lagging(c)'
  <2>1. CASE visible[c] < n
    BY <1>1, <1>5, <2>1 DEF Lagging, RFInv
  <2>2. CASE visible[c] = n
    BY <1>1, <1>5, <2>2, StageConstants DEF Lagging
  <2> QED BY <1>1, <2>1, <2>2 DEF RFInv
<1>10. \A d \in Candidates : d # c => Chained(d)' /\ Lagging(d)'
  BY <1>1, <1>6 DEF Chained, Lagging, RFInv
<1>11. \A d \in Candidates : visible'[d] <= Len(moves'[d]) /\ Len(moves'[d]) <= MaxMoves
  <2>1. visible[c] <= n + 1 /\ n + 1 <= MaxMoves
    BY <1>1, StageConstants DEF RFInv
  <2> QED BY <1>1, <1>5, <1>6, <2>1 DEF RFInv
<1> QED BY <1>1, <1>7, <1>8, <1>9, <1>10, <1>11 DEF RFInv

(* RF learns who made a move. *)
LEMMA AttributeKeepsRF ==
  ASSUME RFInv, NEW c \in Candidates, NEW i \in DOMAIN moves[c], NEW m \in Movers, Attribute(c, i, m)
  PROVE  /\ RFInv'
         /\ \A d \in Candidates :
              /\ DOMAIN moves'[d] = DOMAIN moves[d]
              /\ \A j \in DOMAIN moves[d] : /\ moves'[d][j].at = moves[d][j].at
                                            /\ moves'[d][j].from = moves[d][j].from
                                            /\ moves'[d][j].to = moves[d][j].to
<1> DEFINE rec == [moves[c][i] EXCEPT !.mover = m]
<1>1. /\ moves' = [moves EXCEPT ![c] = [moves[c] EXCEPT ![i] = rec]]
      /\ UNCHANGED <<now, visible>>
  BY DEF Attribute
<1>2. moves[c] \in Seq(Rec) /\ moves[c][i] \in Rec
  BY DEF RFInv
<1>3. /\ rec \in Rec /\ rec.at = moves[c][i].at /\ rec.from = moves[c][i].from
      /\ rec.to = moves[c][i].to
  BY <1>2 DEF Rec
<1> HIDE DEF rec
<1>4. /\ moves'[c] \in Seq(Rec) /\ Len(moves'[c]) = Len(moves[c]) /\ moves'[c][i] = rec
      /\ DOMAIN moves'[c] = DOMAIN moves[c]
      /\ \A j \in DOMAIN moves[c] : j # i => moves'[c][j] = moves[c][j]
  <2>1. moves'[c] = [moves[c] EXCEPT ![i] = rec]
    BY <1>1 DEF RFInv
  <2> QED BY <1>2, <1>3, <2>1, ExceptSeq
<1>5. \A d \in Candidates : d # c => moves'[d] = moves[d]
  BY <1>1 DEF RFInv
<1>6. \A d \in Candidates :
        /\ DOMAIN moves'[d] = DOMAIN moves[d] /\ Len(moves'[d]) = Len(moves[d])
        /\ \A j \in DOMAIN moves[d] : /\ moves'[d][j].at = moves[d][j].at
                                      /\ moves'[d][j].from = moves[d][j].from
                                      /\ moves'[d][j].to = moves[d][j].to
  BY <1>3, <1>4, <1>5
<1>7. moves' \in [Candidates -> Seq(Rec)]
  BY <1>1, <1>4, <1>5 DEF RFInv
<1>8. ASSUME NEW d \in Candidates PROVE Chained(d)' /\ Lagging(d)'
  <2>1. DOMAIN moves[d] = 1 .. Len(moves[d]) /\ Len(moves[d]) \in Nat /\ visible[d] \in Nat
    BY SeqFacts DEF RFInv
  <2>2. Chained(d)'
    <3>1. Chained(d)
      BY DEF RFInv
    <3>2. \A j \in DOMAIN moves[d] : j > 1 => j - 1 \in DOMAIN moves[d]
      BY <2>1
    <3> QED BY <1>1, <1>6, <3>1, <3>2 DEF Chained
  <2>3. Lagging(d)'
    BY <1>1, <1>6, <2>1 DEF Lagging, RFInv
  <2> QED BY <2>2, <2>3
<1> QED BY <1>1, <1>6, <1>7, <1>8 DEF RFInv

\* Moves are added, now, and what they say of the stages stays.
Grown ==
    /\ now <= now'
    /\ \A c \in Candidates :
         /\ \A j \in DOMAIN moves[c] :
              /\ j \in DOMAIN moves'[c]
              /\ moves'[c][j].at = moves[c][j].at
              /\ moves'[c][j].from = moves[c][j].from /\ moves'[c][j].to = moves[c][j].to
         /\ \A j \in DOMAIN moves'[c] : j \notin DOMAIN moves[c] => moves'[c][j].at = now

(* Whatever happens, RF's list stays a list of moves. *)
LEMMA RFKept == RFInv /\ [Next]_vars => RFInv' /\ Grown
<1> SUFFICES ASSUME RFInv, [Next]_vars PROVE RFInv' /\ Grown
  OBVIOUS
<1>1. ASSUME NEW c \in Candidates, NEW to \in LadderStages, NEW m \in Movers \cup {Nobody},
             Move(c, to, m)
      PROVE  RFInv' /\ Grown
  <2> DEFINE n == Len(moves[c])
             rec == [at |-> now, from |-> StageAfter(c, n), to |-> to, mover |-> m]
  <2>1. RFInv'
    BY <1>1, MoveKeepsRF
  <2>2. moves' = [moves EXCEPT ![c] = Append(@, rec)] /\ now' = now
    BY <1>1 DEF Move
  <2>3. moves[c] \in Seq(Rec) /\ n \in Nat /\ DOMAIN moves[c] = 1 .. n
    BY DEF RFInv
  <2>4. /\ DOMAIN moves'[c] = 1 .. (n + 1) /\ moves'[c][n + 1].at = now
        /\ \A i \in 1 .. n : moves'[c][i] = moves[c][i]
    <3>1. moves'[c] = Append(moves[c], rec)
      BY <2>2 DEF RFInv
    <3>2. rec.at = now
      OBVIOUS
    <3> HIDE DEF rec
    <3> QED BY <2>3, <3>1, <3>2
  <2>5. \A d \in Candidates : d # c => moves'[d] = moves[d]
    BY <2>2 DEF RFInv
  <2>6. Grown
    BY <2>2, <2>3, <2>4, <2>5 DEF Grown, RFInv
  <2> QED BY <2>1, <2>6
<1>2. ASSUME NEW c \in Candidates, NEW i \in DOMAIN moves[c], NEW m \in Movers, Attribute(c, i, m)
      PROVE  RFInv' /\ Grown
  <2>1. now' = now
    BY <1>2 DEF Attribute
  <2> QED BY <1>2, <2>1, AttributeKeepsRF DEF Grown, RFInv
<1>3. ASSUME NEW c \in Candidates, IndexCatchesUp(c) PROVE RFInv' /\ Grown
  <2>1. /\ UNCHANGED <<now, moves>> /\ visible' = [visible EXCEPT ![c] = Len(moves[c])]
        /\ Len(moves[c]) \in Nat
    BY <1>3, SeqFacts DEF IndexCatchesUp, RFInv
  <2>2. \A d \in Candidates : visible'[d] = IF d = c THEN Len(moves[c]) ELSE visible[d]
    BY <2>1 DEF RFInv
  <2>3. \A d \in Candidates : Chained(d)' /\ Lagging(d)'
    BY <2>1, <2>2 DEF RFInv, Chained, Lagging
  <2>4. visible' \in [Candidates -> Nat] /\ \A d \in Candidates : visible'[d] <= Len(moves[d])
    BY <2>1, <2>2 DEF RFInv
  <2> QED BY <2>1, <2>3, <2>4 DEF RFInv, Grown
<1>4. CASE Tick
  <2>1. now' = now + 1 /\ UNCHANGED <<moves, visible>> /\ now \in Nat
    BY <1>4 DEF Tick, rf, RFInv
  <2>2. ASSUME NEW d \in Candidates PROVE Chained(d)'
    <3>1. \A i \in DOMAIN moves[d] : moves[d][i].at \in Nat
      <4>1. \A i \in DOMAIN moves[d] : moves[d][i] \in Rec
        BY SeqFacts DEF RFInv
      <4> QED BY <4>1 DEF Rec
    <3> QED BY <2>1, <3>1 DEF RFInv, Chained
  <2>3. ASSUME NEW d \in Candidates PROVE Lagging(d)'
    <3> SUFFICES ASSUME visible[d] < Len(moves[d])
                 PROVE  moves[d][visible[d] + 1].at + Lag >= now + 1
      BY <2>1 DEF Lagging
    <3>1. visible[d] + 1 \in DOMAIN moves[d] /\ moves[d][visible[d] + 1] \in Rec
      BY SeqFacts DEF RFInv
    <3>2. moves[d][visible[d] + 1].at \in Nat /\ Lag \in Nat
      BY <3>1, StageConstants DEF Rec
    <3>3. moves[d][visible[d] + 1].at + Lag > now
      BY <1>4 DEF Tick
    <3> QED BY <2>1, <3>2, <3>3
  <2> QED BY <2>1, <2>2, <2>3 DEF RFInv, Grown
<1>5. CASE UNCHANGED <<now, moves, visible>>
  BY <1>5 DEF RFInv, Chained, Lagging, Grown
<1>6. CASE Calms \/ UNCHANGED vars
  BY <1>5, <1>6 DEF Calms, vars, rf
<1>7. ASSUME NEW p \in Processes, HookStep(p) \/ SweepStep(p) PROVE UNCHANGED <<now, moves, visible>>
  BY <1>7 DEF HookStep, SweepStep, HookArrives, SweepStarts, SearchAnswers, SearchFails, Fetch,
              FetchFails, Upsert, HookEnds, SweepEnds, rf
<1> QED BY <1>1, <1>2, <1>3, <1>4, <1>5, <1>6, <1>7 DEF Next, Processes

-----------------------------------------------------------------------------
(* A row that is there stays, and keeps a mover it names. *)
LEMMA LogKept ==
  Shape /\ [Next]_vars =>
    /\ LogTypes'
    /\ \A c \in Candidates, i \in 1 .. MaxMoves :
         /\ stored[c][i] # Absent => stored'[c][i] # Absent
         /\ stored[c][i] \in Movers => stored'[c][i] \in Movers
<1> DEFINE Goal ==
      /\ LogTypes'
      /\ \A c \in Candidates, i \in 1 .. MaxMoves :
           /\ stored[c][i] # Absent => stored'[c][i] # Absent
           /\ stored[c][i] \in Movers => stored'[c][i] \in Movers
<1> SUFFICES ASSUME Shape, [Next]_vars PROVE Goal
  OBVIOUS
<1>0. now <= now' /\ now \in Nat /\ now' \in Nat
  BY RFKept DEF Shape, RFInv, Grown
<1>1. CASE UNCHANGED <<stored, waterline>>
  BY <1>0, <1>1 DEF Shape, LogTypes, NoWaterline
<1>2. ASSUME NEW p \in Processes, Upsert(p) PROVE Goal
  <2> DEFINE got == job[p].got
  <2>1. got \in Fetched
    BY DEF Shape, JobTypes, Jobs
  <2>2. \A i \in DOMAIN got.movers : got.movers[i] \in Movers \cup {Nobody}
    BY <2>1 DEF Fetched, NoRows
  <2>3. Absent \notin Movers /\ Absent # Nobody
    BY StageConstants DEF Absent, Nobody
  <2> DEFINE Row(c, i) == IF c = got.c /\ i \in DOMAIN got.movers
                          THEN Upserted(stored[c][i], got.movers[i]) ELSE stored[c][i]
  <2>4. \A c \in Candidates, i \in 1 .. MaxMoves : stored'[c][i] = Row(c, i)
    <3>1. stored' = [stored EXCEPT ![got.c] =
                        [i \in 1 .. MaxMoves |->
                           IF i \in DOMAIN got.movers THEN Upserted(stored[got.c][i], got.movers[i])
                           ELSE stored[got.c][i]]]
      BY <1>2 DEF Upsert
    <3> HIDE DEF got
    <3> QED BY <3>1 DEF Shape, LogTypes
  <2>5. stored' \in [Candidates -> [1 .. MaxMoves -> Movers \cup {Nobody, Absent}]]
    <3>1. \A c \in Candidates, i \in 1 .. MaxMoves : Row(c, i) \in Movers \cup {Nobody, Absent}
      BY <2>2 DEF Upserted, Shape, LogTypes
    <3>2. stored' = [stored EXCEPT ![got.c] =
                        [i \in 1 .. MaxMoves |->
                           IF i \in DOMAIN got.movers THEN Upserted(stored[got.c][i], got.movers[i])
                           ELSE stored[got.c][i]]]
      BY <1>2 DEF Upsert
    <3> HIDE DEF got
    <3>3. ASSUME NEW c \in Candidates
          PROVE  stored'[c] \in [1 .. MaxMoves -> Movers \cup {Nobody, Absent}]
      <4>1. CASE c = got.c
        <5>1. stored'[c] = [i \in 1 .. MaxMoves |-> Row(c, i)]
          BY <3>2, <4>1 DEF Shape, LogTypes
        <5> QED BY <3>1, <5>1
      <4>2. CASE c # got.c
        BY <3>2, <4>2 DEF Shape, LogTypes
      <4> QED BY <4>1, <4>2
    <3> QED BY <3>2, <3>3 DEF Shape, LogTypes
  <2>6. UNCHANGED <<waterline, now>>
    BY <1>2 DEF Upsert
  <2>7. ASSUME NEW c \in Candidates, NEW i \in 1 .. MaxMoves
        PROVE  /\ stored[c][i] # Absent => Row(c, i) # Absent
               /\ stored[c][i] \in Movers => Row(c, i) \in Movers
    BY <2>2, <2>3 DEF Upserted
  <2> QED BY <2>4, <2>5, <2>6, <2>7 DEF Shape, LogTypes
<1>3. ASSUME NEW p \in Processes, SweepEnds(p) PROVE Goal
  <2>1. UNCHANGED <<stored, now>> /\ waterline' \in {waterline, job[p].before}
    BY <1>3 DEF SweepEnds
  <2>2. job[p].before \in Nat /\ job[p].before <= now
    BY DEF Shape, JobTypes, Jobs
  <2> QED BY <2>1, <2>2 DEF Shape, LogTypes
<1>4. ASSUME NEW p \in Processes, HookStep(p) \/ SweepStep(p), ~Upsert(p), ~SweepEnds(p)
      PROVE  UNCHANGED <<stored, waterline>>
  BY <1>4 DEF HookStep, SweepStep, HookArrives, SweepStarts, SearchAnswers, SearchFails, Fetch,
              FetchFails, HookEnds
<1>5. ASSUME ~ \E p \in Processes : HookStep(p) \/ SweepStep(p)
      PROVE  UNCHANGED <<stored, waterline>>
  BY <1>5 DEF Next, Move, Attribute, IndexCatchesUp, Calms, Tick, vars, Processes
<1> QED BY <1>1, <1>2, <1>3, <1>4, <1>5

-----------------------------------------------------------------------------
\* What one process does to its own job.
Works(p) == HookStep(p) \/ SweepStep(p)

\* Whatever it does, the others keep theirs.
Alone(p) ==
    /\ \E v \in {"idle", "search", "fetch", "write"} : pc' = [pc EXCEPT ![p] = v]
    /\ \E j \in Jobs : job' = [job EXCEPT ![p] = j]

(* A process keeps its job well formed. *)
LEMMA JobKept ==
  ASSUME Shape, NEW p \in Processes, Works(p)
  PROVE  /\ Alone(p) /\ UNCHANGED now
         /\ job'[p].after <= job'[p].before /\ job'[p].before <= now
         /\ pc'[p] # "write" => job'[p].got = NoRows
<1> DEFINE Goal == /\ Alone(p) /\ UNCHANGED now
                   /\ job'[p].after <= job'[p].before /\ job'[p].before <= now
                   /\ pc'[p] # "write" => job'[p].got = NoRows
           old == job[p]
<1>0. /\ pc \in [Processes -> {"idle", "search", "fetch", "write"}]
      /\ job \in [Processes -> Jobs] /\ now \in Nat
      /\ old \in Jobs /\ old.after <= old.before /\ old.before <= now
      /\ pc[p] # "write" => old.got = NoRows
  BY DEF Shape, JobTypes, RFInv
<1>1. NoJob \in Jobs /\ NoRows \in Fetched
  BY DEF NoJob, Jobs, Fetched
\* It is enough to name the new place and the new job.
<1>2. ASSUME NEW v \in {"idle", "search", "fetch", "write"}, NEW j \in Jobs,
             pc' = [pc EXCEPT ![p] = v], job' = [job EXCEPT ![p] = j], UNCHANGED now,
             j.after <= j.before, j.before <= now, v # "write" => j.got = NoRows
      PROVE  Goal
  BY <1>0, <1>2 DEF Alone
<1>3. ASSUME NEW c \in Candidates, HookArrives(p, c) PROVE Goal
  <2> DEFINE j == [NoJob EXCEPT !.after = now - Lookback, !.before = now, !.targets = {c}]
  <2>0. now - Lookback \in Int /\ now - Lookback <= now
    BY <1>0, StageConstants
  <2>1. j \in Jobs /\ j.after = now - Lookback /\ j.before = now /\ j.got = NoRows
    BY <1>0, <1>1, <2>0 DEF Jobs, NoJob
  <2>2. pc' = [pc EXCEPT ![p] = "fetch"] /\ job' = [job EXCEPT ![p] = j] /\ UNCHANGED now
    BY <1>3 DEF HookArrives
  <2> HIDE DEF j
  <2>3. j.after <= j.before /\ j.before <= now
    BY <1>0, <2>0, <2>1
  <2> QED BY <1>2, <2>1, <2>2, <2>3
<1>4. CASE SweepStarts(p)
  <2> DEFINE j == [NoJob EXCEPT !.after = SweepFrom, !.before = now]
  <2>1. SweepFrom \in Int /\ SweepFrom <= now
    BY <1>0, StageConstants DEF SweepFrom, Shape, LogTypes, NoWaterline
  <2>2. j \in Jobs /\ j.after = SweepFrom /\ j.before = now /\ j.got = NoRows
    BY <1>0, <1>1, <2>1 DEF Jobs, NoJob
  <2>3. pc' = [pc EXCEPT ![p] = "search"] /\ job' = [job EXCEPT ![p] = j] /\ UNCHANGED now
    BY <1>4 DEF SweepStarts
  <2> HIDE DEF j
  <2>4. j.after <= j.before /\ j.before <= now
    BY <1>0, <2>1, <2>2
  <2> QED BY <1>2, <2>2, <2>3, <2>4
<1>5. CASE SearchAnswers(p)
  <2> PICK rows \in SUBSET Found(p) :
        job' = [job EXCEPT ![p].targets = {c \in rows : GatedIn(c)},
                           ![p].failed = (rows # Found(p))]
    BY <1>5 DEF SearchAnswers
  <2> DEFINE j == [old EXCEPT !.targets = {c \in rows : GatedIn(c)}, !.failed = (rows # Found(p))]
  <2>1. {c \in rows : GatedIn(c)} \in SUBSET Candidates
    BY DEF Found
  <2>2. j \in Jobs /\ j.after = old.after /\ j.before = old.before /\ j.got = old.got
    BY <1>0, <2>1 DEF Jobs
  <2>3. pc' = [pc EXCEPT ![p] = "fetch"] /\ job' = [job EXCEPT ![p] = j] /\ UNCHANGED now
        /\ pc[p] # "write"
    BY <1>0, <1>5 DEF SearchAnswers
  <2> HIDE DEF j
  <2> QED BY <1>0, <1>2, <2>2, <2>3
<1>6. CASE SearchFails(p) \/ HookEnds(p) \/ SweepEnds(p)
  <2>1. pc' = [pc EXCEPT ![p] = "idle"] /\ job' = [job EXCEPT ![p] = NoJob] /\ UNCHANGED now
    BY <1>6 DEF SearchFails, HookEnds, SweepEnds
  <2>2. NoJob.after <= NoJob.before /\ NoJob.before <= now /\ NoJob.got = NoRows
    BY <1>0 DEF NoJob
  <2> QED BY <1>1, <1>2, <2>1, <2>2
<1>7. ASSUME NEW c \in Candidates, Fetch(p, c) PROVE Goal
  <2> DEFINE got == [c |-> c, movers |-> [i \in InWindow(p, c) |-> moves[c][i].mover]]
             j == [old EXCEPT !.targets = @ \ {c}, !.got = got]
  <2>1. got \in Fetched
    <3>1. \A i \in DOMAIN moves[c] : i \in 1 .. MaxMoves /\ moves[c][i] \in Rec
      BY SeqFacts, StageConstants DEF Shape, RFInv
    <3>2. InWindow(p, c) \in SUBSET (1 .. MaxMoves)
      BY <3>1 DEF InWindow
    <3>3. \A i \in InWindow(p, c) : moves[c][i].mover \in Movers \cup {Nobody}
      BY <3>1 DEF InWindow, Rec
    <3>4. got.movers \in [InWindow(p, c) -> Movers \cup {Nobody}]
      BY <3>3
    <3> QED BY <3>2, <3>4 DEF Fetched
  <2> HIDE DEF got
  <2>2. j \in Jobs /\ j.after = old.after /\ j.before = old.before
    BY <1>0, <2>1 DEF Jobs
  <2>3. pc' = [pc EXCEPT ![p] = "write"] /\ job' = [job EXCEPT ![p] = j] /\ UNCHANGED now
    BY <1>0, <1>7 DEF Fetch, got
  <2> HIDE DEF j
  <2> QED BY <1>0, <1>2, <2>2, <2>3
<1>8. ASSUME NEW c \in Candidates, FetchFails(p, c) PROVE Goal
  <2> DEFINE failed == p \in Sweeps
             j == [old EXCEPT !.targets = @ \ {c}, !.failed = failed]
  <2>0. failed \in BOOLEAN
    OBVIOUS
  <2> HIDE DEF failed
  <2>1. j \in Jobs /\ j.after = old.after /\ j.before = old.before /\ j.got = old.got
    BY <1>0, <2>0 DEF Jobs
  <2>2. job' = [job EXCEPT ![p] = j] /\ UNCHANGED <<now, pc>> /\ pc[p] = "fetch"
    BY <1>0, <1>8 DEF FetchFails, failed
  <2> HIDE DEF j
  <2>3. pc' = [pc EXCEPT ![p] = "fetch"]
    BY <1>0, <2>2
  <2> QED BY <1>0, <1>2, <2>1, <2>2, <2>3
<1>9. CASE Upsert(p)
  <2> DEFINE j == [old EXCEPT !.got = NoRows]
  <2>1. j \in Jobs /\ j.after = old.after /\ j.before = old.before /\ j.got = NoRows
    BY <1>0, <1>1 DEF Jobs
  <2>2. pc' = [pc EXCEPT ![p] = "fetch"] /\ job' = [job EXCEPT ![p] = j] /\ UNCHANGED now
    BY <1>0, <1>9 DEF Upsert
  <2> HIDE DEF j
  <2> QED BY <1>0, <1>2, <2>1, <2>2
<1> QED BY <1>3, <1>4, <1>5, <1>6, <1>7, <1>8, <1>9 DEF Works, HookStep, SweepStep

(* Only a process touches a job. *)
LEMMA JobsKept == Shape /\ [Next]_vars => JobTypes'
<1> SUFFICES ASSUME Shape, [Next]_vars PROVE JobTypes'
  OBVIOUS
<1>0. now \in Nat /\ now' \in Nat /\ now <= now'
  BY RFKept DEF Shape, RFInv, Grown
<1>1. ASSUME NEW p \in Processes, Works(p) PROVE JobTypes'
  <2>1. /\ Alone(p) /\ UNCHANGED now
        /\ job'[p].after <= job'[p].before /\ job'[p].before <= now
        /\ pc'[p] # "write" => job'[p].got = NoRows
    BY <1>1, JobKept
  <2>2. \A q \in Processes : q # p => pc'[q] = pc[q] /\ job'[q] = job[q]
    BY <2>1 DEF Alone, Shape, JobTypes
  <2>3. pc' \in [Processes -> {"idle", "search", "fetch", "write"}] /\ job' \in [Processes -> Jobs]
    BY <2>1 DEF Alone, Shape, JobTypes
  <2> QED BY <2>1, <2>2, <2>3 DEF Shape, JobTypes
<1>2. ASSUME ~ \E p \in Processes : Works(p) PROVE UNCHANGED <<pc, job>>
  BY <1>2 DEF Next, Move, Attribute, IndexCatchesUp, Calms, Tick, vars, Works, Processes
<1>3. CASE UNCHANGED <<pc, job>>
  <2>1. \A p \in Processes : job[p].before \in Nat /\ job[p].before <= now
    BY DEF Shape, JobTypes, Jobs
  <2> QED BY <1>0, <1>3, <2>1 DEF Shape, JobTypes
<1> QED BY <1>1, <1>2, <1>3

-----------------------------------------------------------------------------
\* The i-th move of c is in the log, or was taken back.
Safe(c, i) == stored[c][i] # Absent \/ RevertedAfter(c, i)

\* Every crossing before x is.
Passed(x) ==
    \A c \in Candidates : \A i \in DOMAIN moves[c] :
        Crosses(c, i) /\ moves[c][i].at < x => Safe(c, i)

\* Every other crossing that the sweep's waterline would pass is, or the sweep
\* has it in hand.
InHand(p, c, i) ==
    \/ c \in job[p].targets
    \/ c = job[p].got.c /\ i \in DOMAIN job[p].got.movers
Ahead(p) ==
    \A c \in Candidates : \A i \in DOMAIN moves[c] :
        Crosses(c, i) /\ job[p].after <= moves[c][i].at /\ moves[c][i].at + Overlap < job[p].before
          => InHand(p, c, i) \/ Safe(c, i)

PassedBy(p) == Passed(job[p].after)

SweepInv(p) ==
    /\ pc[p] # "idle" => PassedBy(p)
    /\ pc[p] \in {"fetch", "write"} /\ ~job[p].failed => Ahead(p)

IInv == Shape /\ LostOnlyByRevert /\ \A p \in Sweeps : SweepInv(p)

(* Where the moves of a candidate are and when they were made. *)
LEMMA MoveFacts ==
  ASSUME RFInv, NEW c \in Candidates
  PROVE  /\ Len(moves[c]) \in Nat /\ DOMAIN moves[c] = 1 .. Len(moves[c])
         /\ \A i \in DOMAIN moves[c] : /\ i \in 1 .. MaxMoves /\ i \in Nat
                                       /\ moves[c][i].at \in Nat /\ moves[c][i].at <= now
                                       /\ moves[c][i].to \in LadderStages
<1>1. Len(moves[c]) \in Nat /\ DOMAIN moves[c] = 1 .. Len(moves[c]) /\ Len(moves[c]) <= MaxMoves
  BY SeqFacts DEF RFInv
<1>2. ASSUME NEW i \in DOMAIN moves[c] PROVE moves[c][i].at \in Nat /\ moves[c][i].to \in LadderStages
  <2>1. moves[c][i] \in Rec
    BY SeqFacts DEF RFInv
  <2> QED BY <2>1 DEF Rec
<1>3. MaxMoves \in Nat
  BY StageConstants
<1> QED BY <1>1, <1>2, <1>3 DEF RFInv, Chained

(* A crossing stays one, and stays safe. *)
LEMMA SafeStays ==
  ASSUME Shape, [Next]_vars, NEW c \in Candidates, NEW i \in DOMAIN moves[c]
  PROVE  /\ i \in DOMAIN moves'[c] /\ moves'[c][i].at = moves[c][i].at
         /\ Crosses(c, i)' = Crosses(c, i)
         /\ Safe(c, i) => Safe(c, i)'
<1>1. Grown /\ i \in 1 .. MaxMoves
  BY RFKept, MoveFacts DEF Shape
<1>2. i \in DOMAIN moves'[c] /\ moves'[c][i].at = moves[c][i].at /\ Crosses(c, i)' = Crosses(c, i)
  BY <1>1 DEF Grown, Crosses
<1>3. RevertedAfter(c, i) => RevertedAfter(c, i)'
  BY <1>1 DEF Grown, RevertedAfter
<1>4. stored[c][i] # Absent => stored'[c][i] # Absent
  BY <1>1, LogKept
<1> QED BY <1>2, <1>3, <1>4 DEF Safe

(* What is behind stays behind: later moves are ahead. *)
LEMMA PassedStays ==
  ASSUME Shape, [Next]_vars, NEW x \in Int, x <= now, Passed(x)
  PROVE  Passed(x)'
<1> SUFFICES ASSUME NEW c \in Candidates, NEW i \in DOMAIN moves'[c], Crosses(c, i)', moves'[c][i].at < x
             PROVE  Safe(c, i)'
  BY DEF Passed
<1>1. i \in DOMAIN moves[c]
  <2>1. i \notin DOMAIN moves[c] => moves'[c][i].at = now
    BY RFKept DEF Shape, Grown
  <2> QED BY <2>1 DEF Shape, RFInv
<1> QED BY <1>1, SafeStays DEF Passed

LEMMA PassedByStays ==
  ASSUME Shape, [Next]_vars, NEW p \in Processes, PassedBy(p), job'[p].after = job[p].after
  PROVE  PassedBy(p)'
<1>1. job[p].after \in Int /\ job[p].after <= now
  <2>1. job[p].after \in Int /\ job[p].before \in Nat /\ now \in Nat
        /\ job[p].after <= job[p].before /\ job[p].before <= now
    BY DEF Shape, JobTypes, Jobs, RFInv
  <2> QED BY <2>1
<1>2. \A x \in Int : x <= now /\ Passed(x) => Passed(x)'
  BY PassedStays
<1>3. ASSUME NEW x, x = job[p].after PROVE Passed(x) /\ (Passed(x)' => PassedBy(p)')
  BY <1>3 DEF PassedBy, Passed
<1> QED BY <1>1, <1>2, <1>3

LEMMA AheadStays ==
  ASSUME Shape, [Next]_vars, NEW p \in Processes, job'[p] = job[p], Ahead(p)
  PROVE  Ahead(p)'
<1> SUFFICES ASSUME NEW c \in Candidates, NEW i \in DOMAIN moves'[c], Crosses(c, i)',
                    job[p].after <= moves'[c][i].at, moves'[c][i].at + Overlap < job[p].before
             PROVE  InHand(p, c, i) \/ Safe(c, i)'
  BY DEF Ahead, InHand
<1>1. i \in DOMAIN moves[c]
  <2>1. i \notin DOMAIN moves[c] => moves'[c][i].at = now
    BY RFKept DEF Shape, Grown
  <2>2. job[p].before \in Nat /\ job[p].before <= now /\ Overlap \in Nat /\ now \in Nat
    BY StageConstants DEF Shape, JobTypes, Jobs, RFInv
  <2> QED BY <2>1, <2>2
<1> QED BY <1>1, SafeStays DEF Ahead

-----------------------------------------------------------------------------
(* A move older than the overlap is shown by the index. *)
LEMMA IndexShows ==
  ASSUME RFInv, NEW c \in Candidates, NEW i \in DOMAIN moves[c], moves[c][i].at + Overlap < now
  PROVE  i <= visible[c]
<1> SUFFICES ASSUME visible[c] < i PROVE FALSE
  BY MoveFacts DEF RFInv
<1> DEFINE v == visible[c] + 1
<1>1. v \in DOMAIN moves[c] /\ v <= i /\ visible[c] < Len(moves[c])
  BY MoveFacts DEF RFInv
<1>2. moves[c][v].at <= moves[c][i].at /\ moves[c][v].at \in Nat /\ moves[c][i].at \in Nat
  <2>1. v \in Nat /\ i \in Nat /\ moves[c][v].at \in Nat /\ moves[c][i].at \in Nat
    BY <1>1, MoveFacts
  <2>2. v < i => moves[c][v].at < moves[c][i].at
    BY <1>1 DEF RFInv, Chained
  <2> QED BY <1>1, <2>1, <2>2
<1>3. moves[c][v].at + Lag >= now
  BY <1>1 DEF RFInv, Lagging
<1>4. Lag \in Nat /\ Overlap \in Nat /\ Lag <= Overlap /\ now \in Nat
  BY StageConstants DEF RFInv
<1> QED BY <1>2, <1>3, <1>4

(* A candidate that crossed and is gated out has been taken back. *)
LEMMA GateTells ==
  ASSUME RFInv, NEW c \in Candidates, NEW i \in DOMAIN moves[c], Crosses(c, i), i <= visible[c]
  PROVE  GatedIn(c) \/ RevertedAfter(c, i)
<1> DEFINE n == visible[c]
           cur == moves[c][n].to
           prev == moves[c][n].from
<1>1. /\ n \in Nat /\ n # 0 /\ n \in DOMAIN moves[c] /\ DOMAIN moves[c] = 1 .. Len(moves[c])
      /\ Len(moves[c]) \in Nat /\ i \in Nat /\ i >= 1
  BY MoveFacts DEF RFInv
<1>2. HasLandmark(Pipeline) /\ InTerritory(Pipeline, moves[c][i].to) /\ moves[c][i].to # Disqualified
  BY DEF Crosses, IsCvCross, InTerritory
<1>3. cur # NoStage
  <2>1. cur \in LadderStages
    BY <1>1, MoveFacts
  <2>2. \A k \in DOMAIN Pipeline : Pipeline[k] # NoStage
    BY StageConstants
  <2> QED BY <2>1, <2>2 DEF LadderStages
<1>4. GatedIn(c) <=> PassesGate(Pipeline, cur, prev)
  BY <1>1 DEF GatedIn, StageAfter, StageBefore
<1>5. CASE cur # Disqualified
  <2>1. CASE InTerritory(Pipeline, cur)
    BY <1>2, <1>3, <1>4, <1>5, <2>1 DEF PassesGate
  <2>2. CASE ~InTerritory(Pipeline, cur)
    <3>1. n > i
      BY <1>1, <1>2, <2>2
    <3> QED BY <1>1, <1>5, <2>2, <3>1 DEF RevertedAfter
  <2> QED BY <2>1, <2>2
<1>6. CASE cur = Disqualified
  <2>1. n > i /\ n > 1 /\ n - 1 \in DOMAIN moves[c]
    BY <1>1, <1>2, <1>6
  <2>2. prev = moves[c][n - 1].to /\ prev # Disqualified
    BY <1>1, <1>6, <2>1 DEF RFInv, Chained
  <2>3. CASE InTerritory(Pipeline, prev)
    BY <1>2, <1>3, <1>4, <1>6, <2>3 DEF PassesGate
  <2>4. CASE ~InTerritory(Pipeline, prev)
    <3>1. n - 1 > i
      BY <1>1, <1>2, <2>1, <2>2, <2>4
    <3> QED BY <2>1, <2>2, <2>4, <3>1 DEF RevertedAfter
  <2> QED BY <2>3, <2>4
<1> QED BY <1>5, <1>6

-----------------------------------------------------------------------------
(* What a sweep may pass, it has in hand or it is safe: each step of it. *)
LEMMA SweepKeeps ==
  ASSUME IInv, NEW p \in Sweeps, SweepStep(p)
  PROVE  SweepInv(p)'
<1> DEFINE old == job[p]
<1>0. /\ p \in Processes /\ p \notin Hooks /\ [Next]_vars /\ Shape /\ SweepInv(p)
      /\ pc \in [Processes -> {"idle", "search", "fetch", "write"}]
      /\ job \in [Processes -> Jobs] /\ old \in Jobs
      /\ old.after <= old.before /\ old.before <= now /\ now \in Nat /\ Overlap \in Nat
  BY StageConstants DEF Processes, Next, IInv, Shape, JobTypes, RFInv
<1>1. old.after \in Int /\ old.before \in Nat
  BY <1>0 DEF Jobs
<1>2. ASSUME pc[p] # "idle", job'[p].after = old.after PROVE PassedBy(p)'
  BY <1>0, <1>2, PassedByStays DEF SweepInv
<1>3. CASE SweepStarts(p)
  <2>1. /\ pc'[p] = "search" /\ job'[p].after = SweepFrom
        /\ UNCHANGED <<now, moves, stored>>
    BY <1>0, <1>3 DEF SweepStarts, rf, NoJob
  <2>2. Passed(SweepFrom)
    <3> SUFFICES ASSUME NEW c \in Candidates, NEW i \in DOMAIN moves[c], Crosses(c, i),
                        moves[c][i].at < SweepFrom
                 PROVE  Safe(c, i)
      BY DEF Passed
    <3>1. i \in 1 .. MaxMoves /\ moves[c][i].at \in Nat
      BY <1>0, MoveFacts DEF Shape
    <3>2. waterline # NoWaterline /\ BelowWindow(c, i)
      BY <3>1 DEF SweepFrom, BelowWindow
    <3> QED BY <3>1, <3>2 DEF IInv, LostOnlyByRevert, Safe
  <2>3. SweepFrom \in Int /\ SweepFrom <= now
    BY <1>0 DEF SweepFrom, Shape, LogTypes, NoWaterline
  <2>4. \A x \in Int : x <= now /\ Passed(x) => Passed(x)'
    BY <1>0, PassedStays
  <2>5. ASSUME NEW x, x = SweepFrom PROVE Passed(x) /\ (Passed(x)' => PassedBy(p)')
    BY <2>1, <2>2, <2>5 DEF PassedBy, Passed
  <2>6. PassedBy(p)'
    BY <2>3, <2>4, <2>5
  <2> QED BY <2>1, <2>6 DEF SweepInv
<1>4. CASE SearchAnswers(p)
  <2> PICK rows \in SUBSET Found(p) :
        job' = [job EXCEPT ![p].targets = {c \in rows : GatedIn(c)},
                           ![p].failed = (rows # Found(p))]
    BY <1>4 DEF SearchAnswers
  <2>1. /\ pc'[p] = "fetch" /\ pc[p] = "search" /\ UNCHANGED <<now, moves, visible, stored>>
        /\ job'[p].after = old.after /\ job'[p].before = old.before
        /\ job'[p].targets = {c \in rows : GatedIn(c)}
        /\ job'[p].failed = (rows # Found(p))
    BY <1>0, <1>4 DEF SearchAnswers, rf, Jobs
  <2>2. ASSUME rows = Found(p), NEW c \in Candidates, NEW i \in DOMAIN moves[c], Crosses(c, i),
               old.after <= moves[c][i].at, moves[c][i].at + Overlap < old.before
        PROVE  c \in job'[p].targets \/ Safe(c, i)
    <3>1. moves[c][i].at + Overlap < now /\ moves[c][i].at \in Nat /\ i \in Nat
      BY <1>0, <1>1, <2>2, MoveFacts DEF Shape
    <3>2. i <= visible[c]
      BY <1>0, <3>1, IndexShows DEF Shape
    <3>3. /\ visible[c] \in DOMAIN moves[c] /\ visible[c] > 0
          /\ moves[c][visible[c]].at >= moves[c][i].at /\ moves[c][visible[c]].at \in Nat
      <4>1. visible[c] \in DOMAIN moves[c] /\ visible[c] > 0 /\ visible[c] \in Nat
        BY <1>0, <3>2, MoveFacts DEF Shape, RFInv
      <4>2. moves[c][visible[c]].at \in Nat
        BY <1>0, <4>1, MoveFacts DEF Shape
      <4>3. i < visible[c] => moves[c][i].at < moves[c][visible[c]].at
        BY <1>0, <4>1 DEF Shape, RFInv, Chained
      <4> QED BY <3>1, <3>2, <4>1, <4>2, <4>3
    <3>4. c \in Found(p)
      BY <1>1, <2>2, <3>1, <3>3 DEF Found
    <3>5. GatedIn(c) \/ RevertedAfter(c, i)
      BY <1>0, <2>2, <3>2, GateTells DEF Shape
    <3> QED BY <2>1, <2>2, <3>4, <3>5 DEF Safe
  <2>3. ~job'[p].failed => Ahead(p)'
    BY <2>1, <2>2 DEF Ahead, InHand, Safe, Crosses, RevertedAfter
  <2> QED BY <1>2, <2>1, <2>3 DEF SweepInv
<1>5. CASE SearchFails(p) \/ SweepEnds(p)
  BY <1>0, <1>5 DEF SearchFails, SweepEnds, SweepInv
<1>6. ASSUME NEW d \in Candidates, Fetch(p, d) PROVE SweepInv(p)'
  <2>1. /\ pc'[p] = "write" /\ pc[p] = "fetch" /\ UNCHANGED <<now, moves, stored>>
        /\ job'[p].after = old.after /\ job'[p].before = old.before /\ job'[p].failed = old.failed
        /\ job'[p].targets = old.targets \ {d}
        /\ job'[p].got.c = d /\ DOMAIN job'[p].got.movers = InWindow(p, d)
    BY <1>0, <1>6 DEF Fetch, rf, Jobs
  <2>2. ASSUME Ahead(p), NEW c \in Candidates, NEW i \in DOMAIN moves[c], Crosses(c, i),
               old.after <= moves[c][i].at, moves[c][i].at + Overlap < old.before
        PROVE  InHand(p, c, i)' \/ Safe(c, i)
    <3>1. i \in InWindow(p, c)
      BY <1>0, <1>1, <2>2, MoveFacts DEF Shape, InWindow
    <3>2. old.got = NoRows
      BY <1>0, <2>1 DEF Shape, JobTypes
    <3>3. c \in old.targets \/ Safe(c, i)
      BY <2>2, <3>2 DEF Ahead, InHand, NoRows
    <3> QED BY <2>1, <3>1, <3>3 DEF InHand
  <2>3. ~job'[p].failed => Ahead(p)'
    BY <2>1, <2>2 DEF SweepInv, Ahead, Safe, Crosses, RevertedAfter, IInv
  <2> QED BY <1>2, <2>1, <2>3 DEF SweepInv
<1>7. ASSUME NEW d \in Candidates, FetchFails(p, d) PROVE SweepInv(p)'
  <2>1. /\ pc'[p] = "fetch" /\ pc[p] = "fetch" /\ job'[p].after = old.after
    BY <1>0, <1>7 DEF FetchFails, Jobs
  <2>2. job'[p].failed
    BY <1>0, <1>7 DEF FetchFails, Jobs
  <2> QED BY <1>2, <2>1, <2>2 DEF SweepInv
<1>8. CASE Upsert(p)
  <2>1. /\ pc'[p] = "fetch" /\ pc[p] = "write" /\ UNCHANGED <<now, moves>>
        /\ job'[p].after = old.after /\ job'[p].before = old.before /\ job'[p].failed = old.failed
        /\ job'[p].targets = old.targets
    BY <1>0, <1>8 DEF Upsert, rf, Jobs
  <2>2. ASSUME Ahead(p), NEW c \in Candidates, NEW i \in DOMAIN moves[c], Crosses(c, i),
               old.after <= moves[c][i].at, moves[c][i].at + Overlap < old.before
        PROVE  c \in old.targets \/ Safe(c, i)'
    <3>1. CASE Safe(c, i)
      BY <1>0, <3>1, SafeStays
    <3>2. CASE c = old.got.c /\ i \in DOMAIN old.got.movers
      <4>1. i \in 1 .. MaxMoves
        BY <1>0, MoveFacts DEF Shape
      <4>2. stored'[c][i] = Upserted(stored[c][i], old.got.movers[i])
        BY <1>8, <3>2, <4>1, <1>0 DEF Upsert, Shape, LogTypes
      <4>3. old.got.movers[i] \in Movers \cup {Nobody}
        BY <1>0, <3>2 DEF Jobs, Fetched, NoRows
      <4>4. Absent \notin Movers /\ Absent # Nobody
        BY StageConstants DEF Absent, Nobody
      <4>5. stored'[c][i] # Absent
        BY <4>2, <4>3, <4>4 DEF Upserted
      <4> QED BY <4>5 DEF Safe
    <3> QED BY <2>2, <3>1, <3>2 DEF Ahead, InHand
  <2>3. ~job'[p].failed => Ahead(p)'
    BY <2>1, <2>2 DEF SweepInv, Ahead, InHand, Crosses, IInv
  <2> QED BY <1>2, <2>1, <2>3 DEF SweepInv
<1> QED BY <1>3, <1>4, <1>5, <1>6, <1>7, <1>8 DEF SweepStep

(* The other sweeps keep what they have. *)
LEMMA OthersKeep ==
  ASSUME IInv, [Next]_vars, NEW p \in Sweeps, pc'[p] = pc[p], job'[p] = job[p]
  PROVE  SweepInv(p)'
<1>1. p \in Processes /\ Shape /\ SweepInv(p)
  BY DEF Processes, IInv
<1>3. pc[p] # "idle" => PassedBy(p)'
  BY <1>1, PassedByStays DEF SweepInv
<1>4. Ahead(p) => Ahead(p)'
  BY <1>1, AheadStays
<1> QED BY <1>1, <1>3, <1>4 DEF SweepInv

(* The waterline passes only what is safe. *)
LEMMA WaterlinePasses == IInv /\ [Next]_vars => LostOnlyByRevert'
<1> SUFFICES ASSUME IInv, [Next]_vars, NEW c \in Candidates, NEW i \in 1 .. MaxMoves,
                    Crosses(c, i)', BelowWindow(c, i)'
             PROVE  Safe(c, i)'
  BY DEF LostOnlyByRevert, Safe
<1>0. /\ Shape /\ RFInv' /\ LogTypes' /\ Grown /\ now \in Nat /\ now' \in Nat /\ Overlap \in Nat
      /\ i \in DOMAIN moves'[c]
  BY RFKept, LogKept, StageConstants DEF IInv, Shape, RFInv, Crosses
<1>1. CASE UNCHANGED waterline
  <2>1. waterline \in Nat /\ waterline <= now
    BY <1>0, <1>1 DEF BelowWindow, Shape, LogTypes
  <2>2. i \in DOMAIN moves[c]
    BY <1>0, <1>1, <2>1 DEF Grown, BelowWindow
  <2>3. Crosses(c, i) /\ BelowWindow(c, i)
    BY <1>0, <1>1, <2>2, SafeStays DEF BelowWindow
  <2>4. Safe(c, i)
    BY <2>3 DEF IInv, LostOnlyByRevert, Safe
  <2> QED BY <1>0, <2>2, <2>4, SafeStays
<1>2. ASSUME NEW p \in Sweeps, SweepEnds(p) PROVE Safe(c, i)'
  <2>1. CASE job[p].failed
    BY <1>1, <1>2, <2>1 DEF SweepEnds
  <2>2. CASE ~job[p].failed
    <3>1. /\ waterline' = job[p].before /\ job[p].targets = {} /\ pc[p] = "fetch"
          /\ UNCHANGED <<now, moves, stored>>
      BY <1>2, <2>2 DEF SweepEnds, rf
    <3>2. p \in Processes /\ job[p].before \in Nat /\ job[p].after \in Int /\ job[p].got = NoRows
      BY <1>0, <3>1 DEF Processes, Shape, JobTypes, Jobs
    <3>3. Passed(job[p].after) /\ Ahead(p)
      <4>1. SweepInv(p) /\ pc[p] # "idle" /\ pc[p] \in {"fetch", "write"}
        BY <3>1 DEF IInv
      <4> QED BY <2>2, <4>1 DEF SweepInv, PassedBy
    <3>4. i \in DOMAIN moves[c] /\ Crosses(c, i) /\ moves[c][i].at + Overlap < job[p].before
          /\ moves[c][i].at \in Nat
      <4>1. i \in DOMAIN moves[c] /\ Crosses(c, i) /\ moves[c][i].at < job[p].before - Overlap
        BY <1>0, <3>1 DEF BelowWindow, Crosses
      <4>2. moves[c][i].at \in Nat
        BY <1>0, <4>1, MoveFacts DEF Shape
      <4> QED BY <1>0, <3>2, <4>1, <4>2
    <3>5. ~InHand(p, c, i)
      BY <3>1, <3>2 DEF InHand, NoRows
    <3>6. Safe(c, i)
      BY <3>2, <3>3, <3>4, <3>5 DEF Passed, Ahead
    <3> QED BY <3>1, <3>6 DEF Safe, RevertedAfter
  <2> QED BY <2>1, <2>2
<1>3. ASSUME ~ \E p \in Sweeps : SweepEnds(p) PROVE UNCHANGED waterline
  BY <1>3 DEF Next, Move, Attribute, IndexCatchesUp, Calms, Tick, HookStep, SweepStep, HookArrives,
              SweepStarts, SearchAnswers, SearchFails, Fetch, FetchFails, Upsert, HookEnds, vars
<1> QED BY <1>1, <1>2, <1>3

-----------------------------------------------------------------------------
LEMMA InitIInv == Init => IInv
<1> SUFFICES ASSUME Init PROVE IInv
  OBVIOUS
<1>1. RFInv
  <2>1. moves \in [Candidates -> Seq(Rec)] /\ \A c \in Candidates : moves[c] = <<>> /\ visible[c] = 0
    BY DEF Init
  <2>2. MaxMoves \in Nat
    BY StageConstants
  <2> QED BY <2>1, <2>2 DEF Init, RFInv, Chained, Lagging
<1>2. JobTypes
  <2>1. NoJob \in Jobs /\ NoJob.after = 0 /\ NoJob.before = 0 /\ NoJob.got = NoRows
    BY DEF NoJob, Jobs, Fetched
  <2> QED BY <2>1 DEF Init, JobTypes
<1>3. LogTypes /\ LostOnlyByRevert
  BY DEF Init, LogTypes, NoWaterline, LostOnlyByRevert, BelowWindow
<1>4. \A p \in Sweeps : SweepInv(p)
  BY DEF Init, SweepInv, Processes
<1> QED BY <1>1, <1>2, <1>3, <1>4 DEF IInv, Shape

LEMMA NextIInv == IInv /\ [Next]_vars => IInv'
<1> SUFFICES ASSUME IInv, [Next]_vars PROVE IInv'
  OBVIOUS
<1>1. Shape'
  BY RFKept, LogKept, JobsKept DEF IInv, Shape
<1>2. LostOnlyByRevert'
  BY WaterlinePasses
<1>3. ASSUME NEW p \in Sweeps PROVE SweepInv(p)'
  <2>1. CASE SweepStep(p)
    BY <2>1, SweepKeeps
  <2>2. ASSUME NEW q \in Processes, q # p, Works(q) PROVE SweepInv(p)'
    <3>1. Alone(q) /\ p \in Processes
      BY <2>2, JobKept DEF IInv, Processes
    <3>2. pc'[p] = pc[p] /\ job'[p] = job[p]
      BY <2>2, <3>1 DEF Alone, IInv, Shape, JobTypes
    <3> QED BY <3>2, OthersKeep
  <2>3. CASE UNCHANGED <<pc, job>>
    BY <2>3, OthersKeep
  <2>4. p \notin Hooks
    BY StageConstants
  <2> QED BY <2>1, <2>2, <2>3, <2>4
          DEF Next, Move, Attribute, IndexCatchesUp, Calms, Tick, vars, Works, Processes
<1> QED BY <1>1, <1>2, <1>3 DEF IInv

(***************************************************************************)
(* A crossing that no sweep will read again is in the log or was taken     *)
(* back, for any pipeline and any number of sweeps at once, as long as     *)
(* RF's index lags by no more than the overlap (stage-stats.js:1032-1049). *)
(***************************************************************************)
THEOREM WaterlineLosesNothing == Spec => []LostOnlyByRevert
<1>1. IInv => LostOnlyByRevert
  BY DEF IInv
<1> QED BY <1>1, InitIInv, NextIInv, PTL DEF Spec

(***************************************************************************)
(* A row never forgets who made the move, whichever of any number of       *)
(* webhooks and sweeps writes last (stage-stats.js:377-379).               *)
(***************************************************************************)
THEOREM MoverIsKept == Spec => AttributionKept
<1>1. IInv /\ [Next]_vars =>
        [\A c \in Candidates : \A i \in 1 .. MaxMoves :
           stored[c][i] \in Movers => stored'[c][i] \in Movers]_vars
  BY LogKept DEF IInv
<1> QED BY <1>1, InitIInv, NextIInv, PTL DEF Spec, AttributionKept

(* Everything has happened by now.                                         *)
LEMMA TypesFollow == ASSUME Shape, now <= MaxTime, calm \in BOOLEAN PROVE TypeOK
<1>0. now \in Nat /\ MaxTime \in Nat /\ now \in 0 .. MaxTime
  BY StageConstants DEF Shape, RFInv
<1>1. ASSUME NEW c \in Candidates PROVE moves[c] \in Seq(MoveRecords)
  <2>1. /\ moves[c] \in Seq(Rec) /\ Len(moves[c]) \in Nat /\ DOMAIN moves[c] = 1 .. Len(moves[c])
        /\ moves[c] = [i \in 1 .. Len(moves[c]) |-> moves[c][i]]
    BY DEF Shape, RFInv
  <2>2. ASSUME NEW i \in 1 .. Len(moves[c]) PROVE moves[c][i] \in MoveRecords
    <3>1. moves[c][i] \in Rec /\ moves[c][i].at <= now
      BY <2>1 DEF Shape, RFInv, Chained
    <3>2. moves[c][i].to \in LadderStages => Pipeline[1] \in LadderStages
      BY StageConstants DEF LadderStages
    <3> QED BY <1>0, <3>1, <3>2 DEF Rec, MoveRecords
  <2>3. moves[c] \in [1 .. Len(moves[c]) -> MoveRecords]
    BY <2>1, <2>2
  <2> QED BY <2>1, <2>3, SeqDef
<1>2. moves \in [Candidates -> Seq(MoveRecords)]
  BY <1>1 DEF Shape, RFInv
<1>3. \A c \in Candidates : visible[c] \in 0 .. Len(moves[c]) /\ Len(moves[c]) <= MaxMoves
  BY DEF Shape, RFInv
<1>4. waterline \in {NoWaterline} \cup 0 .. MaxTime
  BY <1>0 DEF Shape, LogTypes
<1>5. \A p \in Processes : /\ job[p].targets \subseteq Candidates
                           /\ job[p].after <= job[p].before /\ job[p].before <= now
  BY DEF Shape, JobTypes, Jobs
<1> QED BY <1>0, <1>2, <1>3, <1>4, <1>5 DEF TypeOK, Shape, LogTypes, JobTypes

(* The states of the log are well formed.                                  *)
THEOREM LogTypesHold == Spec => []TypeOK
<1>1. Init => now <= MaxTime /\ calm \in BOOLEAN
  <2>1. MaxTime \in Nat
    BY StageConstants
  <2>2. Init => now <= MaxTime
    BY <2>1 DEF Init
  <2>3. Init => calm \in BOOLEAN
    BY Zenon DEF Init
  <2> QED BY <2>2, <2>3, Zenon
<1>2. IInv /\ now <= MaxTime /\ calm \in BOOLEAN /\ [Next]_vars => (now <= MaxTime /\ calm \in BOOLEAN)'
  <2> SUFFICES ASSUME IInv, now <= MaxTime, calm \in BOOLEAN, [Next]_vars
               PROVE  now' <= MaxTime /\ calm' \in BOOLEAN
    BY Zenon
  <2>1. now \in Nat /\ MaxTime \in Nat
    BY StageConstants DEF IInv, Shape, RFInv
  <2>2. now' <= MaxTime
    <3>1. ASSUME ~Tick PROVE UNCHANGED now
      BY <3>1 DEF Next, Move, Attribute, IndexCatchesUp, Calms, HookStep, SweepStep, HookArrives,
                  SweepStarts, SearchAnswers, SearchFails, Fetch, FetchFails, Upsert, HookEnds, SweepEnds,
                  vars
    <3>2. Tick => now < MaxTime /\ now' = now + 1
      BY DEF Tick
    <3> QED BY <2>1, <3>1, <3>2
  <2>3. calm' \in BOOLEAN
    <3>1. UNCHANGED calm \/ Calms
      BY DEF Next, Move, Attribute, IndexCatchesUp, Tick, HookStep, SweepStep, HookArrives,
             SweepStarts, SearchAnswers, SearchFails, Fetch, FetchFails, Upsert, HookEnds, SweepEnds, vars, rf
    <3> QED BY <3>1, Zenon DEF Calms
  <2> QED BY <2>2, <2>3, Zenon
<1>3. IInv /\ now <= MaxTime /\ calm \in BOOLEAN => TypeOK
  BY TypesFollow DEF IInv
<1> QED BY <1>1, <1>2, <1>3, InitIInv, NextIInv, PTL DEF Spec

-----------------------------------------------------------------------------
(* THE BACKFILL.  A batch is the least of what lies past the cursor, so    *)
(* whoever is not in it lies past the cursor that it leaves.               *)

(* A set of naturals has a first, and a last when it is finite. *)
LEMMA FirstExists ==
  ASSUME NEW S, S \subseteq Nat, S # {}
  PROVE  \E x \in S : \A y \in S : x <= y
<1>1. \E x \in S : \A y \in S : ~(<<y, x>> \in OpToRel(<, Nat))
  BY NatLessThanWellFounded, WFMin
<1>2. \A x, y \in Nat : x < y => <<x, y>> \in OpToRel(<, Nat)
  BY DEF OpToRel
<1>3. \A x, y \in S : x \in Nat /\ y \in Nat /\ (~(y < x) => x <= y)
  OBVIOUS
<1> QED BY <1>1, <1>2, <1>3

LEMMA LastExists ==
  ASSUME NEW S, IsFiniteSet(S), S \subseteq Nat, S # {}
  PROVE  \E x \in S : \A y \in S : x >= y
<1> DEFINE Above(x) == {y \in S : y > x}
           Sizes == {n \in Nat : \E x \in S : n = Cardinality(Above(x))}
<1>1. \A x \in S : IsFiniteSet(Above(x)) /\ Cardinality(Above(x)) \in Nat
  <2> TAKE x \in S
  <2>1. Above(x) \in SUBSET S
    OBVIOUS
  <2> QED BY <2>1, FS_Subset, FS_CardinalityType
<1>2. Sizes \subseteq Nat /\ Sizes # {}
  BY <1>1
<1> HIDE DEF Sizes
<1>3. PICK n \in Sizes : \A m \in Sizes : n <= m
  BY <1>2, FirstExists
<1>4. PICK x \in S : n = Cardinality(Above(x))
  BY DEF Sizes
<1>5. ASSUME NEW y \in S, y > x PROVE FALSE
  <2>0. \A z \in S : z \in Nat /\ x \in Nat /\ y \in Nat
    OBVIOUS
  <2>1. Above(y) \in SUBSET Above(x) /\ y \in Above(x) /\ y \notin Above(y)
    <3>1. \A z \in S : z > y => z > x
      BY <1>5, <2>0
    <3>2. ~(y > y)
      BY <2>0
    <3> QED BY <1>5, <3>1, <3>2
  <2> HIDE DEF Above
  <2>2. Cardinality(Above(y)) <= Cardinality(Above(x)) /\ Cardinality(Above(y)) # Cardinality(Above(x))
    BY <1>1, <2>1, FS_Subset
  <2>3. Cardinality(Above(y)) \in Sizes
    BY <1>1 DEF Sizes
  <2> QED BY <1>1, <1>3, <1>4, <2>2, <2>3
<1>6. \A y \in S : x \in Nat /\ y \in Nat /\ (~(y > x) => x >= y)
  OBVIOUS
<1> QED BY <1>5, <1>6

BackfillInv ==
    /\ crossed \subseteq active /\ active \subseteq Ids /\ held \subseteq active /\ batch \subseteq active
    /\ walk \in [cursor : {0} \cup Ids, asked : BOOLEAN, last : BOOLEAN, done : BOOLEAN, doubt : BOOLEAN]
    /\ walk.done => ~walk.asked
    /\ ~walk.asked => batch = {}
    /\ ~walk.doubt => \A i \in crossed : i <= walk.cursor => i \in held \cup batch
    /\ ~walk.doubt /\ (walk.done \/ (walk.asked /\ walk.last)) => crossed \subseteq held \cup batch

(* What a batch is: of the ids past the cursor the least ones, all of them *)
(* if there are no more.                                                   *)
LEMMA BatchIs ==
  ASSUME NEW rest, rest \subseteq Ids, NEW b \in NextBatch(rest)
  PROVE  /\ b \subseteq rest
         /\ Cardinality(b) = Cardinality(rest) => b = rest
         /\ b # {} => Max(b) \in b /\ \A i \in rest : i <= Max(b) => i \in b
<1> DEFINE UpTo(i) == {j \in rest : j <= i}
<1>1. Ids \subseteq Nat /\ BatchSize \in Nat
  BY BackfillConstants
<1>2. b = {i \in rest : Cardinality(UpTo(i)) <= BatchSize}
  BY DEF NextBatch, Smallest
<1>3. IsFiniteSet(rest) /\ b \in SUBSET rest
  BY <1>2, BackfillConstants, FS_Subset
<1>4. IsFiniteSet(b) /\ (Cardinality(b) = Cardinality(rest) => b = rest)
  BY <1>3, FS_Subset
<1>5. ASSUME b # {} PROVE Max(b) \in b
  <2>1. \E x \in b : \A y \in b : x >= y
    BY <1>1, <1>3, <1>4, <1>5, LastExists
  <2> QED BY <2>1 DEF Max
<1>6. ASSUME b # {}, NEW i \in rest, i <= Max(b) PROVE i \in b
  <2> DEFINE m == Max(b)
  <2>1. m \in b /\ m \in rest /\ m \in Nat /\ i \in Nat
    BY <1>1, <1>3, <1>5, <1>6
  <2> HIDE DEF m
  <2>2. UpTo(i) \in SUBSET UpTo(m) /\ UpTo(m) \in SUBSET rest
    <3>1. \A j \in rest : j \in Nat
      BY <1>1
    <3>2. \A j \in rest : j <= i => j <= m
      BY <1>6, <2>1, <3>1 DEF m
    <3> QED BY <3>2
  <2>3. Cardinality(UpTo(i)) <= Cardinality(UpTo(m)) /\ Cardinality(UpTo(m)) <= BatchSize
        /\ Cardinality(UpTo(i)) \in Nat /\ Cardinality(UpTo(m)) \in Nat
    <3> HIDE DEF UpTo
    <3>1. IsFiniteSet(UpTo(m))
      BY <1>3, <2>2, FS_Subset
    <3>2. IsFiniteSet(UpTo(i)) /\ Cardinality(UpTo(i)) <= Cardinality(UpTo(m))
      BY <2>2, <3>1, FS_Subset
    <3> QED BY <1>2, <2>1, <3>1, <3>2, FS_CardinalityType
  <2> QED BY <1>1, <1>2, <2>3
<1> QED BY <1>3, <1>4, <1>5, <1>6

LEMMA BackfillKept == BackfillInv /\ [BackfillNext]_backfillVars => BackfillInv'
<1> SUFFICES ASSUME BackfillInv, [BackfillNext]_backfillVars PROVE BackfillInv'
  OBVIOUS
<1>0. Ids \subseteq Nat
  BY BackfillConstants
<1> DEFINE cursor == walk.cursor
<1>t. /\ cursor \in {0} \cup Ids /\ walk.asked \in BOOLEAN /\ walk.last \in BOOLEAN
      /\ walk.done \in BOOLEAN /\ walk.doubt \in BOOLEAN
      /\ walk = [cursor |-> cursor, asked |-> walk.asked, last |-> walk.last, done |-> walk.done,
                 doubt |-> walk.doubt]
  BY DEF BackfillInv
<1>c. walk.cursor \in Nat
  BY <1>0, <1>t
<1>i. crossed \subseteq active /\ \A i \in crossed : i \in Nat
  <2>1. \A i \in crossed : i \in active /\ i \in Ids
    BY DEF BackfillInv
  <2> QED BY <1>0, <2>1
<1>1. CASE Asks
  <2>1. PICK given \in SUBSET active :
          LET rest == {i \in given : i > walk.cursor}
          IN  \E b \in NextBatch(rest) :
                  /\ batch' = b
                  /\ walk' = [walk EXCEPT !.asked = TRUE, !.last = (Cardinality(b) = Cardinality(rest)),
                                !.cursor = IF b = {} THEN @ ELSE Max(b),
                                !.doubt = @ \/ given # active]
    BY <1>1 DEF Asks
  <2> DEFINE rest == {i \in given : i > walk.cursor}
             cut == given # active
             whole == Cardinality(batch') = Cardinality(rest)
             next == IF batch' = {} THEN walk.cursor ELSE Max(batch')
  <2>2. /\ batch' \in NextBatch(rest)
        /\ walk' = [walk EXCEPT !.asked = TRUE, !.last = whole, !.cursor = next, !.doubt = @ \/ cut]
    BY <2>1
  <2>3. ~walk.asked /\ ~walk.done /\ batch = {}
        /\ active' = active /\ crossed' = crossed /\ held' = held
    BY <1>1 DEF Asks, BackfillInv
  <2>4. rest \subseteq given /\ rest \subseteq Ids
    BY DEF BackfillInv
  <2>5. /\ batch' \subseteq rest
        /\ whole => batch' = rest
        /\ batch' # {} => Max(batch') \in batch' /\ \A i \in rest : i <= Max(batch') => i \in batch'
    <3> HIDE DEF rest
    <3> QED BY <2>2, <2>4, BatchIs
  <2>6. /\ walk'.asked = TRUE /\ walk'.last = whole /\ walk'.cursor = next /\ walk'.done = FALSE
        /\ walk'.doubt = (walk.doubt \/ cut)
        /\ walk' = [cursor |-> next, asked |-> TRUE, last |-> whole, done |-> FALSE, doubt |-> (walk.doubt \/ cut)]
    <3> HIDE DEF rest, whole, next, cut
    <3> QED BY <1>t, <2>2, <2>3
  <2>7. next \in {0} \cup Ids /\ batch' \subseteq active
    BY <1>t, <2>4, <2>5
  <2>8. ASSUME ~walk'.doubt, NEW i \in crossed, i <= next PROVE i \in held \cup batch'
    <3>1. given = active /\ ~walk.doubt
      BY <2>6, <2>8
    <3>2. CASE i <= walk.cursor
      BY <2>3, <3>1, <3>2 DEF BackfillInv
    <3>3. CASE ~(i <= walk.cursor)
      <4>1. i \in rest
        <5>1. i \in active /\ i \in Nat /\ walk.cursor \in Nat
          BY <1>c, <1>i
        <5> QED BY <3>1, <3>3, <5>1
      <4>2. batch' # {}
        BY <2>8, <3>3
      <4> QED BY <2>5, <2>8, <4>1, <4>2
    <3> QED BY <3>2, <3>3
  <2>9. ASSUME ~walk'.doubt, whole PROVE crossed \subseteq held \cup batch'
    <3>1. given = active /\ ~walk.doubt /\ batch' = rest
      BY <2>5, <2>6, <2>9
    <3>2. \A i \in crossed : i <= walk.cursor \/ i \in rest
      <4>1. \A i \in crossed : i \in active /\ i \in Nat /\ walk.cursor \in Nat
        BY <1>c, <1>i
      <4> QED BY <3>1, <4>1
    <3> QED BY <2>3, <3>1, <3>2 DEF BackfillInv
  <2> HIDE DEF rest, whole, next, cut
  <2>10. whole \in BOOLEAN /\ cut \in BOOLEAN
    BY DEF whole, cut
  <2>11. walk' \in [cursor : {0} \cup Ids, asked : BOOLEAN, last : BOOLEAN, done : BOOLEAN, doubt : BOOLEAN]
    BY <1>t, <2>6, <2>7, <2>10
  <2> QED BY <2>3, <2>6, <2>7, <2>8, <2>9, <2>11 DEF BackfillInv
<1>2. CASE Answers
  <2>1. /\ walk.asked /\ batch = {} /\ batch' = batch /\ held' = held /\ crossed' = crossed /\ active' = active
        /\ walk' = [walk EXCEPT !.asked = FALSE, !.done = walk.last]
    BY <1>2 DEF Answers
  <2>2. walk' = [cursor |-> walk.cursor, asked |-> FALSE, last |-> walk.last, done |-> walk.last, doubt |-> walk.doubt]
    BY <1>t, <2>1
  <2>3. walk' \in [cursor : {0} \cup Ids, asked : BOOLEAN, last : BOOLEAN, done : BOOLEAN, doubt : BOOLEAN]
    BY <1>t, <2>2
  <2>4. /\ walk'.cursor = walk.cursor /\ walk'.asked = FALSE /\ walk'.done = walk.last /\ walk'.doubt = walk.doubt
    BY <2>2
  <2> QED BY <2>1, <2>3, <2>4 DEF BackfillInv
<1>3. ASSUME NEW i \in Ids, Ingests(i) PROVE BackfillInv'
  <2>1. i \in batch /\ batch' = batch \ {i} /\ active' = active /\ crossed' = crossed /\ walk.asked
    BY <1>3 DEF Ingests, BackfillInv
  <2>2. CASE held' = held \cup {i} /\ UNCHANGED walk
    BY <2>1, <2>2 DEF BackfillInv
  <2>3. CASE walk' = [walk EXCEPT !.doubt = TRUE] /\ UNCHANGED held
    <3>1. walk' = [cursor |-> walk.cursor, asked |-> walk.asked, last |-> walk.last, done |-> walk.done, doubt |-> TRUE]
      BY <1>t, <2>3
    <3>2. walk' \in [cursor : {0} \cup Ids, asked : BOOLEAN, last : BOOLEAN, done : BOOLEAN, doubt : BOOLEAN]
      BY <1>t, <3>1
    <3>3. walk'.doubt = TRUE /\ walk'.asked = walk.asked /\ walk'.done = walk.done
      BY <3>1
    <3> QED BY <2>1, <2>3, <3>2, <3>3 DEF BackfillInv
  <2> QED BY <1>3, <2>2, <2>3 DEF Ingests
<1>4. ASSUME NEW i \in Ids, BecomesActive(i) PROVE BackfillInv'
  BY <1>4 DEF BecomesActive, BackfillInv
<1>5. CASE UNCHANGED backfillVars
  BY <1>5 DEF backfillVars, BackfillInv
<1> QED BY <1>1, <1>2, <1>3, <1>4, <1>5 DEF BackfillNext

LEMMA BackfillStarts == BackfillInit => BackfillInv
<1>1. Ids \subseteq Nat \ {0}
  BY BackfillConstants
<1> QED BY <1>1 DEF BackfillInit, BackfillInv

LEMMA BackfillTells == BackfillInv => BackfillTypeOK /\ DoneIsComplete
  BY DEF BackfillInv, BackfillTypeOK, DoneIsComplete

\* A backfill that is done without a failure or a cut search left no move out,
\* whatever the size of its batches and whoever becomes active meanwhile
\* (stage-stats.js:1191-1197).
THEOREM BackfillIsComplete == BackfillSpec => [](BackfillTypeOK /\ DoneIsComplete)
  BY BackfillStarts, BackfillKept, BackfillTells, PTL DEF BackfillSpec

-----------------------------------------------------------------------------
(* THE PUSH.  A report counts the rows that its read finds, a prefix of    *)
(* the log: those before it were stored no later than the read, those      *)
(* after it no earlier.  The stamp follows the read by Gap at most, so it  *)
(* stands for that prefix in whatever order the reports arrive.            *)

AnyUser == Users \cup {Unknown}

Row == [pair : Pairs, at : Nat, mover : AnyUser, stored : Nat]

\* What a report can count.
Counts == {NoCounts} \cup {Aggregate(rows, week) : rows \in SUBSET Row, week \in Nat}

Report == [step : {"idle", "read", "stamp", "send"}, week : Nat, counts : Counts, began : Nat, read : Nat,
           asOf : Nat, to : SUBSET Targets, tries : {0, 1}]

\* The counts were those of a prefix of the rows, between early and late.
WasTrue(rows, counts, week, early, late) ==
    \E n \in 0 .. Len(rows) :
      /\ counts = Aggregate({rows[i] : i \in 1 .. n}, week)
      /\ \A i \in DOMAIN rows : IF i <= n THEN rows[i].stored <= late ELSE rows[i].stored >= early

ReportTrue(report, rows, time) ==
    /\ report.step = "stamp" => /\ report.read <= time /\ time <= report.read + Gap
                                /\ WasTrue(rows, report.counts, report.week, report.read, report.read)
    /\ report.step = "send" => /\ report.asOf <= time
                               /\ WasTrue(rows, report.counts, report.week, report.asOf - Gap, report.asOf)

ShownTrue(show, rows, time) ==
    show.counts # NoCounts => /\ show.asOf <= time
                              /\ WasTrue(rows, show.counts, show.week, show.asOf - Gap, show.asOf)

\* Two rows of a pair at one instant: one of them names its mover.
OneOfEach(rows) ==
    \A i, j \in DOMAIN rows :
      /\ rows[i].pair = rows[j].pair /\ rows[i].at = rows[j].at
      /\ (rows[i].mover = Unknown) = (rows[j].mover = Unknown)
      => i = j

PushInv ==
    /\ pushTime \in 0 .. MaxPushTime
    /\ log \in Seq(Row) /\ OneOfEach(log)
    /\ \A i \in DOMAIN log : log[i].at <= log[i].stored /\ log[i].stored <= pushTime
    /\ reports \in [Reports -> Report]
    /\ \A r \in Reports : ReportTrue(reports[r], log, pushTime)
    /\ shown \in [Targets -> [counts : Counts, asOf : Int, week : Int]]
    /\ \A d \in Targets : ShownTrue(shown[d], log, pushTime)

LEMMA PushNumbers ==
  /\ Week \in Nat /\ Week > 0 /\ Gap \in Nat /\ MaxRows \in Nat /\ MaxPushTime \in Nat /\ Unknown \notin Users
<1>1. {Week, Gap, MaxRows, MaxPushTime} \subseteq Nat /\ Week > 0 /\ "null" \notin Users
  BY PushConstants
<1> QED BY <1>1 DEF Unknown

LEMMA WeekIsNumber == ASSUME NEW t \in Nat PROVE WeekOf(t) \in Nat
  BY PushNumbers DEF WeekOf

LEMMA WeeksGrow == ASSUME NEW t \in Nat, NEW u \in Nat, t <= u PROVE WeekOf(t) <= WeekOf(u)
<1> DEFINE p == WeekOf(t)
           q == WeekOf(u)
<1>1. p \in Nat /\ q \in Nat /\ Week \in Nat /\ Week > 0
  BY WeekIsNumber, PushNumbers
<1>2. Week * p <= t /\ u < Week * (q + 1)
  BY PushNumbers DEF WeekOf
<1> HIDE DEF p, q
<1>3. ASSUME q < p PROVE FALSE
  <2>1. Week * (q + 1) <= Week * p
    BY <1>1, <1>3
  <2> QED BY <1>1, <1>2, <2>1
<1> QED BY <1>1, <1>3 DEF p, q

\* A row that is stored now is after every prefix that a report or a dashboard has.
LEMMA TrueStays ==
  ASSUME NEW rows \in Seq(Row), NEW row \in Row, NEW counts, NEW week, NEW early \in Int, NEW late \in Int,
         WasTrue(rows, counts, week, early, late), early <= row.stored
  PROVE  WasTrue(Append(rows, row), counts, week, early, late)
<1> DEFINE more == Append(rows, row)
<1>1. /\ Len(rows) \in Nat /\ Len(more) = Len(rows) + 1 /\ DOMAIN rows = 1 .. Len(rows)
      /\ DOMAIN more = 1 .. Len(rows) + 1 /\ more[Len(rows) + 1] = row
      /\ \A i \in 1 .. Len(rows) : more[i] = rows[i]
  OBVIOUS
<1> HIDE DEF more
<1>2. PICK n \in 0 .. Len(rows) :
        /\ counts = Aggregate({rows[i] : i \in 1 .. n}, week)
        /\ \A i \in DOMAIN rows : IF i <= n THEN rows[i].stored <= late ELSE rows[i].stored >= early
  BY DEF WasTrue
<1>3. {more[i] : i \in 1 .. n} = {rows[i] : i \in 1 .. n}
  <2>1. \A i \in 1 .. n : i \in 1 .. Len(rows)
    BY <1>1, <1>2
  <2> QED BY <1>1, <2>1
<1>4. ASSUME NEW i \in DOMAIN more PROVE IF i <= n THEN more[i].stored <= late ELSE more[i].stored >= early
  <2>1. CASE i = Len(rows) + 1
    <3>1. ~(i <= n) /\ more[i] = row /\ row.stored \in Nat
      BY <1>1, <1>2, <2>1 DEF Row
    <3> QED BY <3>1
  <2>2. CASE i # Len(rows) + 1
    <3>1. i \in 1 .. Len(rows)
      BY <1>1, <1>4, <2>2
    <3> QED BY <1>1, <1>2, <3>1
  <2> QED BY <2>1, <2>2
<1>5. n \in 0 .. Len(more)
  BY <1>1, <1>2
<1> QED BY <1>2, <1>3, <1>4, <1>5 DEF WasTrue, more

LEMMA ReportFacts ==
  ASSUME NEW v \in Report
  PROVE  /\ v.step \in {"idle", "read", "stamp", "send"} /\ v.week \in Nat /\ v.counts \in Counts
         /\ v.began \in Nat /\ v.read \in Nat /\ v.asOf \in Nat /\ v.to \in SUBSET Targets /\ v.tries \in {0, 1}
  BY DEF Report

\* The latest row of a pair, and with a mover if one has.
LEMMA LatestRow ==
  ASSUME PushInv, NEW k \in DOMAIN log
  PROVE  \E i \in DOMAIN log :
           /\ log[i].pair = log[k].pair
           /\ \A j \in DOMAIN log : log[j].pair = log[k].pair =>
                log[j].at < log[i].at
                \/ (log[j].at = log[i].at /\ (log[i].mover # Unknown \/ log[j].mover = Unknown))
<1> DEFINE Mine == {i \in DOMAIN log : log[i].pair = log[k].pair}
           Ages == {n \in Nat : \E i \in Mine : n = pushTime - log[i].at}
<1>1. pushTime \in Nat /\ \A i \in Mine : log[i].at \in Nat /\ log[i].at <= pushTime /\ i \in DOMAIN log
  <2>1. \A i \in DOMAIN log : log[i] \in Row /\ log[i].at <= log[i].stored /\ log[i].stored <= pushTime
    BY DEF PushInv
  <2>2. \A i \in DOMAIN log : log[i].at \in Nat /\ log[i].stored \in Nat
    BY <2>1 DEF Row
  <2> QED BY <2>1, <2>2 DEF PushInv
<1>2. Ages \subseteq Nat /\ pushTime - log[k].at \in Ages
  BY <1>1
<1> HIDE DEF Ages
<1>3. PICK n \in Ages : \A m \in Ages : n <= m
  BY <1>2, FirstExists
<1>4. PICK a \in Mine : n = pushTime - log[a].at
  BY <1>3 DEF Ages
<1>5. \A j \in Mine : log[j].at <= log[a].at
  <2> TAKE j \in Mine
  <2>1. pushTime - log[j].at \in Ages /\ pushTime - log[j].at \in Nat
    BY <1>1 DEF Ages
  <2> QED BY <1>1, <1>3, <1>4, <2>1
<1> DEFINE Named == {i \in Mine : log[i].at = log[a].at /\ log[i].mover # Unknown}
<1>6. CASE Named = {}
  <2>1. \A j \in Mine : log[j].at < log[a].at \/ (log[j].at = log[a].at /\ log[j].mover = Unknown)
    BY <1>1, <1>5, <1>6
  <2> QED BY <1>4, <2>1
<1>7. CASE Named # {}
  <2>1. PICK b \in Named : TRUE
    BY <1>7
  <2>2. \A j \in Mine : log[j].at < log[b].at \/ log[j].at = log[b].at
    BY <1>1, <1>5, <2>1
  <2> QED BY <2>1, <2>2
<1> QED BY <1>6, <1>7

LEMMA CountsOnce == PushInv => PairsCountOnce
<1> SUFFICES ASSUME PushInv PROVE PairsCountOnce
  OBVIOUS
<1> DEFINE Places == AnyUser \X (0 .. WeekOf(pushTime))
<1>0. /\ log \in Seq(Row) /\ pushTime \in Nat
      /\ \A i \in DOMAIN log : log[i] \in Row /\ log[i].at <= pushTime
  <2>1. \A i \in DOMAIN log : log[i] \in Row /\ log[i].at <= log[i].stored /\ log[i].stored <= pushTime
    BY DEF PushInv
  <2>2. \A i \in DOMAIN log : log[i].at \in Nat /\ log[i].stored \in Nat
    BY <2>1 DEF Row
  <2> QED BY <2>1, <2>2 DEF PushInv
<1>1. ASSUME NEW row \in Rows
      PROVE  \E place \in Places : \A other \in Places :
               row.pair \in CountedPairs(Rows, other[1], other[2]) <=> other = place
  <2>1. PICK k \in DOMAIN log : row = log[k]
    BY <1>1 DEF Rows
  <2>2. PICK i \in DOMAIN log :
           /\ log[i].pair = log[k].pair
           /\ \A j \in DOMAIN log : log[j].pair = log[k].pair =>
                log[j].at < log[i].at
                \/ (log[j].at = log[i].at /\ (log[i].mover # Unknown \/ log[j].mover = Unknown))
    BY LatestRow
  <2> DEFINE best == log[i]
             place == <<best.mover, WeekOf(best.at)>>
  <2>3. best \in Row /\ best.mover \in AnyUser /\ best.at \in Nat /\ best.at <= pushTime /\ best \in Rows
    BY <1>0 DEF Rows, Row
  <2>4. place \in Places
    <3>1. WeekOf(best.at) \in Nat /\ WeekOf(pushTime) \in Nat /\ WeekOf(best.at) <= WeekOf(pushTime)
      BY <1>0, <2>3, WeekIsNumber, WeeksGrow
    <3> HIDE DEF best
    <3> QED BY <2>3, <3>1
  <2>5. \A o \in Rows : o.pair = row.pair =>
          o.at < best.at \/ (o.at = best.at /\ (best.mover # Unknown \/ o.mover = Unknown))
    BY <2>1, <2>2 DEF Rows
  <2>6. ASSUME NEW o \in Rows, o.pair = row.pair,
               \A p \in Rows : p.pair = o.pair =>
                 p.at < o.at \/ (p.at = o.at /\ (o.mover # Unknown \/ p.mover = Unknown))
        PROVE  o = best
    <3>1. PICK j \in DOMAIN log : o = log[j]
      BY <2>6 DEF Rows
    <3>2. o.at \in Nat
      BY <1>0, <3>1 DEF Row
    <3>3. best.pair = o.pair
      BY <2>1, <2>2, <2>6
    <3>4. best.at < o.at \/ (best.at = o.at /\ (o.mover # Unknown \/ best.mover = Unknown))
      BY <2>3, <2>6, <3>3
    <3>5. o.at < best.at \/ (o.at = best.at /\ (best.mover # Unknown \/ o.mover = Unknown))
      BY <2>5, <2>6
    <3>6. o.at = best.at /\ (o.mover = Unknown) = (best.mover = Unknown)
      BY <2>3, <3>2, <3>4, <3>5
    <3>7. i = j
      BY <3>1, <3>3, <3>6 DEF PushInv, OneOfEach
    <3> QED BY <3>1, <3>7
  <2>7. ASSUME NEW other \in Places PROVE row.pair \in CountedPairs(Rows, other[1], other[2]) <=> other = place
    <3>1. other = <<other[1], other[2]>>
      BY <2>7
    <3>2. ASSUME row.pair \in CountedPairs(Rows, other[1], other[2]) PROVE other = place
      <4>1. PICK o \in Rows : o.mover = other[1] /\ CountedIn(Rows, o, other[2]) /\ o.pair = row.pair
        BY <3>2 DEF CountedPairs
      <4>2. o = best
        BY <2>6, <4>1 DEF CountedIn
      <4> QED BY <3>1, <4>1, <4>2 DEF CountedIn
    <3>3. ASSUME other = place PROVE row.pair \in CountedPairs(Rows, other[1], other[2])
      <4>1. other[1] = best.mover /\ other[2] = WeekOf(best.at) /\ best.pair = row.pair
        BY <2>1, <2>2, <3>3
      <4>2. CountedIn(Rows, best, other[2])
        BY <2>5, <4>1 DEF CountedIn
      <4> QED BY <2>3, <4>1, <4>2 DEF CountedPairs
    <3> QED BY <3>2, <3>3
  <2> HIDE DEF place, Places
  <2> QED BY <2>4, <2>7
<1> QED BY <1>1 DEF PairsCountOnce, AnyUser
\* One report takes a step, and neither the log nor the clock nor a dashboard does.
LEMMA OneReports ==
  ASSUME PushInv, NEW r \in Reports, NEW w \in Report, ReportTrue(w, log, pushTime),
         reports' = [reports EXCEPT ![r] = w], UNCHANGED <<pushTime, log, shown>>
  PROVE  PushInv'
<1>1. reports' \in [Reports -> Report] /\ \A s \in Reports : reports'[s] = IF s = r THEN w ELSE reports[s]
  BY DEF PushInv
<1>2. \A s \in Reports : ReportTrue(reports'[s], log, pushTime)
  BY <1>1 DEF PushInv
<1> QED BY <1>1, <1>2 DEF PushInv

LEMMA RestingIs == Resting \in Report /\ Resting.step = "idle"
<1>1. NoCounts \in Counts
  BY DEF Counts
<1> HIDE DEF Counts, NoCounts
<1> QED BY <1>1 DEF Resting, Report

\* A report that begins, for some dashboards.
LEMMA BeginsIs ==
  ASSUME PushInv, NEW ds \in SUBSET Targets, Begins(ds)
  PROVE  \E r \in Reports, w \in Report : reports' = [reports EXCEPT ![r] = w] /\ w.step = "read"
<1>1. PICK r \in Reports :
        reports' = [reports EXCEPT ![r] = [Resting EXCEPT !.step = "read", !.week = WeekOf(pushTime),
                                                          !.began = pushTime, !.to = ds]]
  BY DEF Begins
<1> DEFINE w == [Resting EXCEPT !.step = "read", !.week = WeekOf(pushTime), !.began = pushTime, !.to = ds]
<1>2. pushTime \in Nat /\ WeekOf(pushTime) \in Nat
  BY WeekIsNumber DEF PushInv
<1> HIDE DEF Resting
<1>3. w \in Report /\ w.step = "read"
  BY <1>2, RestingIs DEF Report
<1> QED BY <1>1, <1>3

LEMMA StoresKeeps ==
  ASSUME PushInv, NEW pair \in Pairs, NEW at \in 0 .. pushTime, NEW u \in Users \cup {Unknown},
         Stores(pair, at, u)
  PROVE  PushInv'
<1> DEFINE row == [pair |-> pair, at |-> at, mover |-> u, stored |-> pushTime]
           more == Append(log, row)
<1>1. /\ log' = more /\ pushTime' = pushTime /\ shown' = shown
      /\ \A o \in Rows : ~(o.pair = pair /\ o.at = at /\ (o.mover = Unknown) = (u = Unknown))
      /\ Begins(Targets) \/ UNCHANGED reports
  BY DEF Stores
<1>2. /\ pushTime \in Nat /\ log \in Seq(Row) /\ OneOfEach(log) /\ Gap \in Nat
      /\ \A i \in DOMAIN log : log[i].at <= log[i].stored /\ log[i].stored <= pushTime
  BY PushNumbers DEF PushInv
<1>3. /\ row \in Row /\ row.pair = pair /\ row.at = at /\ row.mover = u /\ row.stored = pushTime
      /\ row.at <= row.stored /\ row.stored <= pushTime
  BY <1>2 DEF Row, AnyUser
<1> HIDE DEF row
<1>4. /\ more \in Seq(Row) /\ Len(log) \in Nat /\ DOMAIN log = 1 .. Len(log) /\ DOMAIN more = 1 .. Len(log) + 1
      /\ more[Len(log) + 1] = row /\ \A i \in 1 .. Len(log) : more[i] = log[i]
  BY <1>2, <1>3
<1> HIDE DEF more
<1>5. \A i \in DOMAIN more : more[i] = row \/ (i \in DOMAIN log /\ more[i] = log[i])
  <2> TAKE i \in DOMAIN more
  <2>1. i = Len(log) + 1 \/ i \in 1 .. Len(log)
    BY <1>4
  <2> QED BY <1>4, <2>1
<1>6. \A i \in DOMAIN more : more[i].at <= more[i].stored /\ more[i].stored <= pushTime
  BY <1>2, <1>3, <1>5
<1>7. OneOfEach(more)
  <2>1. ASSUME NEW i \in DOMAIN log
        PROVE  ~(log[i].pair = row.pair /\ log[i].at = row.at /\ (log[i].mover = Unknown) = (row.mover = Unknown))
    BY <1>1, <1>3, <2>1 DEF Rows
  <2>2. ASSUME NEW i \in DOMAIN more, NEW j \in DOMAIN more, more[i].pair = more[j].pair,
               more[i].at = more[j].at, (more[i].mover = Unknown) = (more[j].mover = Unknown)
        PROVE  i = j
    <3>1. CASE i = Len(log) + 1 /\ j = Len(log) + 1
      BY <3>1
    <3>2. CASE i = Len(log) + 1 /\ j \in 1 .. Len(log)
      <4>1. more[i] = row /\ more[j] = log[j] /\ j \in DOMAIN log
        BY <1>4, <3>2
      <4> QED BY <2>1, <2>2, <4>1
    <3>3. CASE i \in 1 .. Len(log) /\ j = Len(log) + 1
      <4>1. more[j] = row /\ more[i] = log[i] /\ i \in DOMAIN log
        BY <1>4, <3>3
      <4> QED BY <2>1, <2>2, <4>1
    <3>4. CASE i \in 1 .. Len(log) /\ j \in 1 .. Len(log)
      <4>1. more[j] = log[j] /\ more[i] = log[i] /\ i \in DOMAIN log /\ j \in DOMAIN log
        BY <1>4, <3>4
      <4> QED BY <1>2, <2>2, <4>1 DEF OneOfEach
    <3> QED BY <1>4, <3>1, <3>2, <3>3, <3>4
  <2> QED BY <2>2 DEF OneOfEach
<1>8. \A v \in Report : ReportTrue(v, log, pushTime) => ReportTrue(v, more, pushTime)
  <2> SUFFICES ASSUME NEW v \in Report, ReportTrue(v, log, pushTime) PROVE ReportTrue(v, more, pushTime)
    OBVIOUS
  <2>1. v.read \in Nat /\ v.asOf \in Nat /\ v.asOf - Gap \in Int
    BY <1>2, ReportFacts
  <2>2. v.step = "stamp" => WasTrue(more, v.counts, v.week, v.read, v.read)
    BY <1>2, <1>3, <2>1, TrueStays DEF ReportTrue, more
  <2>3. v.step = "send" => WasTrue(more, v.counts, v.week, v.asOf - Gap, v.asOf)
    <3>1. v.step = "send" => v.asOf - Gap <= row.stored
      BY <1>2, <1>3, <2>1 DEF ReportTrue
    <3> QED BY <1>2, <1>3, <2>1, <3>1, TrueStays DEF ReportTrue, more
  <2> QED BY <2>2, <2>3 DEF ReportTrue
<1>9. \A d \in Targets : ShownTrue(shown[d], more, pushTime)
  <2> SUFFICES ASSUME NEW d \in Targets PROVE ShownTrue(shown[d], more, pushTime)
    OBVIOUS
  <2> DEFINE v == shown[d]
  <2>1. v.asOf \in Int /\ v.asOf - Gap \in Int /\ ShownTrue(v, log, pushTime)
    BY <1>2 DEF PushInv
  <2> HIDE DEF v
  <2>2. v.counts # NoCounts => WasTrue(more, v.counts, v.week, v.asOf - Gap, v.asOf)
    <3>1. v.counts # NoCounts => v.asOf - Gap <= row.stored
      BY <1>2, <1>3, <2>1 DEF ShownTrue
    <3> QED BY <1>2, <1>3, <2>1, <3>1, TrueStays DEF ShownTrue, more
  <2>3. ShownTrue(v, more, pushTime)
    BY <2>1, <2>2 DEF ShownTrue
  <2> QED BY <2>3 DEF v
<1>10. reports' \in [Reports -> Report] /\ \A r \in Reports : ReportTrue(reports'[r], more, pushTime)
  <2>1. reports \in [Reports -> Report] /\ \A r \in Reports : ReportTrue(reports[r], more, pushTime)
    BY <1>8 DEF PushInv
  <2>2. CASE UNCHANGED reports
    BY <2>1, <2>2
  <2>3. CASE Begins(Targets)
    <3>1. PICK r \in Reports, w \in Report : reports' = [reports EXCEPT ![r] = w] /\ w.step = "read"
      BY <2>3, BeginsIs
    <3>2. \A s \in Reports : reports'[s] = IF s = r THEN w ELSE reports[s]
      BY <2>1, <3>1
    <3>3. ReportTrue(w, more, pushTime)
      BY <3>1 DEF ReportTrue
    <3> QED BY <2>1, <3>1, <3>2, <3>3
  <2> QED BY <1>1, <2>2, <2>3
<1> QED BY <1>1, <1>2, <1>4, <1>6, <1>7, <1>9, <1>10 DEF PushInv

LEMMA PullsKeeps == ASSUME PushInv, NEW d \in Targets, Pulls(d) PROVE PushInv'
<1>1. PICK r \in Reports, w \in Report : reports' = [reports EXCEPT ![r] = w] /\ w.step = "read"
  BY BeginsIs DEF Pulls
<1>2. ReportTrue(w, log, pushTime)
  BY <1>1 DEF ReportTrue
<1> QED BY <1>1, <1>2, OneReports DEF Pulls

LEMMA ReadsKeeps == ASSUME PushInv, NEW r \in Reports, Reads(r) PROVE PushInv'
<1> DEFINE v == reports[r]
           counts == Aggregate(Rows, v.week)
           w == [v EXCEPT !.step = "stamp", !.read = pushTime, !.counts = counts]
<1>1. v \in Report /\ pushTime \in Nat /\ log \in Seq(Row) /\ reports \in [Reports -> Report]
      /\ \A i \in DOMAIN log : log[i] \in Row /\ log[i].stored <= pushTime
  BY DEF PushInv
<1>2. reports' = [reports EXCEPT ![r] = w] /\ UNCHANGED <<pushTime, log, shown>>
  BY <1>1 DEF Reads
<1>3. Rows \in SUBSET Row /\ Rows = {log[i] : i \in 1 .. Len(log)} /\ Len(log) \in Nat
      /\ DOMAIN log = 1 .. Len(log)
  BY <1>1 DEF Rows
<1>4. counts \in Counts
  <2>1. v.week \in Nat
    BY <1>1, ReportFacts
  <2>2. \E rows \in SUBSET Row, week \in Nat : counts = Aggregate(rows, week)
    BY <1>3, <2>1
  <2> HIDE DEF counts
  <2> QED BY <2>2 DEF Counts
<1> HIDE DEF v, counts
<1>5. w \in Report /\ w.step = "stamp" /\ w.read = pushTime /\ w.counts = counts /\ w.week = v.week
  BY <1>1, <1>4 DEF Report
<1> HIDE DEF w
<1>6. WasTrue(log, counts, v.week, pushTime, pushTime)
  <2>1. Len(log) \in 0 .. Len(log) /\ \A i \in DOMAIN log : i <= Len(log)
    BY <1>3
  <2> QED BY <1>1, <1>3, <2>1 DEF WasTrue, counts
<1>7. ReportTrue(w, log, pushTime)
  BY <1>1, <1>5, <1>6, PushNumbers DEF ReportTrue
<1> QED BY <1>2, <1>5, <1>7, OneReports

LEMMA StampsKeeps == ASSUME PushInv, NEW r \in Reports, Stamps(r) PROVE PushInv'
<1> DEFINE v == reports[r]
           w == [v EXCEPT !.step = "send", !.asOf = pushTime, !.began = 0, !.read = 0]
<1>1. v \in Report /\ pushTime \in Nat /\ log \in Seq(Row) /\ reports \in [Reports -> Report]
      /\ ReportTrue(v, log, pushTime) /\ Gap \in Nat
      /\ \A i \in DOMAIN log : log[i].stored \in Nat
  <2>1. \A i \in DOMAIN log : log[i] \in Row
    BY DEF PushInv
  <2> QED BY <2>1, PushNumbers DEF PushInv, Row
<1>2. reports' = [reports EXCEPT ![r] = w] /\ UNCHANGED <<pushTime, log, shown>> /\ v.step = "stamp"
  BY <1>1 DEF Stamps
<1> HIDE DEF v
<1>3. w \in Report /\ w.step = "send" /\ w.asOf = pushTime /\ w.counts = v.counts /\ w.week = v.week
  BY <1>1 DEF Report
<1> HIDE DEF w
<1>4. v.read \in Nat /\ v.read <= pushTime /\ pushTime <= v.read + Gap
      /\ WasTrue(log, v.counts, v.week, v.read, v.read)
  BY <1>1, <1>2, ReportFacts DEF ReportTrue
<1>5. PICK n \in 0 .. Len(log) :
        /\ v.counts = Aggregate({log[i] : i \in 1 .. n}, v.week)
        /\ \A i \in DOMAIN log : IF i <= n THEN log[i].stored <= v.read ELSE log[i].stored >= v.read
  BY <1>4 DEF WasTrue
<1>6. \A i \in DOMAIN log : IF i <= n THEN log[i].stored <= pushTime ELSE log[i].stored >= pushTime - Gap
  BY <1>1, <1>4, <1>5
<1>7. WasTrue(log, v.counts, v.week, pushTime - Gap, pushTime)
  BY <1>5, <1>6 DEF WasTrue
<1>8. ReportTrue(w, log, pushTime)
  BY <1>1, <1>3, <1>7 DEF ReportTrue
<1> QED BY <1>2, <1>3, <1>8, OneReports

LEMMA AbsorbedKeeps == ASSUME PushInv, NEW r \in Reports, Absorbed(r) PROVE PushInv'
<1>1. reports' = [reports EXCEPT ![r] = Resting] /\ UNCHANGED <<pushTime, log, shown>>
  BY DEF Absorbed
<1>2. ReportTrue(Resting, log, pushTime)
  BY RestingIs DEF ReportTrue
<1> QED BY <1>1, <1>2, RestingIs, OneReports

LEMMA DeliversKeeps == ASSUME PushInv, NEW r \in Reports, NEW d \in Targets, Delivers(r, d) PROVE PushInv'
<1> DEFINE v == reports[r]
           settled == [v EXCEPT !.to = @ \ {d}, !.tries = 0, !.step = IF v.to = {d} THEN "idle" ELSE "send"]
           show == [counts |-> v.counts, asOf |-> v.asOf, week |-> v.week]
<1>1. v \in Report /\ ReportTrue(v, log, pushTime) /\ reports \in [Reports -> Report]
  BY DEF PushInv
<1>2. /\ v.step = "send" /\ UNCHANGED <<pushTime, log>>
      /\ shown' = shown \/ shown' = [shown EXCEPT ![d] = show]
      /\ \/ reports' = [reports EXCEPT ![r] = IF settled.step = "idle" THEN Resting ELSE settled]
         \/ reports' = [reports EXCEPT ![r] = [v EXCEPT !.tries = 1]]
  BY DEF Delivers
<1> HIDE DEF v
<1>3. settled \in Report /\ (settled.step = "idle" \/ settled.step = "send") /\ settled.asOf = v.asOf
      /\ settled.counts = v.counts /\ settled.week = v.week
  BY <1>1 DEF Report
<1> HIDE DEF settled
<1>4. ReportTrue(settled, log, pushTime)
  BY <1>1, <1>2, <1>3 DEF ReportTrue
<1>5. PICK w \in Report : reports' = [reports EXCEPT ![r] = w] /\ ReportTrue(w, log, pushTime)
  <2>1. CASE reports' = [reports EXCEPT ![r] = IF settled.step = "idle" THEN Resting ELSE settled]
    BY <1>3, <1>4, <2>1, RestingIs DEF ReportTrue
  <2>2. CASE reports' = [reports EXCEPT ![r] = [v EXCEPT !.tries = 1]]
    <3> DEFINE w == [v EXCEPT !.tries = 1]
    <3>1. w \in Report /\ w.step = v.step /\ w.asOf = v.asOf /\ w.counts = v.counts /\ w.week = v.week
          /\ w.read = v.read
      BY <1>1 DEF Report
    <3>2. reports' = [reports EXCEPT ![r] = w]
      BY <2>2
    <3> HIDE DEF w
    <3>3. ReportTrue(w, log, pushTime)
      BY <1>1, <3>1 DEF ReportTrue
    <3> QED BY <3>1, <3>2, <3>3
  <2> QED BY <1>2, <2>1, <2>2
<1>6. reports' \in [Reports -> Report] /\ \A s \in Reports : ReportTrue(reports'[s], log, pushTime)
  <2>1. \A s \in Reports : reports'[s] = IF s = r THEN w ELSE reports[s]
    BY <1>1, <1>5
  <2> QED BY <1>1, <1>5, <2>1 DEF PushInv
<1>7. /\ show \in [counts : Counts, asOf : Int, week : Int]
      /\ show.counts = v.counts /\ show.asOf = v.asOf /\ show.week = v.week
  <2>1. v.counts \in Counts /\ v.asOf \in Int /\ v.week \in Int
    BY <1>1, ReportFacts
  <2> QED BY <2>1
<1> HIDE DEF show
<1>8. ShownTrue(show, log, pushTime)
  BY <1>1, <1>2, <1>7 DEF ReportTrue, ShownTrue
<1>9. shown' \in [Targets -> [counts : Counts, asOf : Int, week : Int]]
      /\ \A e \in Targets : ShownTrue(shown'[e], log, pushTime)
  <2>1. CASE shown' = shown
    BY <2>1 DEF PushInv
  <2>2. CASE shown' = [shown EXCEPT ![d] = show]
    <3>1. \A e \in Targets : shown'[e] = IF e = d THEN show ELSE shown[e]
      BY <2>2 DEF PushInv
    <3> QED BY <1>7, <1>8, <2>2, <3>1 DEF PushInv
  <2> QED BY <1>2, <2>1, <2>2
<1> QED BY <1>2, <1>6, <1>9 DEF PushInv

LEMMA PushTickKeeps == ASSUME PushInv, PushTick PROVE PushInv'
<1>1. /\ pushTime < MaxPushTime /\ pushTime' = pushTime + 1 /\ UNCHANGED <<log, reports, shown>>
      /\ \A r \in Reports : reports[r].step = "stamp" => pushTime < reports[r].read + Gap
  BY DEF PushTick
<1>2. pushTime \in Nat /\ pushTime' \in 0 .. MaxPushTime /\ MaxPushTime \in Nat /\ Gap \in Nat
  BY <1>1, PushNumbers DEF PushInv
<1>3. \A i \in DOMAIN log : log[i].at <= log[i].stored /\ log[i].stored <= pushTime + 1
  <2>1. \A i \in DOMAIN log : log[i] \in Row
    BY DEF PushInv
  <2>2. \A i \in DOMAIN log : log[i].stored \in Nat
    BY <2>1 DEF Row
  <2> QED BY <1>2, <2>2 DEF PushInv
<1>4. \A r \in Reports : ReportTrue(reports[r], log, pushTime + 1)
  <2> TAKE r \in Reports
  <2> DEFINE v == reports[r]
  <2>1. v \in Report /\ ReportTrue(v, log, pushTime) /\ (v.step = "stamp" => pushTime < v.read + Gap)
    BY <1>1 DEF PushInv
  <2> HIDE DEF v
  <2>2. v.read \in Nat /\ v.asOf \in Nat
    BY <2>1, ReportFacts
  <2>3. ReportTrue(v, log, pushTime + 1)
    BY <1>2, <2>1, <2>2 DEF ReportTrue
  <2> QED BY <2>3 DEF v
<1>5. \A d \in Targets : ShownTrue(shown[d], log, pushTime + 1)
  <2> TAKE d \in Targets
  <2>1. shown[d].asOf \in Int /\ ShownTrue(shown[d], log, pushTime)
    BY DEF PushInv
  <2> QED BY <1>2, <2>1 DEF ShownTrue
<1> QED BY <1>1, <1>2, <1>3, <1>4, <1>5 DEF PushInv

LEMMA PushKept == PushInv /\ [PushNext]_pushVars => PushInv'
<1> SUFFICES ASSUME PushInv, [PushNext]_pushVars PROVE PushInv'
  OBVIOUS
<1>1. CASE UNCHANGED pushVars
  BY <1>1 DEF pushVars, PushInv
<1> QED BY <1>1, StoresKeeps, PullsKeeps, ReadsKeeps, StampsKeeps, AbsorbedKeeps, DeliversKeeps, PushTickKeeps
    DEF PushNext

LEMMA PushStarts == PushInit => PushInv
<1> SUFFICES ASSUME PushInit PROVE PushInv
  OBVIOUS
<1>1. /\ pushTime = 0 /\ log = <<>> /\ reports = [r \in Reports |-> Resting]
      /\ shown = [d \in Targets |-> [counts |-> NoCounts, asOf |-> -1, week |-> -1]]
  BY DEF PushInit
<1>2. pushTime \in 0 .. MaxPushTime /\ log \in Seq(Row) /\ DOMAIN log = {}
  BY <1>1, PushNumbers
<1>3. reports \in [Reports -> Report] /\ \A r \in Reports : ReportTrue(reports[r], log, pushTime)
  <2> HIDE DEF Resting
  <2> QED BY <1>1, RestingIs DEF ReportTrue
<1>4. /\ shown \in [Targets -> [counts : Counts, asOf : Int, week : Int]]
      /\ \A d \in Targets : shown[d].counts = NoCounts
  <2>1. NoCounts \in Counts
    BY DEF Counts
  <2> HIDE DEF Counts, NoCounts
  <2> QED BY <1>1, <2>1
<1> HIDE DEF NoCounts
<1> QED BY <1>2, <1>3, <1>4 DEF PushInv, OneOfEach, ShownTrue

LEMMA PushTells == PushInv => PushTypeOK /\ ShownWasTrue
<1> SUFFICES ASSUME PushInv PROVE PushTypeOK /\ ShownWasTrue
  OBVIOUS
<1>1. PushTypeOK
  <2>1. \A row \in Rows : row.pair \in Pairs /\ row.mover \in Users \cup {Unknown} /\ row.at <= row.stored
    <3> TAKE row \in Rows
    <3>1. PICK i \in DOMAIN log : row = log[i]
      BY DEF Rows
    <3>2. row \in Row /\ row.at <= row.stored
      BY <3>1 DEF PushInv
    <3> QED BY <3>2 DEF Row, AnyUser
  <2>2. \A r \in Reports : reports[r] \in Report
    BY DEF PushInv
  <2>3. \A r \in Reports : /\ reports[r].step \in {"idle", "read", "stamp", "send"}
                           /\ reports[r].to \subseteq Targets /\ reports[r].tries \in {0, 1}
    BY <2>2, ReportFacts
  <2> QED BY <2>1, <2>3 DEF PushTypeOK, PushInv
<1>2. ShownWasTrue
  BY DEF PushInv, ShownTrue, WasTrue, ShownWasTrue, Prefix
<1> QED BY <1>1, <1>2

\* However many reports are under way, and whichever are lost or come late, a
\* dashboard shows what the log counted, and a pair counts once (stage-stats.js:
\* 451-457, 809-813).
THEOREM DashboardsShowTheLog == PushSpec => [](PushTypeOK /\ ShownWasTrue /\ PairsCountOnce)
  BY PushStarts, PushKept, PushTells, CountsOnce, PTL DEF PushSpec

-----------------------------------------------------------------------------
(* BY WHICH LIST.  A list in KV was the job's at most an invocation before *)
(* it was put there, so an invocation that takes it from KV has one that   *)
(* the job had less than an entry's life and an invocation before it       *)
(* began.  What it fetches itself, or the want of it, is of its own time.  *)

\* The lists lv have list at a time from t to time.
Lived(list, t, time, lv) == \E u \in 0 .. time : u >= t /\ list \in lv[u]

AnyList == Lists \cup {Gone}

Verdicts == {"none", "both", "cv", "iv", "unflagged", "kept", "dropped", "failed"}

Invocation == [step : {"idle", "get", "fetch", "put", "judge", "judged"}, began : Nat, memo : AnyList,
               fresh : BOOLEAN, heals : BOOLEAN, answer : AnyList, move : Judged \cup {NoMove},
               verdict : Verdicts]

Left == {"unflagged", "dropped"}

\* What an invocation v holds is so by the lists lv up to time.
Grounded(v, time, lv) ==
    /\ v.step = "idle" => v.memo = Gone /\ ~v.fresh
    /\ v.step # "idle" => v.began <= time /\ time <= v.began + Span
    /\ v.memo # Gone => Lived(v.memo, v.began - (Span + ListTTL) + 1, time, lv)
    /\ v.memo # Gone /\ v.fresh => Lived(v.memo, v.began, time, lv)
    /\ v.step = "put" => Lived(v.answer, v.began, time, lv)
    /\ v.step = "get" => ~v.heals
    /\ v.step = "judge" /\ v.heals /\ ~v.fresh => Lived(Gone, v.began, time, lv)
    /\ v.step = "judged" /\ v.memo # Gone /\ v.verdict \in Left /\ Doubtful(v.memo, v.move) =>
         Lived(v.memo, v.began, time, lv) \/ Lived(Gone, v.began, time, lv)

CachedGrounded(entry, time, lv) ==
    entry.expires > 0 => Lived(entry.list, entry.expires - (Span + ListTTL), time, lv)

PipelinesInv ==
    /\ listTime \in 0 .. MaxListTime /\ live \in AnyList
    /\ lived \in [0 .. MaxListTime -> SUBSET AnyList] /\ live \in lived[listTime]
    /\ cached \in [list : AnyList, expires : Nat] /\ CachedGrounded(cached, listTime, lived)
    /\ inv \in [Invocations -> Invocation]
    /\ \A i \in Invocations : Grounded(inv[i], listTime, lived)

LEMMA ListNumbers ==
  /\ ListTTL \in Nat /\ Span \in Nat /\ MaxListTime \in Nat /\ MaxEdits \in Nat
  /\ ListTTL > 0 /\ Span > 0 /\ Gone \notin Lists
  BY ListConstants DEF Gone

\* Time and the history only grow.
LEMMA LivedGrows ==
  ASSUME NEW time \in Nat, NEW later \in Nat, NEW lv, NEW more, time <= later,
         \A u \in 0 .. time : lv[u] \subseteq more[u]
  PROVE  \A list, t : Lived(list, t, time, lv) => Lived(list, t, later, more)
  BY DEF Lived

LEMMA StaysGrounded ==
  ASSUME NEW time \in Nat, NEW later \in Nat, NEW lv, NEW more, time <= later,
         \A u \in 0 .. time : lv[u] \subseteq more[u],
         NEW v \in Invocation, Grounded(v, time, lv), v.step # "idle" => later <= v.began + Span
  PROVE  Grounded(v, later, more)
<1>1. \A list, t : Lived(list, t, time, lv) => Lived(list, t, later, more)
  BY LivedGrows
<1>2. v.step # "idle" => v.began <= later
  BY DEF Grounded, Invocation
<1> QED BY <1>1, <1>2 DEF Grounded

\* One invocation takes a step, and the lists stay.
LEMMA OneSteps ==
  ASSUME PipelinesInv, NEW i \in Invocations, NEW w \in Invocation,
         inv' = [inv EXCEPT ![i] = w], UNCHANGED <<listTime, live, listEdits, lived>>,
         cached' \in [list : AnyList, expires : Nat], CachedGrounded(cached', listTime, lived),
         Grounded(w, listTime, lived)
  PROVE  PipelinesInv'
<1>1. inv' \in [Invocations -> Invocation] /\ \A j \in Invocations : inv'[j] = IF j = i THEN w ELSE inv[j]
  BY DEF PipelinesInv
<1>2. \A j \in Invocations : Grounded(inv'[j], listTime, lived)
  BY <1>1 DEF PipelinesInv
<1> QED BY <1>1, <1>2 DEF PipelinesInv

\* A record of an invocation, field by field.
LEMMA InvocationFacts ==
  ASSUME NEW v \in Invocation
  PROVE  /\ v.step \in {"idle", "get", "fetch", "put", "judge", "judged"} /\ v.began \in Nat
         /\ v.memo \in AnyList /\ v.fresh \in BOOLEAN /\ v.heals \in BOOLEAN /\ v.answer \in AnyList
         /\ v.move \in Judged \cup {NoMove} /\ v.verdict \in Verdicts
  BY DEF Invocation

LEMMA WaitingIs ==
  Waiting \in Invocation /\ Waiting.step = "idle" /\ Waiting.memo = Gone /\ Waiting.fresh = FALSE
<1>1. Gone \in AnyList /\ NoMove \in Judged \cup {NoMove} /\ "none" \in Verdicts
  BY DEF AnyList, Verdicts
<1> HIDE DEF AnyList, Verdicts, Gone, NoMove
<1> QED BY <1>1 DEF Waiting, Invocation

LEMMA TakesKeeps ==
  ASSUME PipelinesInv, NEW i \in Invocations, NEW m \in Judged, TakesMove(i, m) PROVE PipelinesInv'
<1> DEFINE v == inv[i]
           w == [v EXCEPT !.step = "get", !.move = m, !.verdict = "none", !.heals = FALSE,
                          !.began = IF v.step = "idle" THEN listTime ELSE v.began]
<1>1. v \in Invocation /\ Grounded(v, listTime, lived) /\ listTime \in Nat
  BY DEF PipelinesInv
<1>2. /\ v.step \in {"idle", "judged"} /\ inv' = [inv EXCEPT ![i] = w]
      /\ UNCHANGED <<listTime, live, listEdits, lived, cached>>
  <2>1. inv' = [inv EXCEPT ![i] = w]
    BY DEF TakesMove
  <2> QED BY <2>1 DEF TakesMove
<1> HIDE DEF v
<1>4. /\ w.step = "get" /\ w.began = (IF v.step = "idle" THEN listTime ELSE v.began) /\ w.memo = v.memo
      /\ w.fresh = v.fresh /\ w.heals = FALSE /\ w \in Invocation
  BY <1>1, InvocationFacts DEF Invocation, Verdicts
<1> HIDE DEF w
<1>5. Grounded(w, listTime, lived)
  BY <1>1, <1>2, <1>4, ListNumbers DEF Grounded
<1> QED BY <1>2, <1>4, <1>5, OneSteps DEF PipelinesInv

LEMMA GetsKeeps ==
  ASSUME PipelinesInv, NEW i \in Invocations, Gets(i) PROVE PipelinesInv'
<1> DEFINE v == inv[i]
<1>1. v \in Invocation /\ Grounded(v, listTime, lived) /\ listTime \in Nat
  BY DEF PipelinesInv
<1>2. /\ v.step = "get"
      /\ inv' = IF v.memo # Gone THEN [inv EXCEPT ![i] = [v EXCEPT !.step = "judge"]]
                ELSE IF cached.expires > listTime
                     THEN [inv EXCEPT ![i] = [v EXCEPT !.step = "judge", !.memo = cached.list, !.fresh = FALSE]]
                     ELSE [inv EXCEPT ![i] = [v EXCEPT !.step = "fetch"]]
      /\ UNCHANGED <<listTime, live, listEdits, lived, cached>>
  BY DEF Gets, To, PipelinesInv
<1> HIDE DEF v
<1>3. CASE v.memo # Gone
  <2> DEFINE w == [v EXCEPT !.step = "judge"]
  <2>2. inv' = [inv EXCEPT ![i] = w]
    BY <1>2, <1>3
  <2>3. /\ w.step = "judge" /\ w.began = v.began /\ w.memo = v.memo
        /\ w.fresh = v.fresh /\ w.heals = v.heals /\ w \in Invocation
    BY <1>1, InvocationFacts DEF Invocation
  <2> HIDE DEF w
  <2>4. Grounded(w, listTime, lived)
    BY <1>1, <1>2, <2>3 DEF Grounded
  <2> QED BY <1>2, <2>2, <2>3, <2>4, OneSteps DEF PipelinesInv
<1>4. CASE v.memo = Gone /\ cached.expires > listTime
  <2> DEFINE w == [v EXCEPT !.step = "judge", !.memo = cached.list, !.fresh = FALSE]
  <2>2. inv' = [inv EXCEPT ![i] = w]
    BY <1>2, <1>4
  <2>c. cached.list \in AnyList /\ cached.expires \in Nat /\ CachedGrounded(cached, listTime, lived)
    BY DEF PipelinesInv
  <2>3. /\ w.step = "judge" /\ w.began = v.began /\ w.memo = cached.list
        /\ w.fresh = FALSE /\ w.heals = v.heals /\ w \in Invocation
    BY <1>1, <2>c, InvocationFacts DEF Invocation
  <2> HIDE DEF w
  <2>4. Lived(cached.list, cached.expires - (Span + ListTTL), listTime, lived)
    BY <1>1, <1>4, <2>c DEF CachedGrounded
  <2>5. PICK u \in 0 .. listTime : u >= cached.expires - (Span + ListTTL) /\ cached.list \in lived[u]
    BY <2>4 DEF Lived
  <2>6. v.began <= listTime /\ v.began \in Nat /\ ~v.heals
    BY <1>1, <1>2, InvocationFacts DEF Grounded
  <2>7. u >= v.began - (Span + ListTTL) + 1
    BY <1>1, <1>4, <2>5, <2>6, <2>c, ListNumbers
  <2>8. Lived(w.memo, w.began - (Span + ListTTL) + 1, listTime, lived)
    BY <2>3, <2>5, <2>7 DEF Lived
  <2>9. Grounded(w, listTime, lived)
    BY <1>1, <1>2, <2>3, <2>6, <2>8 DEF Grounded
  <2> QED BY <1>2, <2>2, <2>3, <2>9, OneSteps DEF PipelinesInv
<1>5. CASE v.memo = Gone /\ ~(cached.expires > listTime)
  <2> DEFINE w == [v EXCEPT !.step = "fetch"]
  <2>2. inv' = [inv EXCEPT ![i] = w]
    BY <1>2, <1>5
  <2>3. /\ w.step = "fetch" /\ w.began = v.began /\ w.memo = v.memo
        /\ w.fresh = v.fresh /\ w.heals = v.heals /\ w \in Invocation
    BY <1>1, InvocationFacts DEF Invocation
  <2> HIDE DEF w
  <2>4. Grounded(w, listTime, lived)
    BY <1>1, <1>2, <2>3 DEF Grounded
  <2> QED BY <1>2, <2>2, <2>3, <2>4, OneSteps DEF PipelinesInv
<1> QED BY <1>3, <1>4, <1>5

LEMMA FetchesKeeps ==
  ASSUME PipelinesInv, NEW i \in Invocations, Fetches(i) PROVE PipelinesInv'
<1> DEFINE v == inv[i]
           verdict == IF v.move.kind = "gate" THEN "dropped" ELSE "unflagged"
<1>1. v \in Invocation /\ Grounded(v, listTime, lived) /\ listTime \in Nat /\ live \in AnyList
      /\ live \in lived[listTime]
  BY DEF PipelinesInv
<1>2. /\ v.step = "fetch"
      /\ inv' = IF live # Gone THEN [inv EXCEPT ![i] = [v EXCEPT !.step = "put", !.answer = live]]
                ELSE IF v.heals /\ v.move.kind = "classify" THEN [inv EXCEPT ![i] = [v EXCEPT !.step = "judge"]]
                ELSE [inv EXCEPT ![i] = [v EXCEPT !.step = "judged", !.verdict = verdict]]
      /\ UNCHANGED <<listTime, live, listEdits, lived, cached>>
  BY DEF Fetches, To, Decides, PipelinesInv
<1> HIDE DEF v, verdict
<1>3. v.began <= listTime /\ v.began \in Nat
  BY <1>1, <1>2, InvocationFacts DEF Grounded
<1>4. Lived(live, v.began, listTime, lived)
  <2>1. listTime \in 0 .. listTime /\ listTime >= v.began
    BY <1>1, <1>3
  <2> QED BY <1>1, <2>1 DEF Lived
<1>5. CASE live # Gone
  <2> DEFINE w == [v EXCEPT !.step = "put", !.answer = live]
  <2>2. inv' = [inv EXCEPT ![i] = w]
    BY <1>2, <1>5
  <2>3. /\ w.step = "put" /\ w.began = v.began /\ w.memo = v.memo /\ w.answer = live
        /\ w.fresh = v.fresh /\ w.heals = v.heals /\ w \in Invocation
    BY <1>1, InvocationFacts DEF Invocation
  <2> HIDE DEF w
  <2>4. Grounded(w, listTime, lived)
    BY <1>1, <1>2, <1>4, <2>3 DEF Grounded
  <2> QED BY <1>2, <2>2, <2>3, <2>4, OneSteps DEF PipelinesInv
<1>6. CASE live = Gone /\ v.heals /\ v.move.kind = "classify"
  <2> DEFINE w == [v EXCEPT !.step = "judge"]
  <2>2. inv' = [inv EXCEPT ![i] = w]
    BY <1>2, <1>6
  <2>3. /\ w.step = "judge" /\ w.began = v.began /\ w.memo = v.memo
        /\ w.fresh = v.fresh /\ w.heals = v.heals /\ w \in Invocation
    BY <1>1, InvocationFacts DEF Invocation
  <2> HIDE DEF w
  <2>4. Grounded(w, listTime, lived)
    BY <1>1, <1>2, <1>4, <1>6, <2>3 DEF Grounded
  <2> QED BY <1>2, <2>2, <2>3, <2>4, OneSteps DEF PipelinesInv
<1>7. CASE live = Gone /\ ~(v.heals /\ v.move.kind = "classify")
  <2> DEFINE w == [v EXCEPT !.step = "judged", !.verdict = verdict]
  <2>2. inv' = [inv EXCEPT ![i] = w]
    BY <1>2, <1>7
  <2>3. /\ w.step = "judged" /\ w.began = v.began /\ w.memo = v.memo
        /\ w.fresh = v.fresh /\ w.heals = v.heals /\ w \in Invocation
    BY <1>1, InvocationFacts DEF Invocation, Verdicts, verdict
  <2> HIDE DEF w
  <2>4. Grounded(w, listTime, lived)
    BY <1>1, <1>2, <1>4, <1>7, <2>3 DEF Grounded
  <2> QED BY <1>2, <2>2, <2>3, <2>4, OneSteps DEF PipelinesInv
<1> QED BY <1>5, <1>6, <1>7

LEMMA ThrowsKeeps ==
  ASSUME PipelinesInv, NEW i \in Invocations, FetchThrows(i) PROVE PipelinesInv'
<1> DEFINE v == inv[i]
           verdict == IF v.move.kind = "gate" THEN "kept" ELSE "failed"
           w == [v EXCEPT !.step = "judged", !.verdict = verdict]
<1>1. v \in Invocation /\ Grounded(v, listTime, lived)
  BY DEF PipelinesInv
<1>2. v.step = "fetch" /\ inv' = [inv EXCEPT ![i] = w] /\ UNCHANGED <<listTime, live, listEdits, lived, cached>>
  BY DEF FetchThrows, Decides, PipelinesInv
<1> HIDE DEF v
<1>3. verdict \notin Left /\ verdict \in Verdicts
  BY DEF Left, Verdicts
<1> HIDE DEF verdict
<1>5. /\ w.step = "judged" /\ w.began = v.began /\ w.memo = v.memo /\ w.verdict = verdict
      /\ w.fresh = v.fresh /\ w.heals = v.heals /\ w \in Invocation
  BY <1>1, <1>3, InvocationFacts DEF Invocation
<1> HIDE DEF w
<1>6. Grounded(w, listTime, lived)
  BY <1>1, <1>2, <1>3, <1>5 DEF Grounded
<1> QED BY <1>2, <1>5, <1>6, OneSteps DEF PipelinesInv

LEMMA PutsKeeps ==
  ASSUME PipelinesInv, NEW i \in Invocations, Puts(i) PROVE PipelinesInv'
<1> DEFINE v == inv[i]
           w == [v EXCEPT !.step = "judge", !.memo = v.answer, !.fresh = TRUE, !.answer = Gone]
           entry == [list |-> v.answer, expires |-> listTime + ListTTL]
<1>1. v \in Invocation /\ Grounded(v, listTime, lived) /\ listTime \in Nat
  BY DEF PipelinesInv
<1>2. /\ v.step = "put" /\ inv' = [inv EXCEPT ![i] = w] /\ cached' = entry
      /\ UNCHANGED <<listTime, live, listEdits, lived>>
  BY DEF Puts, PipelinesInv
<1> HIDE DEF v
<1>4. /\ w.step = "judge" /\ w.began = v.began /\ w.memo = v.answer
      /\ w.fresh = TRUE /\ w.heals = v.heals /\ w \in Invocation
  BY <1>1, InvocationFacts DEF Invocation, AnyList
<1> HIDE DEF w
<1>5. Lived(v.answer, v.began, listTime, lived) /\ listTime <= v.began + Span
  BY <1>1, <1>2 DEF Grounded
<1>6. PICK u \in 0 .. listTime : u >= v.began /\ v.answer \in lived[u]
  BY <1>5 DEF Lived
<1>7. v.began \in Nat /\ u >= v.began - (Span + ListTTL) + 1 /\ u >= (listTime + ListTTL) - (Span + ListTTL)
  BY <1>1, <1>5, <1>6, ListNumbers, InvocationFacts
<1>8. Lived(v.answer, v.began - (Span + ListTTL) + 1, listTime, lived)
  BY <1>6, <1>7 DEF Lived
<1>9. Grounded(w, listTime, lived)
  BY <1>1, <1>2, <1>4, <1>5, <1>8 DEF Grounded
<1>10. entry \in [list : AnyList, expires : Nat]
  BY <1>1, ListNumbers, InvocationFacts
<1>11. CachedGrounded(entry, listTime, lived)
  BY <1>6, <1>7 DEF CachedGrounded, Lived
<1> HIDE DEF entry
<1> QED BY <1>2, <1>4, <1>9, <1>10, <1>11, OneSteps

LEMMA JudgesKeeps ==
  ASSUME PipelinesInv, NEW i \in Invocations, Judges(i) PROVE PipelinesInv'
<1> DEFINE v == inv[i]
           doubtful == Doubtful(v.memo, v.move)
           verdict == IF v.move.kind = "classify" THEN Classified(v.memo, v.move)
                      ELSE IF PassesGate(v.memo, v.move.to, v.move.from) THEN "kept" ELSE "dropped"
<1>1. v \in Invocation /\ Grounded(v, listTime, lived)
  BY DEF PipelinesInv
<1>2. /\ v.step = "judge"
      /\ inv' = IF doubtful /\ ~v.fresh /\ ~v.heals
                THEN [inv EXCEPT ![i] = [v EXCEPT !.step = "fetch", !.heals = TRUE]]
                ELSE [inv EXCEPT ![i] = [v EXCEPT !.step = "judged", !.verdict = verdict]]
      /\ UNCHANGED <<listTime, live, listEdits, lived, cached>>
  <2> HIDE DEF doubtful
  <2> QED BY DEF Judges, Decides, PipelinesInv, doubtful
<1> HIDE DEF v
<1>3. verdict \in Verdicts
  <2>1. Classified(v.memo, v.move) \in Verdicts
    BY DEF Classified, Verdicts
  <2> HIDE DEF doubtful
  <2> QED BY <2>1 DEF Verdicts
<1> HIDE DEF verdict
<1>4. CASE doubtful /\ ~v.fresh /\ ~v.heals
  <2> DEFINE w == [v EXCEPT !.step = "fetch", !.heals = TRUE]
  <2>2. inv' = [inv EXCEPT ![i] = w]
    BY <1>2, <1>4
  <2>3. /\ w.step = "fetch" /\ w.began = v.began /\ w.memo = v.memo
        /\ w.fresh = v.fresh /\ w \in Invocation
    BY <1>1, InvocationFacts DEF Invocation
  <2> HIDE DEF w
  <2>4. Grounded(w, listTime, lived)
    BY <1>1, <1>2, <2>3 DEF Grounded
  <2> QED BY <1>2, <2>2, <2>3, <2>4, OneSteps DEF PipelinesInv
<1>5. CASE ~(doubtful /\ ~v.fresh /\ ~v.heals)
  <2> DEFINE w == [v EXCEPT !.step = "judged", !.verdict = verdict]
  <2>2. inv' = [inv EXCEPT ![i] = w]
    BY <1>2, <1>5
  <2>3. /\ w.step = "judged" /\ w.began = v.began /\ w.memo = v.memo /\ w.move = v.move
        /\ w.fresh = v.fresh /\ w.heals = v.heals /\ w \in Invocation
    BY <1>1, <1>3, InvocationFacts DEF Invocation
  <2> HIDE DEF w
  <2>4. Grounded(w, listTime, lived)
    BY <1>1, <1>2, <1>5, <2>3 DEF Grounded
  <2> QED BY <1>2, <2>2, <2>3, <2>4, OneSteps DEF PipelinesInv
<1> QED BY <1>4, <1>5

LEMMA EndsKeeps ==
  ASSUME PipelinesInv, NEW i \in Invocations, Ends(i) PROVE PipelinesInv'
<1>1. inv' = [inv EXCEPT ![i] = Waiting] /\ UNCHANGED <<listTime, live, listEdits, lived, cached>>
  BY DEF Ends
<1>2. Waiting \in Invocation /\ Waiting.step = "idle" /\ Waiting.memo = Gone /\ Waiting.fresh = FALSE
  BY WaitingIs
<1> HIDE DEF Waiting
<1>3. Grounded(Waiting, listTime, lived)
  BY <1>2 DEF Grounded
<1> QED BY <1>1, <1>2, <1>3, OneSteps DEF PipelinesInv

LEMMA EditsKeep ==
  ASSUME PipelinesInv, NEW list \in Lists \cup {Gone}, ListEdited(list) PROVE PipelinesInv'
<1>1. /\ live' = list /\ lived' = [lived EXCEPT ![listTime] = @ \cup {list}]
      /\ UNCHANGED <<listTime, cached, inv>>
  BY DEF ListEdited
<1>2. /\ lived' \in [0 .. MaxListTime -> SUBSET AnyList] /\ live' \in lived'[listTime]
      /\ \A u \in 0 .. listTime : lived[u] \subseteq lived'[u]
      /\ listTime \in Nat /\ listTime <= listTime
  BY <1>1, ListNumbers DEF PipelinesInv, AnyList
<1>3. \A i \in Invocations : Grounded(inv[i], listTime, lived')
  <2> TAKE i \in Invocations
  <2>1. inv[i] \in Invocation /\ Grounded(inv[i], listTime, lived)
    BY DEF PipelinesInv
  <2>2. inv[i].step # "idle" => listTime <= inv[i].began + Span
    BY <2>1 DEF Grounded
  <2> QED BY <1>2, <2>1, <2>2, StaysGrounded
<1>4. CachedGrounded(cached, listTime, lived')
  <2>1. \A l, t : Lived(l, t, listTime, lived) => Lived(l, t, listTime, lived')
    BY <1>2, LivedGrows
  <2> QED BY <2>1 DEF PipelinesInv, CachedGrounded
<1> QED BY <1>1, <1>2, <1>3, <1>4 DEF PipelinesInv, AnyList

LEMMA ListTickKeeps ==
  ASSUME PipelinesInv, ListTick PROVE PipelinesInv'
<1> DEFINE later == listTime + 1
<1>1. /\ listTime < MaxListTime /\ listTime' = later /\ lived' = [lived EXCEPT ![later] = {live}]
      /\ \A i \in Invocations : inv[i].step # "idle" => listTime < inv[i].began + Span
      /\ UNCHANGED <<live, cached, inv>>
  BY DEF ListTick
<1>2. /\ listTime \in Nat /\ later \in 0 .. MaxListTime /\ later \in Nat /\ listTime <= later
      /\ \A u \in 0 .. listTime : u # later /\ u \in 0 .. MaxListTime
  BY <1>1, ListNumbers DEF PipelinesInv
<1>3. /\ lived' \in [0 .. MaxListTime -> SUBSET AnyList] /\ live' \in lived'[later]
      /\ \A u \in 0 .. listTime : lived[u] \subseteq lived'[u]
  <2> HIDE DEF later
  <2> QED BY <1>1, <1>2 DEF PipelinesInv, AnyList
<1>4. \A i \in Invocations : Grounded(inv[i], later, lived')
  <2> TAKE i \in Invocations
  <2>1. inv[i] \in Invocation /\ Grounded(inv[i], listTime, lived)
    BY DEF PipelinesInv
  <2>2. inv[i].step # "idle" => later <= inv[i].began + Span
    BY <1>1, <1>2, <2>1, InvocationFacts, ListNumbers
  <2> HIDE DEF later
  <2> QED BY <1>2, <1>3, <2>1, <2>2, StaysGrounded
<1>5. CachedGrounded(cached, later, lived')
  <2> HIDE DEF later
  <2>1. \A l, t : Lived(l, t, listTime, lived) => Lived(l, t, later, lived')
    BY <1>2, <1>3, LivedGrows
  <2> QED BY <2>1 DEF PipelinesInv, CachedGrounded
<1> HIDE DEF later
<1> QED BY <1>1, <1>2, <1>3, <1>4, <1>5 DEF PipelinesInv

LEMMA PipelinesKept == PipelinesInv /\ [PipelinesNext]_listVars => PipelinesInv'
<1> SUFFICES ASSUME PipelinesInv, [PipelinesNext]_listVars PROVE PipelinesInv'
  OBVIOUS
<1>1. CASE UNCHANGED listVars
  BY <1>1 DEF listVars, PipelinesInv
<1> QED BY <1>1, TakesKeeps, GetsKeeps, FetchesKeeps, ThrowsKeeps, PutsKeeps, JudgesKeeps, EndsKeeps,
           EditsKeep, ListTickKeeps DEF PipelinesNext

LEMMA PipelinesStart == PipelinesInit => PipelinesInv
<1> SUFFICES ASSUME PipelinesInit PROVE PipelinesInv
  OBVIOUS
<1>1. /\ listTime = 0 /\ live \in Lists /\ cached = [list |-> Gone, expires |-> 0]
      /\ inv = [i \in Invocations |-> Waiting]
      /\ lived = [t \in 0 .. MaxListTime |-> IF t = 0 THEN {live} ELSE {}]
  BY DEF PipelinesInit
<1>2. 0 \in 0 .. MaxListTime
  BY ListNumbers
<1>3. Waiting \in Invocation /\ Waiting.step = "idle" /\ Waiting.memo = Gone /\ Waiting.fresh = FALSE
  BY WaitingIs
<1> HIDE DEF Waiting
<1>4. Grounded(Waiting, listTime, lived)
  BY <1>3 DEF Grounded
<1>5. inv \in [Invocations -> Invocation] /\ \A i \in Invocations : inv[i] = Waiting
  BY <1>1, <1>3
<1>6. cached \in [list : AnyList, expires : Nat] /\ CachedGrounded(cached, listTime, lived)
  BY <1>1 DEF CachedGrounded, AnyList
<1>7. lived \in [0 .. MaxListTime -> SUBSET AnyList] /\ live \in lived[listTime] /\ live \in AnyList
  BY <1>1, <1>2 DEF AnyList
<1> QED BY <1>1, <1>2, <1>4, <1>5, <1>6, <1>7 DEF PipelinesInv

LEMMA PipelinesTell == PipelinesInv => PipelinesTypeOK /\ JudgedByRecentList
<1> SUFFICES ASSUME PipelinesInv PROVE PipelinesTypeOK /\ JudgedByRecentList
  OBVIOUS
<1>1. PipelinesTypeOK
  <2>1. \A i \in Invocations : inv[i] \in Invocation
    BY DEF PipelinesInv
  <2>2. \A i \in Invocations : /\ inv[i].step \in {"idle", "get", "fetch", "put", "judge", "judged"}
                               /\ inv[i].memo \in AnyList /\ inv[i].answer \in AnyList
    BY <2>1, InvocationFacts
  <2> QED BY <2>2 DEF PipelinesInv, PipelinesTypeOK, AnyList
<1>2. \A list, t : LivedSince(list, t) <=> Lived(list, t, listTime, lived)
  BY DEF LivedSince, Lived
<1>3. ASSUME NEW i \in Invocations, inv[i].step = "judged", inv[i].memo # Gone
      PROVE  /\ LivedSince(inv[i].memo, listTime - (ListTTL + 2 * Span) + 1)
             /\ inv[i].verdict \in Left /\ Doubtful(inv[i].memo, inv[i].move) =>
                  LivedSince(inv[i].memo, inv[i].began) \/ LivedSince(Gone, inv[i].began)
  <2> DEFINE v == inv[i]
  <2>1. v \in Invocation /\ Grounded(v, listTime, lived) /\ listTime \in Nat
    BY DEF PipelinesInv
  <2>2. v.step = "judged" /\ v.memo # Gone
    BY <1>3
  <2> HIDE DEF v
  <2>3. Lived(v.memo, v.began - (Span + ListTTL) + 1, listTime, lived) /\ listTime <= v.began + Span
        /\ v.began \in Nat
    BY <2>1, <2>2, InvocationFacts DEF Grounded
  <2>4. PICK u \in 0 .. listTime : u >= v.began - (Span + ListTTL) + 1 /\ v.memo \in lived[u]
    BY <2>3 DEF Lived
  <2>5. u >= listTime - (ListTTL + 2 * Span) + 1
    BY <2>1, <2>3, <2>4, ListNumbers
  <2>6. Lived(v.memo, listTime - (ListTTL + 2 * Span) + 1, listTime, lived)
    BY <2>4, <2>5 DEF Lived
  <2>7. v.verdict \in Left /\ Doubtful(v.memo, v.move) =>
          Lived(v.memo, v.began, listTime, lived) \/ Lived(Gone, v.began, listTime, lived)
    BY <2>1, <2>2 DEF Grounded
  <2> QED BY <1>2, <2>6, <2>7 DEF v
<1>4. JudgedByRecentList
  BY <1>3 DEF JudgedByRecentList, Left
<1> QED BY <1>1, <1>4

\* Whatever lists the job has, and however long an entry of KV and an invocation
\* live, a move is judged by a recent list (stage-stats.js:290-349, 684-688).
THEOREM ListsAreRecent == PipelinesSpec => [](PipelinesTypeOK /\ JudgedByRecentList)
  BY PipelinesStart, PipelinesKept, PipelinesTell, PTL DEF PipelinesSpec

-----------------------------------------------------------------------------
(* THE WALKS.  Who has been listed since the walk began, and was not moved *)
(* to the front, only ever moves towards the end when somebody is listed   *)
(* or rises, so the pages not asked for yet are the only ones that can     *)
(* still have him.  RF's count tells when the last page was not the last.  *)

(* What is left of a sequence when one place is taken out. *)
LEMMA Removed ==
  ASSUME NEW S, NEW s \in Seq(S), NEW n \in DOMAIN s
  PROVE  /\ RemoveAt(s, n) \in Seq(S)
         /\ Len(RemoveAt(s, n)) = Len(s) - 1
         /\ \A i \in 1 .. Len(s) - 1 : RemoveAt(s, n)[i] = IF i < n THEN s[i] ELSE s[i + 1]
<1> DEFINE a == SubSeq(s, 1, n - 1)
           b == SubSeq(s, n + 1, Len(s))
<1>1. Len(s) \in Nat /\ n \in 1 .. Len(s) /\ \A i \in 1 .. Len(s) : s[i] \in S
  BY LenProperties, ElementOfSeq
<1>2. /\ a \in Seq(S) /\ Len(a) = n - 1
      /\ \A i \in 1 .. n - 1 : a[i] = s[i]
  BY <1>1, SubSeqProperties
<1>3. /\ b \in Seq(S) /\ Len(b) = Len(s) - n
      /\ \A i \in 1 .. Len(s) - n : b[i] = s[n + i]
  BY <1>1, SubSeqProperties
<1>4. RemoveAt(s, n) = a \o b
  BY DEF RemoveAt
<1> HIDE DEF a, b
<1>5. /\ a \o b \in Seq(S) /\ Len(a \o b) = Len(s) - 1
      /\ \A i \in 1 .. Len(s) - 1 : (a \o b)[i] = IF i <= n - 1 THEN a[i] ELSE b[i - (n - 1)]
  <2>1. Len(a) + Len(b) = Len(s) - 1
    BY <1>1, <1>2, <1>3
  <2>2. /\ a \o b \in Seq(S) /\ Len(a \o b) = Len(a) + Len(b)
        /\ \A i \in 1 .. Len(a) + Len(b) :
             (a \o b)[i] = IF i <= Len(a) THEN a[i] ELSE b[i - Len(a)]
    BY <1>2, <1>3, ConcatProperties
  <2> QED BY <1>2, <2>1, <2>2
<1>6. ASSUME NEW i \in 1 .. Len(s) - 1
      PROVE  (a \o b)[i] = IF i < n THEN s[i] ELSE s[i + 1]
  <2>1. CASE i < n
    BY <1>1, <1>2, <1>5, <2>1
  <2>2. CASE ~(i < n)
    <3>1. i - (n - 1) \in 1 .. Len(s) - n /\ n + (i - (n - 1)) = i + 1
      BY <1>1, <2>2
    <3>2. b[i - (n - 1)] = s[i + 1]
      BY <1>3, <3>1
    <3>3. (a \o b)[i] = b[i - (n - 1)]
      BY <1>1, <1>5, <2>2
    <3> QED BY <2>2, <3>2, <3>3
  <2> QED BY <2>1, <2>2
<1> QED BY <1>4, <1>5, <1>6


LEMMA PagedNumbers ==
  /\ PerPage \in Nat /\ PerPage > 1 /\ MaxPages \in Nat /\ MaxPages > 0 /\ MaxShifts \in Nat
  /\ IsFiniteSet(People)
  BY PagedConstants

\* The rows before the page that is asked for next.
Before == (page - 1) * PerPage

LEMMA BeforeIs ==
  ASSUME page \in Nat \ {0}
  PROVE  Before \in Nat /\ page * PerPage = Before + PerPage
<1>1. page - 1 \in Nat /\ PerPage \in Nat
  BY PagedNumbers
<1>2. (page - 1) * PerPage \in Nat
  BY <1>1
<1>3. page * PerPage = (page - 1) * PerPage + PerPage
  BY <1>1
<1> QED BY <1>2, <1>3 DEF Before

PagedShape ==
    /\ listing \in Seq(People) /\ found \in Seq(People)
    /\ stayed \subseteq ToSet(listing) /\ risen \subseteq People /\ withheld \subseteq People
    /\ shifts \in Nat /\ gone \in BOOLEAN
    /\ mode \in Modes /\ page \in Nat \ {0} /\ attempt \in 1 .. 4
    /\ counting \in BOOLEAN /\ total \in Nat \cup {NoTotal} /\ outcome \in {"walking", "done", "failed"}
    /\ counting => mode \in Searches

\* The walk has whoever it must have of the first n rows.
CoveredTo(n, rows, has) ==
    \A j \in DOMAIN rows : rows[j] \in stayed /\ rows[j] \notin risen => rows[j] \in has \/ j > n

\* The walk has exactly the first n rows, save for the i-th.
Exactly(n, i) ==
    /\ i \in 0 .. n /\ withheld = (IF i = 0 THEN {} ELSE {listing[i]})
    /\ Len(found) = IF i = 0 THEN n ELSE n - 1
    /\ \A k \in 1 .. Len(found) : found[k] = listing[IF i = 0 \/ k < i THEN k ELSE k + 1]

PagedInv ==
    /\ PagedShape
    /\ outcome = "walking" => /\ Len(found) <= Before /\ (withheld # {} => Len(found) < Before)
                              /\ ~gone => CoveredTo(Before, listing, ToSet(found) \cup withheld)
    /\ WalkIsWhole
    /\ shifts = 0 => \E n \in 0 .. Len(listing) : \E i \in 0 .. n :
         Exactly(n, i) /\ (outcome = "walking" => n = IF Before < Len(listing) THEN Before ELSE Len(listing))

LEMMA PageEnds ==
  ASSUME NEW b \in Nat, NEW p \in Nat, p > 1, NEW l \in Nat, NEW n, n = IF b + p < l THEN b + p ELSE l,
         NEW size, size = IF b + 1 <= n THEN n - (b + 1) + 1 ELSE 0
  PROVE  /\ size \in Nat /\ size = IF b + p < l THEN p ELSE IF b < l THEN l - b ELSE 0
         /\ \A j \in 1 .. l : b < j /\ j <= b + p => j - b \in 1 .. size
<1>1. CASE b + p < l
  BY <1>1
<1>2. CASE ~(b + p < l) /\ b < l
  <2>1. n = l /\ size = l - b
    BY <1>2
  <2> QED BY <1>2, <2>1
<1>3. CASE ~(b < l)
  <2>1. n = l /\ size = 0
    BY <1>3
  <2> QED BY <1>3, <2>1
<1> QED BY <1>1, <1>2, <1>3

LEMMA PageIs ==
  ASSUME PagedShape
  PROVE  /\ Page \in Seq(People) /\ Len(listing) \in Nat /\ Len(Page) \in Nat
         /\ Len(Page) = IF Before + PerPage < Len(listing) THEN PerPage
                        ELSE IF Before < Len(listing) THEN Len(listing) - Before ELSE 0
         /\ \A k \in 1 .. Len(Page) : Before + k \in DOMAIN listing /\ Page[k] = listing[Before + k]
         /\ \A j \in 1 .. Len(listing) : Before < j /\ j <= Before + PerPage => j - Before \in 1 .. Len(Page)
<1>1. listing \in Seq(People) /\ Len(listing) \in Nat /\ DOMAIN listing = 1 .. Len(listing)
      /\ Before \in Nat /\ PerPage \in Nat /\ PerPage > 1
  BY LenProperties, BeforeIs, PagedNumbers DEF PagedShape
<1>p. page * PerPage = Before + PerPage
  BY BeforeIs DEF PagedShape
<1> DEFINE m == Before + 1
           n == IF Before + PerPage < Len(listing) THEN Before + PerPage ELSE Len(listing)
<1>2. Page = SubSeq(listing, m, n)
  <2>1. page * PerPage - PerPage + 1 = m
    BY <1>1, <1>p
  <2> QED BY <1>p, <2>1 DEF Page
<1>3. m \in Int /\ n \in Int /\ n <= Len(listing) /\ m > 0
  BY <1>1
<1>n. n = IF Before + PerPage < Len(listing) THEN Before + PerPage ELSE Len(listing)
  OBVIOUS
<1> HIDE DEF n
<1>4. \A i \in m .. n : listing[i] \in People
  <2> TAKE i \in m .. n
  <2>1. i \in 1 .. Len(listing)
    BY <1>1, <1>3
  <2> QED BY <1>1, <2>1, ElementOfSeq
<1>5. /\ Page \in Seq(People) /\ Len(Page) = IF m <= n THEN n - m + 1 ELSE 0
      /\ \A k \in 1 .. n - m + 1 : Page[k] = listing[m + k - 1]
  BY <1>2, <1>3, <1>4, SubSeqProperties
<1>6. /\ Len(Page) = IF Before + PerPage < Len(listing) THEN PerPage
                    ELSE IF Before < Len(listing) THEN Len(listing) - Before ELSE 0
      /\ Len(Page) \in Nat
      /\ \A j \in 1 .. Len(listing) : Before < j /\ j <= Before + PerPage => j - Before \in 1 .. Len(Page)
  <2> DEFINE b == Before
             l == Len(listing)
             size == Len(Page)
  <2>1. size = IF b + 1 <= n THEN n - (b + 1) + 1 ELSE 0
    BY <1>5
  <2>2. b \in Nat /\ l \in Nat /\ PerPage \in Nat /\ PerPage > 1
        /\ n = IF b + PerPage < l THEN b + PerPage ELSE l
    BY <1>1, <1>n
  <2> HIDE DEF b, l, size
  <2>3. /\ size \in Nat /\ size = IF b + PerPage < l THEN PerPage ELSE IF b < l THEN l - b ELSE 0
        /\ \A j \in 1 .. l : b < j /\ j <= b + PerPage => j - b \in 1 .. size
    BY <2>1, <2>2, PageEnds
  <2> QED BY <2>3 DEF b, l, size
<1>8. Len(Page) \in Nat
  BY <1>6
<1> HIDE DEF m
<1>m. m = Before + 1
  BY DEF m
<1>7. ASSUME NEW k \in 1 .. Len(Page)
      PROVE  Before + k \in DOMAIN listing /\ Page[k] = listing[Before + k]
  <2>1. k \in Nat /\ k <= Len(Page) /\ k >= 1 /\ Len(Page) = n - m + 1
    BY <1>3, <1>5, <1>8
  <2>2. k \in 1 .. n - m + 1 /\ m + k - 1 = Before + k /\ Before + k \in 1 .. Len(listing)
    BY <1>1, <1>3, <1>m, <2>1
  <2> QED BY <1>1, <1>5, <2>2
<1> QED BY <1>1, <1>5, <1>6, <1>7, <1>8

LEMMA GivenIs ==
  ASSUME PagedShape, NEW i \in Held
  PROVE  /\ i \in 0 .. Len(Page) /\ Given(i) \in Seq(People)
         /\ Len(Given(i)) = IF i = 0 THEN Len(Page) ELSE Len(Page) - 1
         /\ \A k \in 1 .. Len(Given(i)) : Given(i)[k] = Page[IF i = 0 \/ k < i THEN k ELSE k + 1]
         /\ withheld # {} => i = 0
<1>1. Page \in Seq(People) /\ Len(Page) \in Nat /\ DOMAIN Page = 1 .. Len(Page)
  BY PageIs, LenProperties
<1>2. i \in 0 .. Len(Page) /\ (withheld # {} => i = 0)
  BY <1>1 DEF Held
<1>3. CASE i = 0
  <2>1. Given(i) = Page
    BY <1>3 DEF Given
  <2> QED BY <1>1, <1>2, <1>3, <2>1
<1>4. CASE i # 0
  <2>1. Given(i) = RemoveAt(Page, i) /\ i \in DOMAIN Page
    BY <1>1, <1>2, <1>4 DEF Given
  <2>2. /\ Given(i) \in Seq(People) /\ Len(Given(i)) = Len(Page) - 1
        /\ \A k \in 1 .. Len(Page) - 1 : Given(i)[k] = IF k < i THEN Page[k] ELSE Page[k + 1]
    BY <1>1, <2>1, Removed
  <2> QED BY <1>2, <1>4, <2>2
<1> QED BY <1>3, <1>4

(* What the walk has of a page, when RF keeps the i-th of its rows.         *)
LEMMA TakesIs ==
  ASSUME PagedShape, NEW i \in Held, NEW last \in BOOLEAN, TakesPage(i, last)
  PROVE  /\ outcome = "walking"
         /\ UNCHANGED <<listing, shifts, stayed, risen, gone, mode, counting>>
         /\ found' \in Seq(People) /\ Len(found) \in Nat /\ Len(Given(i)) \in Nat
         /\ Len(found') = Len(found) + Len(Given(i))
         /\ \A k \in 1 .. Len(found) : found'[k] = found[k]
         /\ \A k \in 1 .. Len(Given(i)) : found'[Len(found) + k] = Given(i)[k]
         /\ withheld' = (IF i = 0 THEN withheld ELSE withheld \cup {Page[i]}) /\ withheld' \subseteq People
         /\ total' = (IF counting THEN Len(listing) ELSE total)
         /\ IF last THEN outcome' = "done" /\ UNCHANGED <<page, attempt>>
            ELSE page' = page + 1 /\ attempt' = 1 /\ UNCHANGED outcome
         /\ PagedShape'
<1>1. /\ outcome = "walking" /\ UNCHANGED <<listing, shifts, stayed, risen, gone, mode, counting>>
      /\ found' = found \o Given(i)
      /\ withheld' = (IF i = 0 THEN withheld ELSE withheld \cup {Page[i]})
      /\ total' = (IF counting THEN Len(listing) ELSE total)
      /\ IF last THEN outcome' = "done" /\ UNCHANGED <<page, attempt>>
         ELSE page' = page + 1 /\ attempt' = 1 /\ UNCHANGED outcome
  BY DEF TakesPage, Walks, listingVars
<1>2. Given(i) \in Seq(People) /\ i \in 0 .. Len(Page) /\ found \in Seq(People)
      /\ Page \in Seq(People) /\ Len(listing) \in Nat
  BY GivenIs, PageIs DEF PagedShape
<1>3. /\ found' \in Seq(People) /\ Len(found) \in Nat /\ Len(Given(i)) \in Nat
      /\ Len(found') = Len(found) + Len(Given(i))
      /\ \A k \in 1 .. Len(found) + Len(Given(i)) :
           found'[k] = IF k <= Len(found) THEN found[k] ELSE Given(i)[k - Len(found)]
  BY <1>1, <1>2, ConcatProperties, LenProperties
<1>4. \A k \in 1 .. Len(found) : found'[k] = found[k]
  BY <1>3
<1>5. ASSUME NEW k \in 1 .. Len(Given(i)) PROVE found'[Len(found) + k] = Given(i)[k]
  <2>1. Len(found) + k \in 1 .. Len(found) + Len(Given(i)) /\ ~(Len(found) + k <= Len(found))
        /\ (Len(found) + k) - Len(found) = k
    BY <1>3
  <2> QED BY <1>3, <2>1
<1>6. withheld' \subseteq People
  <2>1. i # 0 => Page[i] \in People
    <3>1. i # 0 => i \in 1 .. Len(Page)
      BY <1>2, PageIs
    <3> QED BY <1>2, <3>1, ElementOfSeq
  <2> QED BY <1>1, <2>1 DEF PagedShape
<1>7. PagedShape'
  <2>1. total' \in Nat \cup {NoTotal}
    BY <1>1, <1>2 DEF PagedShape
  <2>2. page' \in Nat \ {0} /\ attempt' \in 1 .. 4 /\ outcome' \in {"walking", "done", "failed"}
    BY <1>1 DEF PagedShape
  <2> QED BY <1>1, <1>3, <1>6, <2>1, <2>2 DEF PagedShape
<1> QED BY <1>1, <1>3, <1>4, <1>5, <1>6, <1>7

LEMMA HasIs ==
  ASSUME NEW s \in Seq(People) PROVE ToSet(s) = {s[k] : k \in 1 .. Len(s)}
  BY LenProperties DEF ToSet

(* Behind the page are those that were behind the one before, and its rows. *)
LEMMA TakenCovers ==
  ASSUME PagedShape, CoveredTo(Before, listing, ToSet(found) \cup withheld),
         NEW i \in Held, NEW last \in BOOLEAN, TakesPage(i, last)
  PROVE  CoveredTo(Before + PerPage, listing, ToSet(found') \cup withheld')
<1> DEFINE has == ToSet(found') \cup withheld'
<1>1. PerPage \in Nat /\ PerPage > 1 /\ Before \in Nat /\ found \in Seq(People) /\ found' \in Seq(People)
      /\ Len(found) \in Nat /\ Len(Given(i)) \in Nat /\ Len(listing) \in Nat /\ listing \in Seq(People)
      /\ DOMAIN listing = 1 .. Len(listing)
  BY PagedNumbers, BeforeIs, TakesIs, LenProperties DEF PagedShape
<1>2. /\ Len(found') = Len(found) + Len(Given(i))
      /\ \A k \in 1 .. Len(found) : found'[k] = found[k]
      /\ \A k \in 1 .. Len(Given(i)) : found'[Len(found) + k] = Given(i)[k]
      /\ withheld' = (IF i = 0 THEN withheld ELSE withheld \cup {Page[i]})
  BY TakesIs
<1>h. ToSet(found) = {found[k] : k \in 1 .. Len(found)} /\ ToSet(found') = {found'[k] : k \in 1 .. Len(found')}
  BY <1>1, HasIs
<1>3. ToSet(found) \cup withheld \subseteq has
  <2>1. \A k \in 1 .. Len(found) : k \in 1 .. Len(found')
    BY <1>1, <1>2
  <2>2. \A k \in 1 .. Len(found) : found[k] \in ToSet(found')
    BY <1>2, <1>h, <2>1
  <2> QED BY <1>2, <1>h, <2>2
<1>4. ASSUME NEW k \in 1 .. Len(Page) PROVE Page[k] \in has
  <2>1. Len(Page) \in Nat /\ i \in 0 .. Len(Page)
        /\ Len(Given(i)) = (IF i = 0 THEN Len(Page) ELSE Len(Page) - 1)
        /\ \A m \in 1 .. Len(Given(i)) : Given(i)[m] = Page[IF i = 0 \/ m < i THEN m ELSE m + 1]
    BY PageIs, GivenIs
  <2>2. ASSUME NEW m \in 1 .. Len(Given(i)) PROVE Given(i)[m] \in has
    <3>1. Len(found) + m \in 1 .. Len(found')
      BY <1>1, <1>2
    <3> QED BY <1>2, <1>h, <3>1
  <2>3. CASE i = k
    BY <1>2, <2>1, <2>3
  <2>4. CASE i = 0 \/ k < i
    <3>1. k \in 1 .. Len(Given(i))
      BY <2>1, <2>4
    <3> QED BY <2>1, <2>2, <2>4, <3>1
  <2>5. CASE i # 0 /\ k > i
    <3>1. k - 1 \in 1 .. Len(Given(i)) /\ ~(i = 0 \/ k - 1 < i) /\ (k - 1) + 1 = k
      BY <2>1, <2>5
    <3> QED BY <2>1, <2>2, <3>1
  <2> QED BY <2>1, <2>3, <2>4, <2>5
<1> HIDE DEF has
<1>5. ASSUME NEW j \in DOMAIN listing, listing[j] \in stayed, listing[j] \notin risen, ~(j > Before + PerPage)
      PROVE  listing[j] \in has
  <2>1. CASE j <= Before
    <3>1. ~(j > Before)
      BY <1>1, <2>1
    <3> QED BY <1>3, <1>5, <3>1 DEF CoveredTo
  <2>2. CASE j > Before
    <3> DEFINE k == j - Before
    <3>1. k \in 1 .. Len(Page) /\ Before + k = j
      <4>1. j \in 1 .. Len(listing) /\ Before < j /\ j <= Before + PerPage /\ Before + k = j
        BY <1>1, <1>5, <2>2
      <4>2. \A r \in 1 .. Len(listing) : Before < r /\ r <= Before + PerPage => r - Before \in 1 .. Len(Page)
        BY PageIs
      <4> QED BY <4>1, <4>2
    <3> HIDE DEF k
    <3> QED BY <1>4, <3>1, PageIs
  <2> QED BY <1>1, <2>1, <2>2
<1> QED BY <1>5 DEF CoveredTo, has

\* Why the walk ends with a page.
Reason(i) ==
    \/ mode \in Searches /\ (Short(i) \/ page = MaxPages)
    \/ mode \in {"openJobs", "cron", "rebuild"} /\ Short(i)
    \/ mode = "seed" /\ Given(i) = <<>>

LEMMA EndIsWhole ==
  ASSUME PagedInv, NEW i \in Held, TakesPage(i, TRUE), Reason(i)
  PROVE  WalkIsWhole'
<1> SUFFICES ASSUME outcome' = "done", ~Truncated', ~gone'
             PROVE  \/ stayed' \ ToSet(found') \subseteq risen' \cup withheld'
                    \/ mode' \in Searches /\ ~counting' /\ page' = MaxPages
                    \/ mode' # "seed" /\ ~counting' /\ withheld' # {}
  BY DEF WalkIsWhole
<1>0. PagedShape /\ PerPage \in Nat /\ PerPage > 1 /\ Before \in Nat /\ Len(listing) \in Nat /\ Len(found) \in Nat
      /\ listing \in Seq(People) /\ stayed \subseteq ToSet(listing) /\ Len(found) <= Before
      /\ counting \in BOOLEAN
  <2>1. PagedShape /\ outcome = "walking"
    BY TakesIs DEF PagedInv
  <2> QED BY <2>1, PagedNumbers, BeforeIs, LenProperties DEF PagedInv, PagedShape
<1>1. /\ UNCHANGED <<listing, stayed, risen, gone, mode, counting, page>>
      /\ Len(found') = Len(found) + Len(Given(i)) /\ Len(Given(i)) \in Nat
      /\ withheld' = (IF i = 0 THEN withheld ELSE withheld \cup {Page[i]})
      /\ total' = (IF counting THEN Len(listing) ELSE total) /\ outcome = "walking"
  BY <1>0, TakesIs
<1>2. /\ Len(Page) = IF Before + PerPage < Len(listing) THEN PerPage
                     ELSE IF Before < Len(listing) THEN Len(listing) - Before ELSE 0
      /\ Len(Given(i)) = (IF i = 0 THEN Len(Page) ELSE Len(Page) - 1)
  BY <1>0, PageIs, GivenIs
<1>3. CASE Len(listing) <= Before + PerPage
  <2>1. CoveredTo(Before + PerPage, listing, ToSet(found') \cup withheld')
    BY <1>0, <1>1, TakenCovers DEF PagedInv
  <2> DEFINE n == Before + PerPage
             given == ToSet(found')
             has == given \cup withheld'
  <2>2. CoveredTo(n, listing, has) /\ n \in Nat /\ Len(listing) <= n
    BY <1>0, <1>3, <2>1
  <2> HIDE DEF n, given, has
  <2>3. ASSUME NEW p \in stayed, p \notin risen PROVE p \in has
    <3>1. PICK j \in DOMAIN listing : p = listing[j]
      BY <1>0, <2>3 DEF ToSet
    <3>2. j \in Nat /\ j <= n
      BY <1>0, <2>2, LenProperties
    <3>3. ~(j > n)
      BY <2>2, <3>2
    <3> QED BY <2>2, <2>3, <3>1, <3>3 DEF CoveredTo
  <2> QED BY <1>1, <2>3 DEF has, given
<1>4. CASE ~(Len(listing) <= Before + PerPage)
  <2>1. Len(Page) = PerPage /\ Before + PerPage < Len(listing)
    BY <1>0, <1>2, <1>4
  <2>2. Len(Given(i)) <= PerPage /\ Len(Given(i)) > 0 /\ (Len(Given(i)) < PerPage => i # 0)
    BY <1>0, <1>2, <2>1
  <2>3. Len(found') < Len(listing)
    BY <1>0, <1>1, <2>1, <2>2
  <2>4. ~counting
    BY <1>0, <1>1, <2>3 DEF Truncated, NoTotal
  <2>5. Given(i) # <<>>
    BY <2>2
  <2>6. i # 0 => withheld' # {}
    BY <1>1
  <2> QED BY <1>1, <2>2, <2>4, <2>5, <2>6 DEF Reason, Short, Searches
<1> QED BY <1>3, <1>4

(* Of a list that stays, the walk has the first rows, save for one.         *)
LEMMA TakenExactly ==
  ASSUME PagedShape, NEW n \in Nat, NEW h \in 0 .. n, Exactly(n, h),
         n = (IF Before < Len(listing) THEN Before ELSE Len(listing)),
         NEW i \in Held, NEW last \in BOOLEAN, TakesPage(i, last)
  PROVE  \E m \in 0 .. Len(listing), g \in Nat :
           /\ Exactly(m, g)'
           /\ m = IF Before + PerPage < Len(listing) THEN Before + PerPage ELSE Len(listing)
<1> DEFINE size == Len(Page)
<1>0. PerPage \in Nat /\ Before \in Nat /\ Len(listing) \in Nat /\ size \in Nat
  BY PagedNumbers, BeforeIs, PageIs DEF PagedShape
<1>1. size = IF Before + PerPage < Len(listing) THEN PerPage
             ELSE IF Before < Len(listing) THEN Len(listing) - Before ELSE 0
  BY PageIs
<1>2. /\ i \in 0 .. size /\ Len(Given(i)) = IF i = 0 THEN size ELSE size - 1
      /\ \A k \in 1 .. Len(Given(i)) : Given(i)[k] = Page[IF i = 0 \/ k < i THEN k ELSE k + 1]
      /\ withheld # {} => i = 0
  BY GivenIs
<1>3. \A k \in 1 .. size : Page[k] = listing[Before + k]
  BY PageIs
<1> HIDE DEF size
<1>m. PICK m \in Nat, g \in Nat : m = n + size /\ g = IF i = 0 THEN h ELSE n + i
  <2>1. n + size \in Nat /\ (IF i = 0 THEN h ELSE n + i) \in Nat
    BY <1>0, <1>2
  <2> QED BY <2>1
<1>4. /\ m = (IF Before + PerPage < Len(listing) THEN Before + PerPage ELSE Len(listing))
      /\ size > 0 => n = Before
  <2> DEFINE b == Before
             l == Len(listing)
  <2>1. b \in Nat /\ l \in Nat /\ n = (IF b < l THEN b ELSE l)
        /\ size = IF b + PerPage < l THEN PerPage ELSE IF b < l THEN l - b ELSE 0
    BY <1>0, <1>1
  <2> HIDE DEF b, l
  <2>2. CASE b < l
    BY <1>0, <1>m, <2>1, <2>2 DEF b, l
  <2>3. CASE ~(b < l)
    BY <1>0, <1>m, <2>1, <2>3 DEF b, l
  <2> QED BY <2>2, <2>3
<1>5. /\ listing' = listing /\ Len(found') = Len(found) + Len(Given(i))
      /\ Len(found) \in Nat /\ Len(Given(i)) \in Nat
      /\ \A k \in 1 .. Len(found) : found'[k] = found[k]
      /\ \A k \in 1 .. Len(Given(i)) : found'[Len(found) + k] = Given(i)[k]
      /\ withheld' = (IF i = 0 THEN withheld ELSE withheld \cup {Page[i]})
  BY TakesIs
<1>6. /\ withheld = (IF h = 0 THEN {} ELSE {listing[h]}) /\ Len(found) = IF h = 0 THEN n ELSE n - 1
      /\ \A k \in 1 .. Len(found) : found[k] = listing[IF h = 0 \/ k < h THEN k ELSE k + 1]
  BY DEF Exactly
<1>7. i # 0 => h = 0
  BY <1>2, <1>6
<1>8. withheld' = (IF g = 0 THEN {} ELSE {listing[g]})
  <2>1. CASE i = 0
    BY <1>m, <1>5, <1>6, <2>1
  <2>2. CASE i # 0
    <3>1. i \in 1 .. size /\ size > 0 /\ n = Before /\ h = 0 /\ g = Before + i
      BY <1>m, <1>0, <1>2, <1>4, <1>7, <2>2
    <3>2. Page[i] = listing[g] /\ g # 0
      BY <1>m, <1>0, <1>3, <3>1
    <3> QED BY <1>m, <1>5, <1>6, <2>2, <3>1, <3>2
  <2> QED BY <2>1, <2>2
<1>9. Len(found') = IF g = 0 THEN m ELSE m - 1
  <2>1. CASE i = 0
    BY <1>0, <1>2, <1>5, <1>6, <1>m, <2>1
  <2>2. CASE i # 0
    BY <1>0, <1>2, <1>5, <1>6, <1>7, <1>m, <2>2
  <2> QED BY <2>1, <2>2
<1>10. ASSUME NEW k \in 1 .. Len(found') PROVE found'[k] = listing[IF g = 0 \/ k < g THEN k ELSE k + 1]
  <2>1. CASE k <= Len(found)
    <3>1. k \in 1 .. Len(found)
      BY <1>5, <2>1
    <3>2. (g = 0 \/ k < g) <=> (h = 0 \/ k < h)
      BY <1>m, <1>0, <1>2, <1>6, <1>7, <2>1
    <3> QED BY <1>5, <1>6, <3>1, <3>2
  <2>2. CASE ~(k <= Len(found))
    <3> DEFINE q == k - Len(found)
    <3>1. q \in 1 .. Len(Given(i)) /\ Len(found) + q = k
      BY <1>5, <2>2
    <3> HIDE DEF q
    <3>2. found'[k] = Page[IF i = 0 \/ q < i THEN q ELSE q + 1]
      BY <1>2, <1>5, <3>1
    <3>3. size > 0 /\ n = Before
      BY <1>0, <1>2, <1>4, <3>1
    <3>4. CASE i = 0
      <4>1. q \in 1 .. size /\ found'[k] = listing[Before + q]
        BY <1>2, <1>3, <3>1, <3>2, <3>4
      <4>2. Before + q = IF g = 0 \/ k < g THEN k ELSE k + 1
        BY <1>m, <1>0, <1>6, <3>1, <3>3, <3>4
      <4> QED BY <4>1, <4>2
    <3>5. CASE i # 0 /\ q < i
      <4>1. q \in 1 .. size /\ found'[k] = listing[Before + q]
        <5>1. q \in Nat /\ q >= 1 /\ q < i /\ i <= size
          BY <1>2, <3>1, <3>5
        <5>2. q \in 1 .. size
          BY <1>0, <1>2, <5>1
        <5> QED BY <1>3, <3>2, <3>5, <5>2
      <4>2. Before + q = k /\ k < g
        BY <1>m, <1>0, <1>2, <1>6, <1>7, <3>1, <3>3, <3>5
      <4> QED BY <4>1, <4>2
    <3>6. CASE i # 0 /\ ~(q < i)
      <4>1. q + 1 \in 1 .. size /\ found'[k] = listing[Before + (q + 1)]
        BY <1>0, <1>2, <1>3, <3>1, <3>2, <3>6
      <4>2. Before + (q + 1) = k + 1 /\ ~(k < g) /\ g # 0
        BY <1>m, <1>0, <1>2, <1>6, <1>7, <3>1, <3>3, <3>6
      <4> QED BY <4>1, <4>2
    <3> QED BY <3>4, <3>5, <3>6
  <2> QED BY <2>1, <2>2
<1>11. g \in 0 .. m /\ m \in 0 .. Len(listing)
  <2>1. g <= m
    BY <1>0, <1>2, <1>m
  <2>2. m <= Len(listing)
    BY <1>0, <1>4
  <2> QED BY <1>0, <2>1, <2>2
<1>12. Exactly(m, g)'
  BY <1>5, <1>8, <1>9, <1>10, <1>11 DEF Exactly
<1> QED BY <1>4, <1>11, <1>12
LEMMA TakesKeepsWalk ==
  ASSUME PagedInv, NEW i \in Held, NEW last \in BOOLEAN, TakesPage(i, last), last => Reason(i)
  PROVE  PagedInv'
<1>0. PagedShape /\ outcome = "walking"
  BY TakesIs DEF PagedInv
<1>1. PagedShape' /\ UNCHANGED <<listing, shifts, stayed, risen, gone>>
      /\ Len(found') = Len(found) + Len(Given(i)) /\ Len(found) \in Nat /\ Len(Given(i)) \in Nat
      /\ withheld' = (IF i = 0 THEN withheld ELSE withheld \cup {Page[i]})
      /\ IF last THEN outcome' = "done" /\ UNCHANGED <<page, attempt>>
         ELSE page' = page + 1 /\ attempt' = 1 /\ UNCHANGED outcome
  BY <1>0, TakesIs
<1>2. Before \in Nat /\ PerPage \in Nat /\ Len(listing) \in Nat /\ page \in Nat
  BY <1>0, BeforeIs, PagedNumbers, LenProperties DEF PagedShape
<1>3. ~last => Before' = Before + PerPage
  <2>1. ~last => (page + 1) - 1 = page
    BY <1>2
  <2>2. page * PerPage = Before + PerPage
    BY <1>0, BeforeIs DEF PagedShape
  <2> QED BY <1>1, <2>1, <2>2 DEF Before
<1>4. Len(found') <= Before + PerPage /\ (withheld' # {} => Len(found') < Before + PerPage)
  <2>1. Len(found) <= Before /\ (withheld # {} => Len(found) < Before)
    BY <1>0 DEF PagedInv
  <2>2. Len(Page) <= PerPage /\ Len(Page) \in Nat
    <3> DEFINE b == Before
               l == Len(listing)
    <3>1. Len(Page) = (IF b + PerPage < l THEN PerPage ELSE IF b < l THEN l - b ELSE 0)
          /\ b \in Nat /\ l \in Nat /\ Len(Page) \in Nat
      BY <1>0, <1>2, PageIs
    <3> HIDE DEF b, l
    <3> QED BY <1>2, <3>1
  <2>3. Len(Given(i)) = (IF i = 0 THEN Len(Page) ELSE Len(Page) - 1)
    BY <1>0, GivenIs
  <2> QED BY <1>1, <1>2, <2>1, <2>2, <2>3
<1>5. ~gone => CoveredTo(Before + PerPage, listing, ToSet(found') \cup withheld')
  BY <1>0, TakenCovers DEF PagedInv
<1>6. ~last /\ ~gone' => CoveredTo(Before', listing', (ToSet(found) \cup withheld)')
  BY <1>1, <1>3, <1>5 DEF ToSet
<1>7. WalkIsWhole'
  <2>1. CASE last
    <3>1. TakesPage(i, TRUE) /\ Reason(i)
      BY <2>1
    <3> QED BY <3>1, EndIsWhole
  <2>2. CASE ~last
    BY <1>0, <1>1, <2>2 DEF WalkIsWhole
  <2> QED BY <2>1, <2>2
<1>8. shifts' = 0 => \E n \in 0 .. Len(listing') : \E h \in 0 .. n :
         Exactly(n, h)'
         /\ (outcome' = "walking" => n = IF Before' < Len(listing') THEN Before' ELSE Len(listing'))
  <2> SUFFICES ASSUME shifts = 0
               PROVE  \E n \in 0 .. Len(listing) : \E h \in 0 .. n :
                        Exactly(n, h)'
                        /\ (outcome' = "walking" => n = IF Before' < Len(listing) THEN Before' ELSE Len(listing))
    BY <1>1
  <2>1. PICK n \in 0 .. Len(listing) :
          (\E h \in 0 .. n : Exactly(n, h)) /\ n = IF Before < Len(listing) THEN Before ELSE Len(listing)
    BY <1>0 DEF PagedInv
  <2>h. PICK h \in 0 .. n : Exactly(n, h)
    BY <2>1
  <2>2. PICK m \in 0 .. Len(listing), g \in Nat :
           /\ Exactly(m, g)'
           /\ m = IF Before + PerPage < Len(listing) THEN Before + PerPage ELSE Len(listing)
    BY <1>0, <1>2, <2>1, <2>h, TakenExactly
  <2>3. g \in 0 .. m
    BY <2>2 DEF Exactly
  <2>4. outcome' = "walking" => Before' = Before + PerPage
    BY <1>1, <1>3
  <2> QED BY <2>2, <2>3, <2>4
<1>9. outcome' = "walking" => /\ Len(found') <= Before' /\ (withheld' # {} => Len(found') < Before')
                              /\ ~gone' => CoveredTo(Before', listing', (ToSet(found) \cup withheld)')
  <2>1. outcome' = "walking" => ~last
    BY <1>1
  <2> QED BY <1>3, <1>4, <1>6, <2>1
<1>10. \A n, rows, has : CoveredTo(n, rows, has)' <=> CoveredTo(n, rows, has)
  BY <1>1 DEF CoveredTo
<1> QED BY <1>1, <1>7, <1>8, <1>9, <1>10 DEF PagedInv

LEMMA PagesKeep ==
  ASSUME PagedInv, NEW i \in Held,
         SearchPage(i) \/ OpenJobsPage(i) \/ CronPage(i) \/ RebuildPage(i) \/ SeedPage(i)
  PROVE  PagedInv'
<1>1. CASE SearchPage(i)
  <2>1. PICK last \in BOOLEAN : last = (Short(i) \/ page = MaxPages)
    OBVIOUS
  <2>2. TakesPage(i, last) /\ (last => Reason(i))
    BY <1>1, <2>1 DEF SearchPage, Reason
  <2> QED BY <2>2, TakesKeepsWalk
<1>2. CASE OpenJobsPage(i) \/ CronPage(i) \/ RebuildPage(i)
  <2>0. Short(i) \in BOOLEAN
    BY DEF Short
  <2>1. PICK last \in BOOLEAN : last = Short(i)
    BY <2>0
  <2>2. TakesPage(i, last) /\ (last => Reason(i))
    BY <1>2, <2>1 DEF OpenJobsPage, CronPage, RebuildPage, Reason
  <2> QED BY <2>2, TakesKeepsWalk
<1>3. CASE SeedPage(i)
  <2>1. PICK last \in BOOLEAN : last = (Given(i) = <<>>)
    OBVIOUS
  <2>2. TakesPage(i, last) /\ (last => Reason(i))
    BY <1>3, <2>1 DEF SeedPage, Reason
  <2> QED BY <2>2, TakesKeepsWalk
<1> QED BY <1>1, <1>2, <1>3

(* Nothing changes but the attempts, and that the walk may fail.            *)
LEMMA WaitKeeps ==
  ASSUME PagedInv, UNCHANGED <<listing, shifts, stayed, risen, gone, withheld, mode, page, found, counting, total>>,
         attempt' \in 1 .. 4, outcome' = outcome \/ outcome' = "failed"
  PROVE  PagedInv'
<1>1. PagedShape'
  <2>1. outcome' \in {"walking", "done", "failed"}
    BY DEF PagedInv, PagedShape
  <2> QED BY <2>1 DEF PagedInv, PagedShape, ToSet
<1>2. WalkIsWhole'
  <2>1. CASE outcome' = outcome
    BY <2>1 DEF PagedInv, WalkIsWhole, Truncated, ToSet
  <2>2. CASE outcome' = "failed"
    BY <2>2 DEF WalkIsWhole
  <2> QED BY <2>1, <2>2
<1>3. Before' = Before /\ ToSet(found)' = ToSet(found) /\ (outcome' = "walking" => outcome = "walking")
      /\ \A n, rows, has : CoveredTo(n, rows, has)' <=> CoveredTo(n, rows, has)
  BY DEF Before, ToSet, CoveredTo
<1>4. outcome' = "walking" => /\ Len(found') <= Before' /\ (withheld' # {} => Len(found') < Before')
                              /\ ~gone' => CoveredTo(Before', listing', (ToSet(found) \cup withheld)')
  BY <1>3 DEF PagedInv
<1>5. shifts' = 0 => \E n \in 0 .. Len(listing') : \E i \in 0 .. n :
        /\ Exactly(n, i)'
        /\ outcome' = "walking" => n = IF Before' < Len(listing') THEN Before' ELSE Len(listing')
  <2> SUFFICES ASSUME shifts = 0
               PROVE  \E n \in 0 .. Len(listing) : \E i \in 0 .. n :
                        /\ Exactly(n, i)'
                        /\ outcome' = "walking" => n = IF Before < Len(listing) THEN Before ELSE Len(listing)
    BY <1>3
  <2>1. PICK n \in 0 .. Len(listing) : \E i \in 0 .. n :
          Exactly(n, i) /\ (outcome = "walking" => n = IF Before < Len(listing) THEN Before ELSE Len(listing))
    BY DEF PagedInv
  <2>2. PICK i \in 0 .. n :
          Exactly(n, i) /\ (outcome = "walking" => n = IF Before < Len(listing) THEN Before ELSE Len(listing))
    BY <2>1
  <2>3. Exactly(n, i)'
    BY <2>2 DEF Exactly
  <2> QED BY <1>3, <2>2, <2>3
<1> QED BY <1>1, <1>2, <1>3, <1>4, <1>5 DEF PagedInv

LEMMA FailsKeep == ASSUME PagedInv, NEW failure \in Failures, PageFails(failure) PROVE PagedInv'
<1>1. /\ outcome = "walking" /\ UNCHANGED <<listing, shifts, stayed, risen, gone, mode, counting>>
      /\ UNCHANGED <<withheld, page, found, total>>
      /\ \/ AsksAgain(failure) /\ attempt' = attempt + 1 /\ UNCHANGED outcome
         \/ outcome' = "failed" /\ UNCHANGED attempt
  BY DEF PageFails, Walks, listingVars
<1>2. attempt' \in 1 .. 4
  <2>1. attempt \in 1 .. 4
    BY DEF PagedInv, PagedShape
  <2>2. AsksAgain(failure) => attempt < 4
    BY <2>1 DEF AsksAgain, BurstRetries, OneShot, ListRetries, StepRetries
  <2> QED BY <1>1, <2>1, <2>2
<1> QED BY <1>1, <1>2, WaitKeeps

(* The list changes: who stays and does not rise never moves forward.       *)
LEMMA ShiftKeeps ==
  ASSUME PagedInv, Shifts, listing' \in Seq(People), stayed' \subseteq ToSet(listing'), risen' \subseteq People,
         gone' \in BOOLEAN, stayed' \subseteq stayed, risen \subseteq risen', gone => gone',
         ~gone' => \A j \in DOMAIN listing' :
            \/ listing'[j] \notin stayed' \/ listing'[j] \in risen'
            \/ \E q \in DOMAIN listing : q <= j /\ listing[q] = listing'[j]
  PROVE  PagedInv'
<1>1. outcome = "walking" /\ shifts' = shifts + 1
      /\ UNCHANGED <<withheld, mode, page, attempt, found, counting, total, outcome>>
  BY DEF Shifts, walkVars
<1>2. PagedShape /\ Before \in Nat /\ Before' = Before /\ (ToSet(found) \cup withheld)' = ToSet(found) \cup withheld
  BY <1>1, BeforeIs DEF PagedInv, PagedShape, Before, ToSet
<1>3. PagedShape' /\ shifts' # 0 /\ WalkIsWhole'
  BY <1>1, <1>2 DEF PagedShape, WalkIsWhole
<1> DEFINE has == ToSet(found) \cup withheld
<1>4. ASSUME ~gone', NEW j \in DOMAIN listing', listing'[j] \in stayed', listing'[j] \notin risen', ~(j > Before)
      PROVE  listing'[j] \in has
  <2>1. PICK q \in DOMAIN listing : q <= j /\ listing[q] = listing'[j]
    BY <1>4
  <2>2. listing[q] \in stayed /\ listing[q] \notin risen
    BY <1>4, <2>1
  <2>3. DOMAIN listing = 1 .. Len(listing) /\ DOMAIN listing' = 1 .. Len(listing')
        /\ Len(listing) \in Nat /\ Len(listing') \in Nat
    BY <1>2, LenProperties DEF PagedShape
  <2>4. ~(q > Before)
    BY <1>2, <1>4, <2>1, <2>3
  <2>5. CoveredTo(Before, listing, has)
    BY <1>1, <1>4 DEF PagedInv
  <2> QED BY <2>1, <2>2, <2>4, <2>5 DEF CoveredTo
<1> HIDE DEF has
<1>5. ~gone' => CoveredTo(Before, listing, has)'
  BY <1>2, <1>4 DEF CoveredTo, has
<1>6. Len(found') <= Before' /\ (withheld' # {} => Len(found') < Before')
  BY <1>1, <1>2 DEF PagedInv
<1> QED BY <1>1, <1>3, <1>5, <1>6 DEF PagedInv, has

LEMMA AppearsKeeps == ASSUME PagedInv, NEW p \in People, Appears(p) PROVE PagedInv'
<1>0. listing \in Seq(People) /\ Len(listing) \in Nat /\ DOMAIN listing = 1 .. Len(listing)
      /\ stayed \subseteq ToSet(listing) /\ risen \subseteq People /\ gone \in BOOLEAN
  BY LenProperties DEF PagedInv, PagedShape
<1>1. Shifts /\ p \notin ToSet(listing) /\ listing' = Append(listing, p) /\ UNCHANGED <<stayed, risen, gone>>
  BY DEF Appears
<1>2. /\ listing' \in Seq(People) /\ DOMAIN listing' = 1 .. Len(listing) + 1
      /\ \A j \in 1 .. Len(listing) : listing'[j] = listing[j]
      /\ listing'[Len(listing) + 1] = p
  BY <1>0, <1>1, AppendProperties, LenProperties
<1>3. ToSet(listing) \subseteq ToSet(listing')
  <2>1. \A j \in 1 .. Len(listing) : j \in DOMAIN listing'
    BY <1>0, <1>2
  <2> QED BY <1>0, <1>2, <2>1 DEF ToSet
<1>4. ASSUME NEW j \in DOMAIN listing'
      PROVE  \/ listing'[j] \notin stayed' \/ listing'[j] \in risen'
             \/ \E q \in DOMAIN listing : q <= j /\ listing[q] = listing'[j]
  <2>1. CASE j = Len(listing) + 1
    BY <1>0, <1>1, <1>2, <2>1
  <2>2. CASE j # Len(listing) + 1
    <3>1. j \in 1 .. Len(listing) /\ j <= j
      BY <1>0, <1>2, <1>4, <2>2
    <3> QED BY <1>0, <1>2, <3>1
  <2> QED BY <2>1, <2>2
<1>5. stayed' \subseteq ToSet(listing') /\ risen' \subseteq People /\ gone' \in BOOLEAN
      /\ stayed' \subseteq stayed /\ risen \subseteq risen' /\ (gone => gone')
  BY <1>0, <1>1, <1>3
<1> QED BY <1>1, <1>2, <1>4, <1>5, ShiftKeeps

LEMMA RisesKeeps == ASSUME PagedInv, NEW i \in DOMAIN listing, Rises(i) PROVE PagedInv'
<1> DEFINE rest == RemoveAt(listing, i)
           first == <<listing[i]>>
<1>0. listing \in Seq(People) /\ Len(listing) \in Nat /\ DOMAIN listing = 1 .. Len(listing)
      /\ stayed \subseteq ToSet(listing) /\ risen \subseteq People /\ gone \in BOOLEAN /\ listing[i] \in People
  BY LenProperties, ElementOfSeq DEF PagedInv, PagedShape
<1>1. Shifts /\ listing' = first \o rest /\ risen' = risen \cup {listing[i]} /\ UNCHANGED <<stayed, gone>>
  BY DEF Rises
<1>2. /\ rest \in Seq(People) /\ Len(rest) = Len(listing) - 1
      /\ \A j \in 1 .. Len(listing) - 1 : rest[j] = IF j < i THEN listing[j] ELSE listing[j + 1]
  BY <1>0, Removed
<1>3. first \in Seq(People) /\ Len(first) = 1 /\ first[1] = listing[i]
  BY <1>0
<1> HIDE DEF rest, first
<1>4. /\ listing' \in Seq(People) /\ DOMAIN listing' = 1 .. Len(listing) /\ listing'[1] = listing[i]
      /\ \A j \in 2 .. Len(listing) : listing'[j] = rest[j - 1]
  <2>1. /\ listing' \in Seq(People) /\ Len(listing') = Len(first) + Len(rest)
        /\ \A j \in 1 .. Len(first) + Len(rest) : listing'[j] = IF j <= Len(first) THEN first[j] ELSE rest[j - Len(first)]
    BY <1>1, <1>2, <1>3, ConcatProperties
  <2>2. Len(listing') = Len(listing) /\ i \in 1 .. Len(listing)
    BY <1>0, <1>2, <1>3, <2>1
  <2>3. listing'[1] = listing[i]
    BY <1>0, <1>2, <1>3, <2>1, <2>2
  <2>4. \A j \in 2 .. Len(listing) : listing'[j] = rest[j - 1]
    BY <1>0, <1>2, <1>3, <2>1, <2>2
  <2> QED BY <2>1, <2>2, <2>3, <2>4, LenProperties
<1>5. ASSUME NEW j \in DOMAIN listing'
      PROVE  \/ listing'[j] \notin stayed' \/ listing'[j] \in risen'
             \/ \E q \in DOMAIN listing : q <= j /\ listing[q] = listing'[j]
  <2>1. CASE j = 1
    BY <1>1, <1>4, <2>1
  <2>2. CASE j # 1 /\ j - 1 < i
    <3>1. j \in 2 .. Len(listing) /\ j - 1 \in 1 .. Len(listing) - 1 /\ j - 1 \in DOMAIN listing /\ j - 1 <= j
      BY <1>0, <1>4, <1>5, <2>2
    <3> QED BY <1>2, <1>4, <2>2, <3>1
  <2>3. CASE j # 1 /\ ~(j - 1 < i)
    <3>1. j \in 2 .. Len(listing) /\ j - 1 \in 1 .. Len(listing) - 1 /\ j \in DOMAIN listing /\ j <= j
          /\ (j - 1) + 1 = j
      BY <1>0, <1>4, <1>5, <2>3
    <3> QED BY <1>2, <1>4, <2>3, <3>1
  <2> QED BY <2>1, <2>2, <2>3
<1>6. ToSet(listing) \subseteq ToSet(listing')
  <2>1. ASSUME NEW q \in DOMAIN listing PROVE \E j \in DOMAIN listing' : listing'[j] = listing[q]
    <3>1. CASE q = i
      <4>1. 1 \in DOMAIN listing'
        BY <1>0, <1>4
      <4> QED BY <1>4, <3>1, <4>1
    <3>2. CASE q < i
      <4>1. q + 1 \in 2 .. Len(listing) /\ q + 1 \in DOMAIN listing' /\ (q + 1) - 1 = q
            /\ q \in 1 .. Len(listing) - 1
        BY <1>0, <1>4, <3>2
      <4> QED BY <1>2, <1>4, <3>2, <4>1
    <3>3. CASE q > i
      <4>1. q \in 2 .. Len(listing) /\ q \in DOMAIN listing' /\ ~(q - 1 < i)
            /\ q - 1 \in 1 .. Len(listing) - 1 /\ (q - 1) + 1 = q
        BY <1>0, <1>4, <3>3
      <4> QED BY <1>2, <1>4, <4>1
    <3> QED BY <1>0, <3>1, <3>2, <3>3
  <2> QED BY <2>1 DEF ToSet
<1>7. stayed' \subseteq ToSet(listing') /\ risen' \subseteq People /\ gone' \in BOOLEAN
      /\ stayed' \subseteq stayed /\ risen \subseteq risen' /\ (gone => gone')
  BY <1>0, <1>1, <1>6
<1> QED BY <1>1, <1>4, <1>5, <1>7, ShiftKeeps

LEMMA LeavesKeeps == ASSUME PagedInv, NEW i \in DOMAIN listing, Leaves(i) PROVE PagedInv'
<1>0. listing \in Seq(People) /\ Len(listing) \in Nat /\ DOMAIN listing = 1 .. Len(listing)
      /\ stayed \subseteq ToSet(listing) /\ risen \subseteq People
  BY LenProperties DEF PagedInv, PagedShape
<1>1. Shifts /\ listing' = RemoveAt(listing, i) /\ stayed' = stayed \ {listing[i]} /\ gone' = TRUE
      /\ UNCHANGED risen
  BY DEF Leaves
<1>2. /\ listing' \in Seq(People) /\ Len(listing') = Len(listing) - 1
      /\ \A j \in 1 .. Len(listing) - 1 : listing'[j] = IF j < i THEN listing[j] ELSE listing[j + 1]
  BY <1>0, <1>1, Removed
<1>3. DOMAIN listing' = 1 .. Len(listing) - 1
  BY <1>2, LenProperties
<1>4. ASSUME NEW p \in stayed' PROVE p \in ToSet(listing')
  <2>1. PICK q \in DOMAIN listing : p = listing[q]
    BY <1>0, <1>1 DEF ToSet
  <2>2. q # i
    BY <1>1, <2>1
  <2>3. CASE q < i
    <3>1. q \in 1 .. Len(listing) - 1
      BY <1>0, <2>3
    <3> QED BY <1>2, <1>3, <2>1, <2>3, <3>1 DEF ToSet
  <2>4. CASE q > i
    <3>1. q - 1 \in 1 .. Len(listing) - 1 /\ ~(q - 1 < i) /\ (q - 1) + 1 = q
      BY <1>0, <2>4
    <3>2. listing'[q - 1] = p
      BY <1>2, <2>1, <3>1
    <3> QED BY <1>3, <3>1, <3>2 DEF ToSet
  <2> QED BY <1>0, <2>2, <2>3, <2>4
<1>5. stayed' \subseteq ToSet(listing') /\ risen' \subseteq People /\ gone' \in BOOLEAN
      /\ stayed' \subseteq stayed /\ risen \subseteq risen' /\ (gone => gone') /\ gone'
  BY <1>0, <1>1, <1>4
<1> QED BY <1>1, <1>2, <1>5, ShiftKeeps

LEMMA PagedKept == PagedInv /\ [PagedNext]_pagedVars => PagedInv'
<1> SUFFICES ASSUME PagedInv, [PagedNext]_pagedVars PROVE PagedInv'
  OBVIOUS
<1>1. CASE UNCHANGED pagedVars
  <2>1. attempt \in 1 .. 4
    BY DEF PagedInv, PagedShape
  <2> QED BY <1>1, <2>1, WaitKeeps DEF pagedVars, listingVars, walkVars
<1> QED BY <1>1, AppearsKeeps, RisesKeeps, LeavesKeeps, PagesKeep, FailsKeep DEF PagedNext

LEMMA ListedOnce == ASSUME NEW S, IsFiniteSet(S) PROVE SetToSeq(S) \in Seq(S)
<1>1. Cardinality(S) \in Nat
  BY FS_CardinalityType
<1>2. IsFiniteSet(1 .. Cardinality(S)) /\ Cardinality(1 .. Cardinality(S)) = Cardinality(S)
  BY <1>1, FS_Interval
<1>3. ExistsBijection(1 .. Cardinality(S), S)
  BY <1>2, FS_SameCardinalityBij
<1>4. PICK f \in [1 .. Cardinality(S) -> S] : IsInjective(f)
  BY <1>3 DEF ExistsBijection, Bijection, Injection
<1>5. SetToSeq(S) \in [1 .. Cardinality(S) -> S]
  BY <1>4 DEF SetToSeq
<1> QED BY <1>1, <1>5, SeqDef

LEMMA PagedStarts == PagedInit => PagedInv
<1> SUFFICES ASSUME PagedInit PROVE PagedInv
  OBVIOUS
<1>1. /\ listing \in {SetToSeq(People)} \cup {SetToSeq(People \ {p}) : p \in People}
      /\ shifts = 0 /\ stayed = ToSet(listing) /\ risen = {} /\ gone = FALSE /\ withheld = {}
      /\ mode \in Modes /\ page = 1 /\ attempt = 1 /\ found = <<>>
      /\ counting \in (IF mode \in Searches THEN BOOLEAN ELSE {FALSE}) /\ total = NoTotal
      /\ outcome = "walking"
  BY DEF PagedInit
<1>2. listing \in Seq(People)
  <2>1. CASE listing = SetToSeq(People)
    BY <2>1, ListedOnce, PagedNumbers
  <2>2. CASE listing \in {SetToSeq(People \ {p}) : p \in People}
    <3>1. PICK p \in People : listing = SetToSeq(People \ {p})
      BY <2>2
    <3>2. IsFiniteSet(People \ {p}) /\ People \ {p} \subseteq People
      BY PagedNumbers, FS_Subset
    <3>3. listing \in Seq(People \ {p})
      BY <3>1, <3>2, ListedOnce
    <3> QED BY <3>2, <3>3
  <2> QED BY <1>1, <2>1, <2>2
<1>3. PagedShape
  <2>1. found \in Seq(People) /\ stayed \subseteq ToSet(listing)
    BY <1>1
  <2>2. counting \in BOOLEAN /\ (counting => mode \in Searches)
    BY <1>1
  <2>3. total \in Nat \cup {NoTotal} /\ page \in Nat \ {0} /\ attempt \in 1 .. 4 /\ shifts \in Nat
    BY <1>1
  <2> QED BY <1>1, <1>2, <2>1, <2>2, <2>3 DEF PagedShape
<1>4. Before = 0
  BY <1>1, PagedNumbers DEF Before
<1>5. Len(found) = 0 /\ Len(listing) \in Nat /\ DOMAIN listing = 1 .. Len(listing)
  BY <1>1, <1>2, LenProperties
<1>6. CoveredTo(Before, listing, ToSet(found) \cup withheld)
  BY <1>4, <1>5 DEF CoveredTo
<1>7. Exactly(0, 0) /\ 0 \in 0 .. Len(listing) /\ 0 \in 0 .. 0
      /\ 0 = (IF Before < Len(listing) THEN Before ELSE Len(listing))
  BY <1>1, <1>4, <1>5 DEF Exactly
<1>8. WalkIsWhole
  BY <1>1 DEF WalkIsWhole
<1> QED BY <1>1, <1>3, <1>4, <1>5, <1>6, <1>7, <1>8 DEF PagedInv

LEMMA PrefixByPlaces ==
  ASSUME NEW s \in Seq(People), NEW t \in Seq(People), Len(s) <= Len(t), \A k \in 1 .. Len(s) : s[k] = t[k]
  PROVE  IsPrefix(s, t)
<1>1. Len(s) \in Nat /\ Len(t) \in Nat
  BY LenProperties
<1>2. \A k \in 1 .. Len(s) : s[k] \in People /\ t[k] \in People
  BY <1>1, ElementOfSeq
<1>3. /\ SubSeq(s, 1, Len(s)) \in Seq(People) /\ Len(SubSeq(s, 1, Len(s))) = Len(s)
      /\ \A k \in 1 .. Len(s) : SubSeq(s, 1, Len(s))[k] = s[k]
  BY <1>1, <1>2, SubSeqProperties
<1>4. /\ SubSeq(t, 1, Len(s)) \in Seq(People) /\ Len(SubSeq(t, 1, Len(s))) = Len(s)
      /\ \A k \in 1 .. Len(s) : SubSeq(t, 1, Len(s))[k] = t[k]
  BY <1>1, <1>2, SubSeqProperties
<1>5. SubSeq(s, 1, Len(s)) = SubSeq(t, 1, Len(s))
  BY <1>3, <1>4, SeqEqual
<1> QED BY <1>5 DEF IsPrefix

LEMMA PagedTells == PagedInv => PagedTypeOK /\ WalkIsWhole /\ StillListIsItself
<1> SUFFICES ASSUME PagedInv PROVE PagedTypeOK /\ WalkIsWhole /\ StillListIsItself
  OBVIOUS
<1>0. PagedShape /\ listing \in Seq(People) /\ found \in Seq(People) /\ Len(listing) \in Nat /\ Len(found) \in Nat
      /\ DOMAIN listing = 1 .. Len(listing)
  BY LenProperties DEF PagedInv, PagedShape
<1>1. PagedTypeOK
  <2>1. ToSet(listing) \subseteq People /\ ToSet(found) \subseteq People
    BY <1>0, HasIs, ElementOfSeq
  <2> QED BY <1>0, <2>1 DEF PagedShape, PagedTypeOK
<1>2. StillListIsItself
  <2> SUFFICES ASSUME shifts = 0
               PROVE  \E i \in 0 .. Len(listing) :
                        /\ withheld = (IF i = 0 THEN {} ELSE {listing[i]})
                        /\ IsPrefix(found, IF i = 0 THEN listing ELSE RemoveAt(listing, i))
    BY DEF StillListIsItself
  <2>n. PICK n \in 0 .. Len(listing) : \E i \in 0 .. n : Exactly(n, i)
    BY DEF PagedInv
  <2>1. PICK i \in 0 .. n : Exactly(n, i)
    BY <2>n
  <2>2. /\ withheld = (IF i = 0 THEN {} ELSE {listing[i]}) /\ Len(found) = IF i = 0 THEN n ELSE n - 1
        /\ \A k \in 1 .. Len(found) : found[k] = listing[IF i = 0 \/ k < i THEN k ELSE k + 1]
        /\ i \in 0 .. Len(listing)
    BY <1>0, <2>1 DEF Exactly
  <2>3. CASE i = 0
    <3>1. Len(found) <= Len(listing) /\ \A k \in 1 .. Len(found) : found[k] = listing[k]
      BY <1>0, <2>2, <2>3
    <3>2. IsPrefix(found, listing)
      BY <1>0, <3>1, PrefixByPlaces
    <3> QED BY <2>2, <2>3, <3>2
  <2>4. CASE i # 0
    <3> DEFINE rest == RemoveAt(listing, i)
    <3>1. /\ rest \in Seq(People) /\ Len(rest) = Len(listing) - 1
          /\ \A k \in 1 .. Len(listing) - 1 : rest[k] = IF k < i THEN listing[k] ELSE listing[k + 1]
      <4>1. i \in DOMAIN listing
        BY <1>0, <2>2, <2>4
      <4> QED BY <1>0, <4>1, Removed
    <3> HIDE DEF rest
    <3>2. Len(found) <= Len(rest) /\ \A k \in 1 .. Len(found) : k \in 1 .. Len(listing) - 1
      BY <1>0, <2>2, <2>4, <3>1
    <3>3. \A k \in 1 .. Len(found) : found[k] = rest[k]
      BY <2>2, <2>4, <3>1, <3>2
    <3>4. IsPrefix(found, rest)
      BY <1>0, <3>1, <3>2, <3>3, PrefixByPlaces
    <3> QED BY <2>2, <2>4, <3>4 DEF rest
  <2> QED BY <2>3, <2>4
<1> QED BY <1>1, <1>2 DEF PagedInv

\* For any list, size of a page and cap: a walk that is not called incomplete has
\* whoever was listed throughout, but for what no walk can know (rf-client.js:
\* 1619-1705, stage-stats.js:611-634, workflow.js:203-214).
THEOREM WalksAreWhole == PagedSpec => [](PagedTypeOK /\ WalkIsWhole /\ StillListIsItself)
  BY PagedStarts, PagedKept, PagedTells, PTL DEF PagedSpec

-----------------------------------------------------------------------------
(* THE WEEKS.  The clocks change an hour after a midnight of UTC, so that  *)
(* no midnight of London's falls into the change: the first guess at it is *)
(* off by the very offset that the second has.  Weeks are then numbered by *)
(* the wall clock: the k-th begins where London's clock shows 168 * k.     *)

\* The first hour of London's k-th week.
WeekStart(k) == 168 * k - Offset(168 * k)

LEMMA ClockChanges ==
  \E s, a \in Int : Spring = 168 * s + 145 /\ Autumn = 168 * a + 145 /\ s < a
<1> DEFINE s == Spring \div 168
           a == Autumn \div 168
<1>1. Spring \in Nat /\ Autumn \in Nat /\ Spring < Autumn /\ Spring % 168 = 145 /\ Autumn % 168 = 145
  BY WeeksConstants
<1>2. s \in Int /\ a \in Int /\ Spring = 168 * s + 145 /\ Autumn = 168 * a + 145
  BY <1>1
<1> HIDE DEF s, a
<1> QED BY <1>1, <1>2

LEMMA OffsetIs ==
  ASSUME NEW h \in Int
  PROVE  /\ Offset(h) \in {0, 1} /\ Wall(h) \in Int /\ Wall(h) = h + Offset(h)
         /\ Offset(h) = 1 <=> Spring <= h /\ h < Autumn
  BY WeeksConstants DEF Offset, Wall

(* A midnight of London is one, and an hour of the wall clock belongs to   *)
(* the day that begins there.                                              *)
LEMMA MidnightIs ==
  ASSUME NEW day \in Int
  PROVE  /\ LondonMidnight(day) = 24 * day - Offset(24 * day)
         /\ LondonMidnight(day) \in Int
         /\ Offset(LondonMidnight(day)) = Offset(24 * day)
         /\ Wall(LondonMidnight(day)) = 24 * day
<1> DEFINE t == 24 * day
<1>0. Spring \in Int /\ Autumn \in Int
  BY WeeksConstants
<1>1. PICK s, a \in Int : Spring = 168 * s + 145 /\ Autumn = 168 * a + 145 /\ s < a
  BY ClockChanges
<1>2. t \in Int /\ Offset(t - 1) = Offset(t)
  <2>1. t # Spring /\ t # Autumn
    BY <1>1
  <2> QED BY <1>0, <2>1 DEF Offset
<1>3. Offset(t) \in {0, 1}
  BY <1>2, OffsetIs
<1>4. t - Offset(t) \in Int /\ Offset(t - Offset(t)) = Offset(t)
  BY <1>2, <1>3
<1>5. LondonMidnight(day) = t - Offset(t)
  BY <1>2, <1>3, <1>4 DEF LondonMidnight, Wall
<1> QED BY <1>2, <1>3, <1>4, <1>5 DEF Wall

LEMMA DayIs ==
  ASSUME NEW h \in Int
  PROVE  LocalDay(h) \in Int /\ 24 * LocalDay(h) <= Wall(h) /\ Wall(h) < 24 * LocalDay(h) + 24
  BY OffsetIs DEF LocalDay

LEMMA Sevens ==
  ASSUME NEW d \in Int
  PROVE  \E q \in Int, r \in 0 .. 6 : q = d \div 7 /\ r = d % 7 /\ d = 7 * q + r
<1>1. d \div 7 \in Int /\ d % 7 \in 0 .. 6
  OBVIOUS
<1>2. \A r \in 0 .. 6 : d % 7 = r => d = 7 * (d \div 7) + r
  OBVIOUS
<1> QED BY <1>1, <1>2

LEMMA MondayIs ==
  ASSUME NEW h \in Int
  PROVE  \E k \in Int : /\ MondayOf(h) = 7 * k
                        /\ 168 * k <= Wall(h) /\ Wall(h) < 168 * k + 168
<1> DEFINE day == LocalDay(h)
           k == day \div 7
<1>1. day \in Int /\ 24 * day <= Wall(h) /\ Wall(h) < 24 * day + 24 /\ Wall(h) \in Int
  BY DayIs, OffsetIs
<1> HIDE DEF day
<1>2. PICK r \in 0 .. 6 : k \in Int /\ r = day % 7 /\ day = 7 * k + r
  BY <1>1, Sevens
<1>3. MondayOf(h) = 7 * k
  <2>1. MondayOf(h) = day - r
    BY <1>2 DEF MondayOf, day
  <2> QED BY <1>1, <1>2, <2>1
<1>4. 168 * k <= 24 * day /\ 24 * day + 24 <= 168 * k + 168
  BY <1>1, <1>2
<1> HIDE DEF k
<1> QED BY <1>1, <1>2, <1>3, <1>4

(* An hour of the k-th week has that week for its own.                     *)
LEMMA WeekIs ==
  ASSUME NEW h \in Int, NEW k \in Int, 168 * k <= Wall(h), Wall(h) < 168 * k + 168
  PROVE  /\ MondayOf(h) = 7 * k
         /\ CurrentWeek(h) = [start |-> WeekStart(k), end |-> WeekStart(k + 1)]
         /\ PreviousWeekStart(h) = WeekStart(k - 1)
<1>1. PICK j \in Int : MondayOf(h) = 7 * j /\ 168 * j <= Wall(h) /\ Wall(h) < 168 * j + 168
  BY MondayIs
<1>2. j = k
  BY <1>1, OffsetIs
<1>3. 24 * (7 * k) = 168 * k /\ 7 * k + 7 = 7 * (k + 1) /\ 24 * (7 * (k + 1)) = 168 * (k + 1)
      /\ 7 * k - 7 = 7 * (k - 1) /\ 24 * (7 * (k - 1)) = 168 * (k - 1)
      /\ 7 * k \in Int /\ 7 * (k + 1) \in Int /\ 7 * (k - 1) \in Int
  OBVIOUS
<1>4. LondonMidnight(7 * k) = WeekStart(k) /\ LondonMidnight(7 * (k + 1)) = WeekStart(k + 1)
      /\ LondonMidnight(7 * (k - 1)) = WeekStart(k - 1)
  BY <1>3, MidnightIs DEF WeekStart
<1> QED BY <1>1, <1>2, <1>3, <1>4 DEF CurrentWeek, PreviousWeekStart

LEMMA WeekStartIs ==
  ASSUME NEW k \in Int
  PROVE  /\ WeekStart(k) \in Int /\ Wall(WeekStart(k)) = 168 * k /\ Wall(WeekStart(k) - 1) = 168 * k - 1
         /\ Offset(WeekStart(k)) = Offset(168 * k)
         /\ \A h \in Int : h < WeekStart(k) <=> Wall(h) < 168 * k
<1>0. Spring \in Int /\ Autumn \in Int
  BY WeeksConstants
<1>1. PICK s, a \in Int : Spring = 168 * s + 145 /\ Autumn = 168 * a + 145 /\ s < a
  BY ClockChanges
<1>2. 168 * k - 2 > Spring \/ 168 * k + 2 < Spring
  BY <1>1
<1>3. 168 * k - 2 > Autumn \/ 168 * k + 2 < Autumn
  BY <1>1
<1> DEFINE t == 168 * k
<1>4. t \in Int /\ (t - 2 > Spring \/ t + 2 < Spring) /\ (t - 2 > Autumn \/ t + 2 < Autumn)
  BY <1>2, <1>3
<1> HIDE DEF t
<1>5. Offset(t) \in {0, 1} /\ Offset(t - 1) = Offset(t) /\ Offset(t - 2) = Offset(t)
  BY <1>0, <1>4 DEF Offset
<1>6. /\ t - Offset(t) \in Int /\ Offset(t - Offset(t)) = Offset(t)
      /\ Offset((t - Offset(t)) - 1) = Offset(t)
  BY <1>4, <1>5
<1>7. \A h \in Int : h < t - Offset(t) <=> Wall(h) < t
  BY <1>0, <1>4 DEF Offset, Wall
<1> QED BY <1>4, <1>5, <1>6, <1>7 DEF WeekStart, Wall, t

LEMMA HourTiles == ASSUME hour \in Int PROVE WeeksTile
<1>0. Spring \in Int /\ Autumn \in Int /\ Spring < Autumn
  BY WeeksConstants
<1>1. PICK k \in Int : /\ MondayOf(hour) = 7 * k
                       /\ 168 * k <= Wall(hour) /\ Wall(hour) < 168 * k + 168
  BY MondayIs
<1> DEFINE start == WeekStart(k)
           end == WeekStart(k + 1)
<1>2. CurrentWeek(hour) = [start |-> start, end |-> end] /\ PreviousWeekStart(hour) = WeekStart(k - 1)
  BY <1>1, WeekIs
<1>3. start \in Int /\ end \in Int /\ Wall(start) = 168 * k /\ Wall(end) = 168 * (k + 1)
      /\ Wall(start - 1) = 168 * k - 1
      /\ Offset(start) = Offset(168 * k) /\ Offset(end) = Offset(168 * (k + 1))
  BY WeekStartIs
<1>4. start <= hour /\ hour < end
  <2>1. ~(hour < start)
    BY <1>1, <1>3, WeekStartIs, OffsetIs
  <2>2. hour < end
    <3>1. Wall(hour) < 168 * (k + 1)
      BY <1>1, OffsetIs
    <3> QED BY <3>1, WeekStartIs
  <2> QED BY <1>3, <2>1, <2>2
<1>5. CurrentWeek(end).start = end
  <2>1. 168 * (k + 1) <= Wall(end) /\ Wall(end) < 168 * (k + 1) + 168 /\ k + 1 \in Int
    BY <1>3
  <2> QED BY <1>3, <2>1, WeekIs
<1>6. CurrentWeek(start - 1) = [start |-> WeekStart(k - 1), end |-> WeekStart((k - 1) + 1)]
  <2>1. 168 * (k - 1) <= Wall(start - 1) /\ Wall(start - 1) < 168 * (k - 1) + 168 /\ k - 1 \in Int
        /\ start - 1 \in Int
    BY <1>3
  <2> QED BY <2>1, WeekIs
<1>7. (k - 1) + 1 = k
  OBVIOUS
<1>8. end - start = 168 + Offset(start) - Offset(end)
  <2>1. Offset(168 * k) \in {0, 1} /\ Offset(168 * (k + 1)) \in {0, 1} /\ 168 * (k + 1) = 168 * k + 168
        /\ 168 * k \in Int
    BY OffsetIs
  <2> QED BY <1>3, <2>1 DEF WeekStart
<1> DEFINE d == LocalDay(hour)
           e == LocalDay(hour - 24)
<1>9. /\ d \in Int /\ 24 * d <= Wall(hour) /\ Wall(hour) < 24 * d + 24
      /\ e \in Int /\ 24 * e <= Wall(hour - 24) /\ Wall(hour - 24) < 24 * e + 24
      /\ Wall(hour) \in Int /\ Wall(hour - 24) \in Int
      /\ hour - 24 \in Int
  BY DayIs, OffsetIs
<1>10. e < d \/ (e = d /\ Autumn <= hour /\ Wall(hour) = Wall(hour - 24) + 23)
  BY <1>0, <1>9 DEF Wall, Offset
<1>11. e = d => Wall(hour) % 24 = 23
  <2> SUFFICES ASSUME e = d PROVE Wall(hour) % 24 = 23
    OBVIOUS
  <2>1. Wall(hour) = 24 * d + 23
    BY <1>9, <1>10
  <2> QED BY <1>9, <2>1
<1>12. SinceDate(hour) < LocalDay(hour) \/ LongDaysEnd(hour)
  BY <1>10 DEF SinceDate, LongDaysEnd
<1>13. LongDaysEnd(hour) => Wall(hour) % 24 = 23
  BY <1>11 DEF LongDaysEnd
<1>14. MondayOf(hour) * 24 = 168 * k
  BY <1>1
<1> HIDE DEF start, end
<1> QED BY <1>2, <1>3, <1>4, <1>5, <1>6, <1>7, <1>8, <1>12, <1>13, <1>14 DEF WeeksTile, start

\* For any two Sundays of the changes: the weeks of London's clock tile the time
\* (stage-stats.js:52-131).
THEOREM WeeksAreLondons == WeeksSpec => [](WeeksTile /\ WeeksTypeOK)
<1> DEFINE Inv == WeeksTypeOK /\ hour \in Int
<1>0. Hours \in Nat /\ 168 <= Hours
  BY WeeksConstants
<1>1. WeeksInit => Inv
  BY <1>0 DEF WeeksInit, WeeksTypeOK
<1>2. Inv /\ [WeeksNext]_hour => Inv'
  BY <1>0 DEF WeeksNext, WeeksTypeOK
<1>3. Inv => WeeksTile /\ WeeksTypeOK
  BY HourTiles
<1> QED BY <1>1, <1>2, <1>3, PTL DEF WeeksSpec

-----------------------------------------------------------------------------
(* THE PARTS TOGETHER, as MCStageStats checks them: a step of one leaves   *)
(* the others alone, and those that have many first states are idle when   *)
(* they do not run.                                                        *)

LEMMA PartsStep ==
  [StatsNext]_statsVars =>
    /\ [Next]_vars /\ [PushNext]_pushVars /\ [WeeksNext]_hour
    /\ [PipelinesNext]_listVars /\ [BackfillNext]_backfillVars /\ [PagedNext]_pagedVars
    /\ part' = part
<1> SUFFICES ASSUME [StatsNext]_statsVars
             PROVE  /\ [Next]_vars /\ [PushNext]_pushVars /\ [WeeksNext]_hour
                    /\ [PipelinesNext]_listVars /\ [BackfillNext]_backfillVars /\ [PagedNext]_pagedVars
                    /\ part' = part
  OBVIOUS
<1>1. CASE UNCHANGED statsVars
  BY <1>1 DEF statsVars
<1>2. CASE Does("log", Next)
  BY <1>2 DEF Does, Others
<1>3. CASE Does("push", PushNext /\ InTurn)
  BY <1>3 DEF Does, Others
<1>4. CASE Does("weeks", WeeksNext)
  BY <1>4 DEF Does, Others
<1>5. CASE Does("pipelines", PipelinesNext)
  BY <1>5 DEF Does, Others
<1>6. CASE Does("backfill", BackfillNext)
  BY <1>6 DEF Does, Others
<1>7. CASE Does("paged", PagedNext)
  BY <1>7 DEF Does, Others
<1> QED BY <1>1, <1>2, <1>3, <1>4, <1>5, <1>6, <1>7 DEF StatsNext

StatsInv ==
    /\ part = "pipelines" => PipelinesInv
    /\ part = "backfill" => BackfillInv
    /\ part = "paged" => PagedInv

LEMMA StatsKept == StatsInv /\ [StatsNext]_statsVars => StatsInv'
  BY PartsStep, PipelinesKept, BackfillKept, PagedKept DEF StatsInv

LEMMA StatsStart == StatsInit => Init /\ PushInit /\ WeeksInit /\ StatsInv
  BY PipelinesStart, BackfillStarts, PagedStarts DEF StatsInit, StatsInv

\* The log, the push and the weeks run as they do by themselves.
LEMMA PartsRun == StatsSpec => Spec /\ PushSpec /\ WeeksSpec /\ []StatsInv
  BY StatsStart, StatsKept, PartsStep, PTL DEF StatsSpec, Spec, PushSpec, WeeksSpec

\* The invariants of the parts imply what the run checks.
LEMMA StatsTell ==
    TypeOK /\ PushTypeOK /\ ShownWasTrue /\ PairsCountOnce /\ WeeksTypeOK /\ WeeksTile /\ StatsInv =>
        StatsTypeOK /\ ReportedWasTrue /\ LogIsRight
<1>1. StatsInv => /\ part = "pipelines" => PipelinesTypeOK /\ JudgedByRecentList
                  /\ part = "backfill" => BackfillTypeOK /\ DoneIsComplete
                  /\ part = "paged" => PagedTypeOK /\ WalkIsWhole /\ StillListIsItself
  BY PipelinesTell, BackfillTells, PagedTells DEF StatsInv
<1> QED BY <1>1 DEF StatsTypeOK, ReportedWasTrue, LogIsRight

\* The state of every part is well formed (src/stage-stats.js, src/rf-client.js).
THEOREM StatsTyped == StatsSpec => []StatsTypeOK
  BY StatsTell, PartsRun, LogTypesHold, DashboardsShowTheLog, WeeksAreLondons, PTL

\* What a dashboard shows was counted at most Gap before its stamp, whatever pushes
\* and pulls overlap, fail and are sent twice; a pair counts once, and in weeks that
\* are London's (stage-stats.js:41-131, 451-502, 776-916).
THEOREM ReportsAreTrue == StatsSpec => []ReportedWasTrue
  BY StatsTell, PartsRun, LogTypesHold, DashboardsShowTheLog, WeeksAreLondons, PTL

\* A move is judged by a list that the job had lately; a backfill that says it is
\* done has left no move out, nor has its walk over RF's pages left out a candidate
\* (stage-stats.js:205-368, 1203-1280, rf-client.js:1540-1705).
THEOREM JudgementsAreRight == StatsSpec => []LogIsRight
  BY StatsTell, PartsRun, LogTypesHold, DashboardsShowTheLog, WeeksAreLondons, PTL

\* The same of the log, where a waterline loses a move only that was taken back, and
\* a row keeps its mover (stage-stats.js:536-748).
THEOREM StatsLogHolds == StatsSpec => []LostOnlyByRevert /\ AttributionKept
  BY PartsRun, WaterlineLosesNothing, MoverIsKept
=============================================================================

# Formal models of the recruit-edge backend

The repository is a set of Cloudflare Workers that keep a recruiting team's
tools in step: Recruiterflow (RF, the applicant database), Dialpad (phone), a
Chrome extension, a TV dashboard that plays music and shows statistics, and an
MCP server for assistants. Nearly all of its state lives elsewhere (RF, KV, D1,
Durable Object storage), every operation is a chain of awaited calls any of
which may fail, and the outside world delivers webhooks late, twice, in the
wrong order, or never. That is what these TLA+ modules model. Paths below are
relative to the repository.

1. [Inventory](#1-inventory)
2. [Modules](#2-modules)
3. [Runs: what is checked, with which bounds](#3-runs)
4. [Fairness](#4-fairness)
5. [What is proved, and how](#5-proofs)
6. [Where the code and its words disagree](#6-findings)
7. [What is only model-checked, and what is not modelled](#7-limits)
8. [What would come next](#8-plan)

## 1. Inventory

| Component | State | Operations | Modules |
|---|---|---|---|
| Cold-call arbiter, `src/cold-call-arbiter-do.js` | one Durable Object per call: `transcriptSeen`, `cancelledPayload`, `finalized`, one alarm | `markTranscript`, `markCancelled`, `alarm` | `ColdCallArbiter` |
| Cold-call pipeline, `src/cold-call.js`, `handlers/dialpad-webhooks.js` | KV dedup key; the candidate's tags, stage and activities in RF | `processCallEvent`, `finalizeCancelledColdCall`, hangup routing | `ColdCall`, `StageMoves` |
| Music remote, `music-worker/src/music-do.js` | one Durable Object: hibernating sockets, `demand`, `cmdQueue`, `lastExec`, one alarm, one upstream socket | upgrade, close, message, commands, `alarm`, drain | `MusicCommands`, `MusicUpstream`, `MusicTransport` |
| Stage-movement log, `src/stage-stats.js` | D1 rows keyed by move, the reconcile waterline, a KV cache of each job's stages | webhook, hourly and manual `runReconcile`, backfill | `StageStats`, `StageLadder`, `StagePipelines`, `StageBackfill`, `PagedSearch` |
| Stage statistics, `src/stage-stats.js` | what the dashboards show | weeks, aggregate, push with a retry, pull | `LondonWeeks`, `StagePush` |
| Cache worker, `cache-worker/src` | D1 tables `candidates_v2`, `jobs_v2`, `calls`; `sync_state` (cursor, leases) | `tailSyncThin` every 15 min, `/internal/calls/upsert`, seeds | `SubtaskLease`, `CacheCandidates`, `CacheJobs`, `CacheCalls` |
| Legacy cache, `cache-worker/src/{index,workflow}.js` | whole rows, one cursor, one lease | legacy tail sync, rebuild workflow | `CacheRebuild` |
| Contact sync, `src/handlers/{rf,dialpad}-*.js` | the same contact in RF, Dialpad and KV; a 60 s debounce flag | two webhooks | `ContactSync` |
| RF client, `src/rf-client.js` | none of its own; several calls to RF each | contested contact fields, choice of job, stage moves | `ContactConflict`, `StageMoves`, `JobLinks` |
| Candidate endpoints, `src/handlers/candidates.js` and others | RF, Dialpad, KV | adding, details, mark-invalid, prewarm, job links | `CandidateIntake`, `DetailsSnapshot`, `NeighborPrewarm`, `JobLinks` |
| Candidate index, calendar bookings, `src/cache.js` | candidates under several KV keys | `cacheCandidate`, tiered lookup | `CandidateIndex` |
| Enrichment, Krisp notes | KV keys "already done", a users cache per isolate | Apollo match, late phone webhook; note posting | `ApolloMatch`, `PhoneReveal`, `KrispNotes` |
| Extension calls, `src/extension-call-do.js`, `rate-limit.js` | one Durable Object per user: the active call; KV daily counter and rate limit | announce, clear, alarm; initiate | `ExtensionCall`, `CallRate` |
| MCP middleware, `src/mcp` | an in-memory snapshot of `candidates_v2` | searches, three writes by name, reads | `NamedWrites`, `CandidateSearch` |
| Routes, auth, SMS, MCP remote, metrics poller, music proxy, telemetry, scripts | none that others read | translation, forwarding, tokens, logging | none (section 7) |

What is hard in them:

* **A Durable Object is single-threaded, but not across a `fetch`.** The
  arbiter's alarm handler awaits the finalize request, the music object awaits
  the upstream and each delivery; requests and alarms run in between. Storage
  awaits keep the input gate closed and are not such points.
* **One alarm per object** serves several purposes (grace and cleanup; heartbeat
  and drain), and is at-least-once.
* **Read, several awaits, write whole**: tags, stages, phone lists, KV indexes,
  counters and rate limits. Two requests at once may each keep the other's write
  from lasting.
* **Sweeps with a cursor** over a source that lags, truncates, shifts its pages
  and fails: what the cursor passes is never read again.
* **Leases without an owner**: a tick that dies keeps its lease until a watchdog
  decides that it is old.
* **Webhooks**: no order, no exactly-once, no certainty; most failures are
  answered 200 on purpose. A write to one system comes back as the other's echo.
* **Names for people**: a name decides who is called, revealed or written to, and
  a failed or missing read must not turn a tie into a choice.

What makes each correct: one verdict per call and the transcript's precedence
(cold calls); nothing accepted is lost, doubled or starved, and an upstream
exactly while somebody listens (music); no crossing below the waterline unstored,
no attribution lost, no total of two instants (stage log); nothing behind the
cursor, no row worse than what was known (cache); echoes die and edits converge
(contact sync); a value has one holder and a reveal loses no number (records);
the key leads to the one it names; what is written is what was meant (MCP).

## 2. Modules

An action of a module is one stretch of a handler between two awaits that let
other events in. Where several storage operations in a row cannot be
interleaved, they are one action; where an awaited call may fail, there is an
action or a disjunct that fails. `PROJECT.json` maps every definition to its
lines. Variables whose comment says "history" are read by the properties only.

### Cold calls

**`ColdCallArbiter`**: the arbiter object. `transcriptSeen`,
`cancelledPayload`, `finalized` and `alarm` are its storage, per call.
`MarkTranscript` and `MarkCancelled` are the two RPCs; the alarm handler is
`AlarmWipe` (nothing to await), or `StartFinalize`, up to `SELF.fetch`, and
`Settle`, after it. `CrashInFinalize` is the platform's retry of a handler that
died. It is a specification of its own (`ArbiterSpec`), in which the webhooks may
come at any time: the abstraction that the next module implements.

**`ColdCall`**, extends it: every webhook delivery is a process with a program
counter, walking through `processCallEvent` (signal, dedup, gate, classify,
activity, tag, move); the finalize route is another; recruiters work in RF
meanwhile. `snap` holds the tags a process read, to be written back awaits later.

### Music

**`MusicCommands`**: the queue, cooldowns, the shared alarm and the drain, in
three steps (`AlarmFires`, `DrainSelect`, `Drained` or `RetryLater`). Time stamps
are kept as ticks left. `line`, `pick` and `tries` are history.
**`MusicUpstream`**: sockets, demand and the upstream. Each handler that may
have to open the upstream is two steps, and any number of handlers overlap. The
queue is empty here and the upstream is a boolean there: the two share only the
alarm and the demand, and each module lets the other's part of them happen at any
time (`SubscriberCounted`, `SubscriberServed` and `LastSubscriberLeaves` in the
one, a `Wake` without an armed alarm in the other). **`MusicTransport`**: the
commands delivered inline, with the throttle of `lastExec`, claimed before the
delivery, and the token bucket of prev.

### Stage log and statistics

**`StageLadder`**: how a move is judged (pure). **`StageStats`**, extends it:
RF's moves, the search index that shows them late, the webhook and the sweeps as
processes, the upsert and the waterline. **`StagePipelines`**: by which list of
stages a move is judged: the invocation's memo, KV's copy, or RF's answer, while
the user edits the list. **`StageBackfill`**: the operator's walk in batches, each
naming the next. **`PagedSearch`**: the walks over RF's pages, which shift while
they are walked, with the page cap, retries and the count that is compared at the
end. **`LondonWeeks`**: the weeks, in hours, across the changes of the clocks.
**`StagePush`**: aggregate, stamp, send, retry; the dashboard's guard is external.

### Caches

**`SubtaskLease`**, **`CacheCandidates`**, **`CacheJobs`**, **`CacheCalls`**: the
three subtasks of a cache tick. Candidates: a cursor in milliseconds against a
filter in days, a capped search, malformed rows, two unique constraints. RF does
not document the order of a search; it is taken to be oldest first, the one order
in which the cursor of a capped search can be right. Jobs: the tick and the
operator's seed race over the same rows. Calls: the cron's window hangs on the
latest row, which the forwarded webhooks raise; a clock unit is a cron period.
**`CacheRebuild`**: the legacy tail and the rebuild workflow, which share a lease
and a cursor and both write whole rows.

### Records

**`ContactConflict`**: `updateRFCandidate`'s passes over a refusal: search, read
in full, strip the value from its holder, write again. **`PhoneReveal`**: Apollo's
late webhook reads both systems, merges, ranks and writes back, beside
recruiters' edits. **`CandidateIndex`**: `cacheCandidate`'s keys with their lives,
the `AMBIGUOUS` name, and the calendar's tiered lookup. The record's puts are sent
off before the name is read and land when they like; the read, the name's put and
each of the record's may fail (`KVFails`), and the call fails only when all have
ended. **`CandidateIntake`**: one
profile several times in a batch of chunks, RF's own webhook for the same record,
and the purchase of its phone behind a flag. **`ApolloMatch`**: who of Apollo's
namesakes is taken for the candidate. **`KrispNotes`**: deliveries of one meeting,
the `processed` key, the users cache, the choice of author and candidate.

### Requests

**`ContactSync`**: two systems with one contact, webhooks in flight, the flag,
echoes. **`ExtensionCall`**: the call record per user, its alarm, the daily count.
**`CallRate`**: the limit of calls, read and put back around the call.
**`JobLinks`**: the consultant of a link, set by racing requests and resolved from
KV, RF's field or the user who added. **`NeighborPrewarm`**: the window warmed
around the opened profile. **`DetailsSnapshot`**: loads, the cached details and
mark-invalid. **`StageMoves`**: one read of the candidate, moved on awaits later. A
call chooses its job twice, at the gate and when it moves, and each time asks anew
for the consultant of each link that suits (`ResolvesConsultant`), one at a time;
recruiters move and close jobs and re-attribute links (`Reattributes`) in between.
Of `JobLinks` this part keeps only the answer of `resolveJobConsultantId`, which may
change to anything.
**`NamedWrites`**: resolution of a name to one candidate, who is written to, and in
the same state that of the name of a job, stage or owner. **`CandidateSearch`**: the
isolate's snapshot, the routes of a search and the warnings of what could not be
applied.

### Composition and configuration

`ColdCall` composes the pipeline with the arbiter. The other MC modules hold
parts side by side: `tailSyncThin` runs its subtasks under `Promise.allSettled`,
and the handlers of the requests share neither state nor lease in what is modelled
of them. A behaviour runs the part that `part` (`subtask`, `half`) names, so the
state spaces are added instead of multiplied, and each part meets every
interleaving of its own. `Idle` stands for the variables of a part with many
initial states that is not run.

* `MCColdCall`: one call.
* `MCMusic`: queue, gate, inline.
* `MCStageStats`: log, push, weeks, pipelines, backfill, paged.
  `MCStageStatsGap` adds a history variable to the log.
* `MCScheduled`: the three subtasks, and the sweep with no webhook.
* `MCRecords`: conflict, reveal, index, intake, match, krisp, legacy.
* `MCRequests`: sync, call, link, prewarm, snapshot, rate, moves, write, names,
  search.

## 3. Runs

| Run | Checks |
|---|---|
| `coldcall` | `TypeOK`, `OneVerdict`, `TaggedMeansLogged`, `RecordedOncePerLife`, `TranscriptWins`, `RecordIsLetGo` |
| `coldcall_superseded`, `coldcall_tags` | counterexamples, section 6 |
| `music` | `MusicTypesOK`, `CommandsKept` (none lost, overtaken, brought back or tried without end), `WakesInTime`, `DemandCounted`, `CommandsLand`, `KeepsTrying` |
| `music_upstream_leak` | counterexample |
| `stage_stats` | `StatsTypeOK`, `LostOnlyByRevert`, `AttributionKept`, `ReportedWasTrue` (push, weeks), `LogIsRight` (pipelines, backfill, pages) |
| `stage_stats_gap` | counterexample |
| `scheduled` | `TypesOK`, `NothingBehindCursor`, `BareMeansDenied`, `OnlyOutageLeavesBehind`, `BacklogsLand`, `SweepRecovers` |
| `cache_backlog`, `cache_dead_tick` | counterexamples |
| `records` | `RecordTypesOK`, `LostOnlyInHandover`, `RevealsMerge`, `CachedIsTrue` (index, legacy), `IntakeHolds`, `NoStrangerRevealed`, `KrispNotesHold` |
| `requests` | `RequestTypesOK`, `QuietEditsConverge`, `CallRecordHolds`, `AttributionAgrees`, `NextWasWarmed`, `ShownInTime`, `RateHeld`, `AssistantIsRight` (writes, names, search), `StageMovesHold`, `ComesToRest` |

Why the bounds are enough for what they are to show:

* *Cold calls.* One call, one hangup, one transcript, two finalize executions, one
  redelivery or crash, `Grace` 1 and `Cleanup` 2. Calls do not interact but
  through their candidate; one call with a repeated delivery has every order of
  the two webhooks, the alarm, the fetch and the cleanup. A second life of the
  record is reached. The theorems cover any number.
* *Music.* The slot is one element wherever it stands; two picks replace each
  other, two enqueues have an order, and a queue of two is full. The times keep
  the code's order (settle < defer < cooldowns < heartbeat). A request can be used
  again once nothing refers to it, so streams are endless. With three clients one
  stays while two come and go at once. `MinSpacing` and `BurstLimit` are 2, so a
  gesture of prev reaches its limit; `DeliverTimeout` is not below `ThrottleTime`,
  as in the code, so that a delivery may outlast the throttle.
* *Stage log.* Two moves make a crossing and its revert; candidates share only
  the `failed` flag and the waterline, which one candidate can set. Clock to 2 with
  a webhook and two sweeps, to 4 in `scheduled`, where the waterline passes the
  moves. `Lag <= Overlap` is the code's order (an hour against three). In
  `stage_stats` only states in which RF is not calm are explored (`Explored`), since
  a calm RF does nothing that a troubled one may not, and in which two of the three
  processes are at work at once; the theorem is of any number. The executions are
  interchangeable, and named alike in the log, the push and the pipelines
  (`SYMMETRY`; the run has no liveness property).
* *Statistics.* Two rows of two pairs make a correction, and `Week` 2 a week that
  ends during a push. `LondonWeeks` checks every hour of the weeks in which the
  clocks change. A list of stages is edited once, KV's copy lives for one tick and
  an invocation for one, so a clock to 3 holds the age at which a list is too
  old. Five people over pages of two, two pages and two shifts give a cut, a drift
  and a repeated row; four ids in batches of two give three batches of a backfill.
* *Caches.* `DayLength` 2 puts two times into one day. In the calls part the
  overlap and the watchdog's age are the same number, as they are six hours each
  in the code; with `<=` in place of the last `<` of `OnlyOutageLeavesBehind` the run
  finds a call left behind, so the bound on an outage is exact. The legacy part has a tail and a rebuild, a
  cap of two rows and a watchdog of one tick, shorter than a run can take.
* *Records.* Three holders and two callers contest two phones and an email; who is
  alike acts in turn (`CallersInTurn`, `AddsInTurn`, `UpdatesInTurn`). Two
  reveals bring four numbers of which one is excluded. Two namesakes, one address,
  one booking, one failure of KV; once a name's key has lapsed the index is not followed
  further, since `KeysAreTrue` says no more of the name (of the emails `KeysStayTrue`
  speaks then). Three occurrences of one profile in two chunks. Five of Apollo's
  people that differ in each field the match looks at, and every profile of a
  candidate. Two deliveries of a meeting and one fault.
* *Requests.* Two edits (one per system, or two of one), one fault, at most three
  webhooks in flight. Three calls and one dropped event. Four profiles with a ring
  and a trigger of two and two prewarms. Three calls against a limit of two, which
  begin in the order of their numbers (`InTurn`), being alike. Three
  candidates with four scores at the code's thresholds (38 and 45 are likely but
  not apart by `UniqueGap`; 95 is above `AutoFloor`), a pool that is cut at two,
  widened to three, and shown as two options, so that a tie at each cut occurs; two
  of the three may have moved of late. Two jobs, two consultants, two answered
  calls of which one has a caller that nobody knows, a booking, and one step of a
  recruiter: enough for a link that is re-attributed between the two choices to lead
  to another job than the gate's.

`CHECK_DEADLOCK FALSE` is set where time ends at its bound or requests run out.

The constants that bound a model are named `Max...` in it: faults, moves, time,
restarts, crashes, failures, deaths. Each is a guard of the actions it bounds.
`MaxQueue`, `MaxAttempts`, `MaxDefer`, `MaxResults`, `MaxPages` and `MaxOptions` are limits
of the code itself.

## 4. Fairness

Stated beside each specification, or in the MC module that composes it, and only
for what the platform or a timeout guarantees:

* an armed Durable Object alarm fires, at least once; for the music upstream
  strongly, since the event that makes the platform load the object is not lost to
  an eviction before its handler runs; time passes;
* a fetch resolves, fails or times out (the deliveries and the upstream have
  timeouts of their own), and a webhook handler that was started ends;
* cron fires for ever and a started sweep or tick ends;
* RF's search index catches up; RF's troubles end (`Calms`, only for
  `SweepRecovers`, which says "if RF recovers"); failures of the cache's ticks are
  bounded in number.

No client, recruiter, operator, webhook or successful delivery is ever assumed.
Where a property would need one it says so: `CommandsLand` excepts an endless
stream of picks, and `BacklogsLand` a search at its cap.

## 5. Proofs

Each holds for any value of the constants that meets the assumption named beside
them in their module (`ColdCallConstants`, `ArbiterTiming`, `StageConstants` and
so on), and rests on an invariant that is inductive where the property is not.

**`ColdCallProofs`**, with `0 < Grace <= Cleanup`, which the code's 2 and 60
minutes satisfy.

* `ArbiterInvariant`: that a request leaves only after a silence of two grace
  windows depends on how long ago the record began to wait, which no flag says.
  `IInv` adds, per call, `StorageInv` (which flags exclude each other, and that
  each comes with an alarm), `SilenceInv` (the time since the last accepted
  transcript plus the time left on the alarm covers two windows while a call
  waits, one while a transcript is remembered) and `TokenInv` (each life of a
  record has one token, held in turn by the empty record, the waiting payload and
  the request, and every retry brings one more). `ArbiterTypes`, `OncePerLife` and
  `ArbiterTranscriptWins` follow.
* `ColdCallImplementsArbiter`: `Spec => ArbiterSpec`. The pipeline extends the
  arbiter's module, so the refinement mapping is the identity on its variables;
  each step of the pipeline is one of the arbiter's or leaves it alone. Through it
  `ColdCallOncePerLife` and `ColdCallTranscriptWins` hold of the whole pipeline,
  with `ColdCallTypes`.
* `ColdCallOneVerdict`: a transcript that signals before any request was sent
  leaves a record that is decided (a flag that keeps the grace alarm from sending
  one), and it stays so until a wipe (`ClosedStays`). Whatever the pipeline does
  after its signal meets an arbiter that records nothing.
* `ColdCallTagsTold`: by where a process stands when it writes the tag, its
  activity has been written.

**`StageStatsProofs`**, about each part of the statistics and then about their
composition (`StatsTyped`, `ReportsAreTrue`, `JudgementsAreRight`, `StatsLogHolds`).

* `WaterlineLosesNothing`, for any candidates, ladder, webhooks and overlapping
  sweeps. The hard part is a move that a sweep has passed and not yet written. The
  invariant says of every sweep at work: what lies before its window was in the log
  already (`Passed`), and what lies in it is in the log, in its hands, among its
  targets, failed, or gated out by a revert (`Ahead`); `IndexShows` is where
  `Lag <= Overlap` is used: by the time a move is older than the overlap the index
  shows it; `GateTells` is what being gated out means. `MoverIsKept`: an upsert
  never replaces a mover by none.
* `DashboardsShowTheLog`: a report holds the count of a prefix of the log, all of
  which was stored by its read and none of whose rest was before it; the stamp is at
  most `Gap` later. Which of several reports a dashboard takes last does not matter.
  That a pair counts once is a fact about its latest row, found by the well-foundedness
  of the naturals (`FirstExists`).
* `ListsAreRecent`: what KV holds was the job's when an invocation fetched it, at
  most a `Span` before it was put; who takes it from there does so within `ListTTL`
  and works for at most another `Span`.
* `BackfillIsComplete`: a batch is the least of what lies past the cursor, so whoever
  is not in it lies past the cursor that it leaves (`Smallest`, counted by the
  library's theorems on cardinality).
* `WalksAreWhole`: somebody listed throughout, and not moved to the front, only ever
  moves back, except when somebody leaves; so the pages not yet asked for still have
  him. A short page or RF's count tells that there are none.
* `WeeksAreLondons`: no midnight of London's falls into a change of the clocks, so
  the second correction of the guess is exact; the k-th week begins where London's
  clock shows `168 * k`.

**`MusicProofs`**, about the three parts of the object and then `MCMusic`
(`MusicTyped`, `CommandsAreKept`).

* `AlarmIsInTime`: every handler ends by an alarm that is due no later than the first
  eligible command, `Due`, a least element of a set of times.
* `NoEnqueueLost`, `LatestPickWins`, `NoEndlessRetry`: the drain holds, across its
  awaits, an index; what is there then is the command it delivered, or a newer pick
  took the slot. The line of accepted enqueues is embedded in the queue in order
  (`Placed`); an attempt is counted on its command, is the one under way, or was cut
  short by a restart.
* `GateHolds`: a count leaves out only the client whose handler counts, so that
  handlers which overlap make it too high and never too low; every handler between
  its two steps is about to set the alarm.
* `InlineHolds`: what prev's token bucket keeps are the presses within the window, in
  order, `MinSpacing` apart from the bucket's limit on.

**`ScheduledProofs`**, about the three syncs and then `MCScheduled` (`ScheduledHold`).

* `CursorPassesNothing`: a page of a capped search is no younger than what it leaves
  out (`OldestFirst`), and its rows are written before the cursor moves; a cursor in
  milliseconds against a filter in days needs `DayMonotone`.
* `BareRowsWereDenied`: `BareMeansDenied` says nothing of the pipelines a writer
  holds; `JobInv` adds `Accounted`: a job about to be inserted has its pipeline, waits
  for it, was denied it, or already has a row that the insert will leave alone.
* `OutagesLeaveBehind`: the age of a concluded call that has no row is bounded by its
  duration, the ticks that failed and the one to come, and the window reaches back by
  the overlap, however far the webhooks moved it.

**`RecordsProofs`**, part by part and then `MCRecords` (`RecordTypes`, `RecordsHold`, `IntakeIsRight`).

* `NoneLostButInHandover`: while no list was written over a record that had changed, a
  call under way wants all that its target has of the fields it replaces (`WantsWhole`).
* `ListsMerge`: the order of the numbers keeps every number and lists none twice,
  proved of the sort by keys; and what a delivery knows of both lists is so while
  nobody wrote since (`raced`).
* `KeysStayTrue`: what is cached, or about to be, has put its name's key, or has
  refused it as ambiguous, or is among those whose call failed on it (`unnamed`),
  which a call that fails joins before the record's puts can make it matter.
* `BoughtOnce`: each work says by its step which of the shared facts (bought, flagged,
  recorded, keyed) it has established; a step of another only adds to them.
* `MatchesAreRight`: a maximum of the scores exists, and the one settled on is alone
  in having it. `NotesAreRight`: at most one handler is past the read of the key,
  unless two began together or one was cut short.
* `NoRowForgotten`: whoever was stale when a run looked is among those it reads or of
  a day that its cursor does not pass; two runs are apart, or `overlapped`.

**`RequestsProofs`**, part by part and then `MCRequests` (`RequestsHold`).

* `PrewarmWarmsNext`: the walk through the list is an interval that has been opened;
  on either side the ring ahead of where it was last warmed is loaded, or the walk
  came from at least a trigger's distance.
* `QuietEditsReach`: while nobody hurries, all that is under way is the last edit; a
  system that does not have it is about to be told by the one hook there is.
* `CallRecordIsRight`: a call has one event of each kind; one that is over and still
  on record waits for its hangup. `AttributionIsTrue`: while nobody else has a
  candidate's attribution in hand, whoever does writes what RF has.
* `ShownIsInTime`: how far the snapshot is behind RF grows no faster than its life
  runs out. `RateIsLimited`: what was let through is on the list, or a window older
  than something on it; what a request was judged by is still the list when it puts.
* `StagesMoveUp`: what a handler read of a job that nobody moved since is what the job
  is, and what it resolved of a link is what the link is until that is re-attributed.
  Two choices from one read that see the links alike agree where the job of the one
  suits the other too; where they do not agree, one of the two jobs is of a link that
  was seen unlike (`ChoicesAgree`). At the move the view of the gate is gone, so the
  invariant keeps that there was one (`GateIsChosen`).

* `AssistantHolds` and `RequestsTyped` compose the next module's theorems with the
  rest. Writes and names share their variables, so each part's invariant is carried
  through the steps of its own part only (`NamedInv`).

**`AssistantProofs`**, about the parts of the requests that search and resolve names
for the assistant, with `NameConstants` and `SearchConstants`.

* `WritesAreMeant`: whoever is left while the one that is meant is not has an excuse
  from the step that dropped that one, and the excuse lasts (`OthersExcused`,
  `ExcusesLast`): a fetch that fails later has no boost to take away. A pool cut to its
  first `n` leaves out only who has `n` before him, and a tie at the cut only where it
  is wider than `WideCap` (`WidenedTakesTies`, `CutAfter`; that a finite order has first
  elements is `SomeAreFirst`). No boost lifts a name that does not match past one that
  does (`UnmatchedIsLong`), which is what `NameConstants` asks of the numbers: 25
  against 85% of 35.
* `NamesAreMeant`: the one that is meant is among the options, or is closed, does not
  match, or is crowded out (`MeantIsThere`); a step that settles on one has compared it
  with all of these (`SettlesOn`).
* `SearchTyped`, `ShownAreAsked`: the rows that the isolate holds are of a commit no
  earlier than their cursor, so they have all that the cursor has passed (`TrueTo`,
  `HeldHasPassed`, `PassedStays`); the filters in force are those asked for and not
  warned of (`InForce`); a pool is full or has all that match (`PoolsAreFull`).

## 6. Findings

Six runs expect a violation. Each checks one sentence of the repository, quoted
in `PROJECT.json`.

* `coldcall_superseded`: a transcript that comes while the arbiter awaits the
  finalize request is answered `superseded`, and the cancelled activity is created
  all the same.
* `coldcall_tags`: the tags written are those read several awaits ago; a tag added
  in between is wiped without any failure.
* `music_upstream_leak`: the upstream's open can end after the last client has
  left, and stays open with no demand, no alarm and nobody to close it.
* `stage_stats_gap`: a crossing can be lost after sweeps that ran while it stood,
  not only if it was reverted before any ran.
* `cache_backlog`: a capped search pins its own cursor, over several days too.
* `cache_dead_tick`: lease and overlap last the same six hours, so one dead tick
  is enough for a call whose forward was lost to be passed over for good.

Met while modelling, stated here and without a run of their own; where a property
makes an exception of one, it is named.

* Stage log. `stage-stats.js:809-813` orders pushes by the recency of what they
  read, but the stamp is taken after the read: within that gap an older total may
  stand for a newer one (`ShownWasTrue` allows the gap). `:603` says that callers
  floor their window's start to a day earlier than it begins; in the last hour of
  the 25-hour Sunday the start is not a day below.
* RF's pages. `searchActiveCandidates` tells a truncated list by its count; a list
  that moves while it is walked, or comes without a total, is cut unseen.
* Cache. The comments at `rf-list-client.js:80-84` and `index.js:165-169` suggest the
  least or the latest of the rows as the next cursor; the code suggests the old one
  or now. A completed rebuild, of whatever part, moves the tail's cursor past
  updates made while it ran (`StaleWasPassed` excepts them), and the reason given at
  `workflow.js:143-149` no longer holds since `snapshot.js` reads another cursor
  first.
* Contact sync. `docs/architecture.md:1100` has the debounce flag checked in both
  directions; RF's webhook does not check it.
* KV. `cache.js:19-22` says that a recruiter who walks through a queue never hits a
  cold cache; one who walks faster than the warming does, and one whose neighbour
  could not be read. `cache.js:88-103`: the name key is not renewed while its content stays the
  same, so it expires though its candidate is cached anew (`KeysAreTrue` speaks of
  where a key leads, not of its life). `cache.js:12` has a name that two candidates
  share lead to `AMBIGUOUS`: if the read of the name or that put fails (`:93`, `:105`)
  the second one's record is cached all the same while the name leads to the first,
  until the second is cached again; the caller's failure is all that tells of it
  (`unnamed`). `cache.js:246-252`: two appends to the batch
  index at once lose one.
* Cold calls. `cold-call.js:424-430` says that later jobs are deliberately not
  scanned; `selectConsultantJob` does scan them for the consultant's own. It asks for
  the consultants at the gate (`:318`) and again at the move (`:434`): if a recruiter
  is given a link in between, the activity, the tag and the gate are of one job and
  the move is of another (`attributed`).
* Reveals. `apollo-enrichment.js:37-39` says that manual numbers survive; where
  Dialpad cannot be read, one that only Dialpad has does not (`blind`).
* Writes by name. `candidate-move-stage.js:3-13` enumerates every valid tuple; a
  candidate whose record cannot be had is left out, and so is whoever stands below
  the cut of options, or beyond `PHASE1_WIDE_CAP` (25) in a tie by name, where the
  cache's order decides who is looked at (`Outside`; the proof found this one, three
  candidates are too few to show it). A single survivor is written to without asking,
  however unlikely its name (`WrittenIsMeant` excepts each). `docs/mcp-middleware.md:169`
  excludes closed jobs, but a name that is all but exact is taken before jobs are
  looked up (`ClosedIsAsked`). Jobs that tie with the fifth are not looked up, and
  of two names that are exactly alike the first is taken. A note or an interview
  answered with 5xx as recoverable may have been written, so a repeat doubles it.
* Search. `snapshot.js:12-16` says that the next read picks up a change: not a row
  that RF lists late, nor any while the cursor is pinned, nor those of the seed
  (`ShownIsAsked` measures by the cursor). `custom-fields.js:16-18` says "never
  silent-drop": a field that RF does not have is dropped at `candidate-search.js:543`,
  as are a stage without a job and names given in the `filters` bag, and a search by
  technology alone is answered 400 while RF's list cannot be had. RF's own searches
  take a profile by substring and stop at ten pages; with a name only the 200
  likeliest are asked after (`PoolLimit`).

## 7. Limits

Liveness (under fairness) and anything that speaks of `ENABLED` stay with TLC, as
does what a recursion over data computes. No module declares a `RECURSIVE`
operator. Every safety property of the passing runs is also stated by a theorem. Only
model-checked are the liveness properties (`RecordIsLetGo`, `CommandsLand`,
`KeepsTrying`, `BacklogsLand`, `SweepRecovers`, `ComesToRest`), under the fairness of
section 4.

Left out of the modelled components: the wording of activities, prompts and notes;
the ticket exchange and the relay of messages of the music object; the score of a
name against a name, which is given to the models as a number; the page limits of a
calls listing and the first listing of an empty calls table (a webhook row written
before it hides the two years of history it would ask for); the candidates and
calls seeds, which page through RF and Dialpad with the same idempotent inserts;
the legacy tail's jobs and pipelines, which are written whole with no cursor; a
second contest for a value that is being handed over beyond two callers; what of a
reveal happens after another write fell between its reads and writes (`raced`); a
search's filters that cannot be parsed (`candidate-search.js:327-344`).

KV is modelled as one consistent store: a get sees the puts that have landed. Workers
KV promises less, and `docs/architecture.md:565` counts on less across locations, so
what is said of its keys (reveals, intake, notes, contact sync, details, rates, the
call's count) is of what the handlers' order of steps does, within one location. In
`StageStats` every search that comes back incomplete is flagged, whereas the code can
tell only one that was cut at its page cap; `PagedSearch` models which cuts are told.

Some properties except a race that the code leaves open, and catch the other ways in
which the same thing could go wrong: overlapping closes (`DemandCounted`), a write
between a reveal's reads and writes (`raced`), works on one profile that overlap
(`IntakeHolds`), two deliveries of a meeting at once or one cut short
(`KrispNotesHold`), a resolution beside a request (`suspect`), a load that a mark
overtook (`overtaken`), requests that hold the list of calls at once (`RateHeld`), a
candidate that could not be fetched (`AssistantIsRight`), a name's key that lapsed or
could not be put (`KeysAreTrue`), a job moved or a link re-attributed after the
handler's read (`MovesUp`). `PROJECT.json` says so at each hazard.

Not modelled, with the reason in each component's note of `PROJECT.json`: the music
worker's routes and proxy, the pipeline endpoints, SMS and link endpoints, the
middleware's routing, reads and text, the main worker's routes and authentication,
the MCP remote, the metrics poller, scripts, and the observability libraries. They
keep no state that another part reads, or they are functions on text and numbers
with nothing that happens between two steps.

## 8. Plan

What remains, in order of what can go wrong:

1. The seeds of candidates and calls beside the ticks, and the 25-page cut of a
   calls listing: the same inserts, but other windows.
2. The music object's ticket exchange and relay.
3. `DemandCounted` and the queue's use of the alarm in one module, in place of each
   seeing the other's steps at any time.

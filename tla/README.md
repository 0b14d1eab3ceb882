# StreamOtter: TLA+ models, checks and proofs

StreamOtter turns records of a source (Kafka) into authorized, consistent views in browsers. Its promise (README of the
repository, docs/V1_API.md) is that a view never reports `live` while it shows anything other than the newest state the
gateway has processed, that nothing shown goes backwards, and that no record is skipped silently. This directory models the
parts of the code that keep that promise and the ones that operate it, model-checks them with TLC, and proves most of their
safety with TLAPS. `PROJECT.json` lists every component, run, mutant, mapped line range, hazard and theorem.

## 1. The system

| Component (source) | State it keeps | Operations | Interacts with | What makes it correct |
| --- | --- | --- | --- | --- |
| Server subscription (`runtime/subscription.ts`) | phase, generation, epoch, sequence, queue, frame in flight, tail, attempts, timers | start, admit, onReceipt, requestResync, onSourceUnavailable/Ready, fail, dispose; the coroutine `#beginAttempt` | its session (send), the pipeline (admit), source status, revocation | live means newest; never regress; never stranded; budgets exact |
| Client session (`runtime/session.ts`) | subscriptions, request cache, bucket, expiry timer | subscribe, unsubscribe, resync, receipt, close, expire | owns subscriptions; writes to a transport that may tear it down | closing disposes everything |
| Record pipeline (`runtime/gateway.ts`) | lock of a source, the evaluation under way | map with transient retries, check, admit, redrive | sources, subscriptions, failure service | a record is admitted whole or not at all; integrity failures outrank the rest |
| Gateway lifecycle (`runtime/gateway.ts`) | state, open parts, sessions, abandoned calls, revocation log | start with rollback, stop with a deadline, authenticate, open, revoke | everything | a revoked session ends; the journal outlives its users; stop resolves |
| Kafka source (`sources/kafka.ts`) | position, held record, commit queue, uncommitted offset, epoch, status | eachBatch, pause, resume, advancePast, retry commits, group events, watchdog, stop | pipeline, failure service, operator | commit only what was finished or excused; a held record comes next |
| Fixture source (`sources/fixture.ts`) | job chain, held record | advance, resume, advancePast, stop | pipeline | the chain settles |
| Failure service (`failures/service.ts`) | jobs per source, must-hold flag, boundary, circuit | held, committed, dispose, continue, retry, acknowledged, reconcile | journal, quarantine topic, source, snapshots | no silent skip; a skipped change is covered; incidents tell the truth |
| Incident journal (`failures/journal.ts`, `store.ts`, `rebaseline.ts`) | incidents, boundaries, circuits, operations; the file and its lock | one transaction per mutation; init, open, claim, close, rebaseline | failure service, operator, CLI | one owner; open incidents are of the recorded generation |
| Quarantine (`failures/quarantine.ts`) | reads in order, throwaway groups | publish, read back | Kafka | a read leaves nothing behind unsaid |
| Operator service (`operator/service.ts`) | plans, evaluations, calls | evaluate, redrive, retry, reassess, reopen circuit, retire boundary | failure service, pipeline, journal | intent before acting, result after; answers agree |
| Operator socket (`operator/ipc.ts`) | socket and token files, connections | start, serve, close, callOperator | operator service, CLI | "refused" means it never ran; a listener can be found |
| Management API (`management/*.ts`) | checks, preview tokens, sessions | admit, route, run | gateway, workbench | only what was admitted acts |
| Trace buffer and inspect view (`runtime/traces.ts`, workbench `inspect.ts`) | ring of traces, cursor, rows | record, page; load, filter, poll | each other | the rows are the log |
| Options (`contracts`, `failures/validate.ts`, constructor) | none | validate | everything | what is accepted can be run |
| Client subscription (client `subscription.ts`) | state, epoch, expected sequence, revisions, failures, timers | attach, detach, handleState, handleData, resync, unsubscribe | its connection; the gateway over an ordered socket | the view is true; never regress; ended means released |
| Client connection (client `client.ts`, `connection.ts`) | adopted connection, generation, timers, suspension | connect, refresh, reconnect, close, adopt | subscriptions, token provider | one connection; no view crosses accounts; reconnects |
| React bindings (client `react.ts`) | owned client, view, subscription | render, effects and cleanups | client SDK | what is on screen is current |
| CLI (`cli/src/cli.ts`, `operator.ts`) | the files it made, its gateway, its request | init, generate, export, dev, start, operator commands | gateway, operator socket, journal | the exit code is true |

What is hard here: every handler is asynchronous and every `await` lets records, receipts, outages, closes and revocations
in; a send can tear down the object that is sending; the SDK and the gateway start epochs independently and their messages
cross; offsets, journal and memory are written one after the other and the process can die between any two; answers are
lost after the effect; files are claimed by processes that cannot see each other. `hazards` in `PROJECT.json` names the line
where each bites and the property that watches it.

## 2. Modules

| Module | Models | Properties | Proofs |
| --- | --- | --- | --- |
| `ServerSubscription` | the server subscription with session, budget and router | `SubscriptionProperties`, run also by `SessionProperties` | `SubscriptionProofs` |
| `StateChannel` | the abstract promise of one view | (refined by `ServerSubscription`) | `SubscriptionProofs` |
| `RecordPipeline` | `#process`, `#prepare`, `#admit`, redrive and the fixture adapter | `PipelineProperties`, run by `RuntimeProperties` | `GatewayProofs` |
| `GatewayLifecycle` | start, stop, connections, sessions, revocations | `GatewayProperties`, run by `RuntimeProperties` | `GatewayProofs` |
| `KafkaSource` | the Kafka adapter on one partition | `KafkaProperties`, run by `RuntimeProperties` | `FailureProofs` |
| `FailureService` | the failure service and its journal rows; extends `KafkaSource` | `FailureProperties`, run by `StateDirectory` | `FailureProofs` |
| `IncidentJournal` | the journal's file, lock, transactions, rebaselining | `JournalProperties`, run by `StateDirectory` | `StateDirectoryProofs` |
| `OperatorSocket` | the operator socket and its callers | `SocketProperties`, run by `StateDirectory` | `StateDirectoryProofs` |
| `OperatorService` | evaluations, plans, operations | `OperatorProperties`, run by `StateDirectory` | `OperatorProofs` |
| `ClientSubscription` | the SDK's subscription composed with the gateway's side of the wire | `ClientProperties`, `ClientSchedules` | `ClientProofs` |
| `StreamClient` | the SDK's connection management | `StreamClientProperties`, run by `SessionProperties` | `StreamClientProofs` |
| `Quarantine`, `SubscriptionHook`, `TraceConsole`, `ManagementApi`, `ProjectOptions`, `CommandLine` | six parts around the stream | `EdgeProperties` | `EdgeProofs` |

### ServerSubscription
The object's private fields are the record `sub`; each method is an operator from record to record, so a call made inside a
method (a send that finds the client stalled, tears the session down and disposes this subscription) is part of the step. What
runs between two awaits of `#beginAttempt` is one action: `Start`/`RetryTimer`/`Resync` to the first `#authorize`,
`AuthorizeReturns`, `Admitted` (the continuation that captures), `SnapshotAdmission` (semaphore granted),
`SnapshotReturns`/`SnapshotFails`, `AuthorizeReturns` again for the recheck, `Cleared` (send). `sub.task` is the suspended
coroutine and `task.fresh` says whether its generation is still current. `source` is readiness and the recovery boundary,
`domain` the application's newest committed revision and `processed` the newest one a record carried. A revision stands for the
whole state it versions. `GapEvents` chooses what may run in the single microtask between `#authorize` returning true and its
caller resuming. `LaggingSnapshot` lets the snapshot handler answer from a stale read; `Stalls` lets the client stop reading.

### RecordPipeline
`task` is `#prepare`'s locals: `TaskStarts`, one `MapReturns` or `MapFails` per channel, `DelayEnds` before the retry that
throws every earlier output away, then `Evaluated` (admit, pause, hold or refuse). `lock` is the source's `exclusive` queue;
`fixture` the adapter's job chain. A redrive takes the same path under the same lock.

### GatewayLifecycle
`life` says where `#doStart`, its rollback and `#doStop` are (`StartSteps`, `RollbackOrder`, `StopOrder`), `parts` what is open.
`conns` follows a connection from its handshake through `authenticate`, the gap before socket.io's `connection` event, to the
session and its close; `revocations` is the log. A stop waits for the start it interrupts until its own timeout (`StopProceeds`);
when that passes first the start goes on beside it and after it, and `overtaken` remembers so.

`RuntimeProperties` runs this module, `RecordPipeline` and `KafkaSource` beside one another, and `SessionProperties` runs
`StreamClient` and `ServerSubscription`: within each group the modules share no state, and a behaviour follows one of them.

### KafkaSource and FailureService
`adapter` is the object (position, current record and stage, held record, pause and status, commit queue, uncommitted offset,
the assignment epoch as "is it still current" flags); `committed` is the group's offset at the broker, `finished` and `excused`
are history. `CommitRuns` has four broker outcomes: applied, applied but unanswered, failed, ignored because not running.
`FailureService` extends it with the per-source job chain, the journal on disk (`journal`), the service's memory (`service`) and
the boundary: one action per await of `#dispose`/`#continue`/`acknowledged`; `RecordDelivered` and `RecordProcessed` are the
pipeline's `#process` with `positionProblem`; `Restart` reloads the journal and reconciles pending advances. Between two broker
answers the event loop runs what is already due (`BrokerAnswers`), as Node does before its next network read.

### IncidentJournal, OperatorSocket, StateDirectory
A process of `IncidentJournal` is a pid with a `startedAt` per run; `Contained` ones live in a pid namespace of their own, so
`ownerAlive` misjudges them. `Links`, `Judges`, `Unlinks`, `Releases` and `ReleaseEnds` are the separate system calls on
journal.lock; `holders` is SQLite's exclusive lock, taken by the first read. `Claims`, `Updates`, `PreparesAdvance`,
`RetiresBoundary` and the three steps of the rebaseline are transactions; `Crash` may come anywhere.
`OperatorSocket` numbers gateways by start: the number is the token and the inodes of the files. `conns` is the gateway's side of
a request (pending, open, running, replying, lingering), `callers` the side of `callOperator`. The two share no file, and
`StateDirectory` runs both, and beside them `FailureService` and `OperatorService`, whose incidents and operations are rows of the
journal; a behaviour follows one of the four.

### OperatorService
A mutation is a job named by its operation ID: `MutationBegins` journals the intent, `Acts` the effect, `Finish` the result (or fails
to), `Replay` answers a repeated ID from the journal and `ReplayRefused` turns it away while the operation is pending: because it
runs, or because its result could not be recorded. `chain` is the source's failure chain that dispositions and operator
actions share. `history` keeps what an operation did and told, and `former` the same of operations that were pruned and whose
ID began another; `turnedAway` is the ID over which the last step refused a call. `HostRestarts` marks pending operations
unknown.

### ClientSubscription and StreamClient
`client` is the SDK object; `up` and `down` are the ordered socket; `peer` is the gateway's session and subscription reduced to
what it sends and how it answers. Acknowledgements are applied in two parts as in the code: `onResult` at once, the rest when
the promise resumes (`followups`). A gateway-side close leaves what was already sent to be read; a lost transport loses it.
`StreamClient` numbers every `#open`: by a connect or a refresh, under a generation, through token, handshake and hello, to the
continuation that adopts or closes it; between hello and continuation the socket may already have closed (`HelloDrops`).

### The six parts of EdgeProperties
- `Quarantine`: one read at a time; any call to Kafka may be answered, refused or never answered, and may outlive the read.
- `SubscriptionHook`: `Render` commits, `Flush` runs the effects of that commit later, every cleanup before every mount and the
  child first; `tree` is what components, effects and clients hold.
- `TraceConsole`: `entries` and `head` are the ring, `view` and `loads` the view and its requests under way.
- `ManagementApi`: a request is admitted in one go except at the host's `authorize` and at the body of a POST.
- `ProjectOptions`: the validators as predicates over `options`; `Construct` runs them in the constructor's order.
- `CommandLine`: every command a process; a step ends at an await, where other processes and signals come. Opens, writes, closes
  and unlinks may fail; `left` remembers the files a command could not close or remove, `taken` those that another's rollback
  removed, and `served[c] = "overtaken"` a gateway whose start goes on after the command's stop.

## 3. Runs

| Run | Question | Bounds, and why they are enough |
| --- | --- | --- |
| `subscription` | Is a live view the newest state, covered by the boundary; does every attempt settle; does the object implement `StateChannel`? | 2 buffered frames (full and not full), 2 attempts (retry and exhaustion), sequence to 4 (limit reached), 3 revisions (before, during, after capture), 1 boundary, 1 outage, 1 resync, stalls |
| `subscription_gap_live` | the finding about the gap in section 5 | the shortest bounds that show it |
| `client` | Is a live view honest, never going back, released when ended, and does every view settle, within 4 faults? | 2 local and 2 server attempts, 2 revisions, any 4 faults together; section 5 says what more faults break |
| `client_two_subscribes`, `client_late_release`, `client_resync_stuck` | the three findings about the client in section 5 | the attempt limits of the code (3 and 3), one fixed order of up to 10 faults (`ClientSchedules`), everything else free |
| `runtime` | Gateway: does a revocation always close, is the journal open for its users, does stop resolve? Pipeline: is a record admitted whole, does an integrity failure outrank, do chain and lock settle? Kafka: is only finished or excused work committed, is a held record next, do retries undo nothing and catch up? | 2 connections against a limit of 1, 2 starts, 1 revocation, 1 status change; 2 records, 2 channels, 2 outputs, 1 transient retry, 2 requests, 1 redrive, 1 subscriber change; 3 records (before, at, after the held one), 2 failures, 2 disruptions |
| `gateway_stop_overtaken` | the finding about `stop()` in section 5 | 1 start, no connection needed |
| `sessions` | Client: one connection, no view across accounts, always reconnected? Subscription: with a lagging snapshot and every event in the microtask gap, are budgets exact and does nothing sent regress? | 2 subscriptions, 2 identities, 4 opens, 3 faults; as `subscription`, with sequence to 3 and 2 revisions |
| `state_directory` | What a gateway keeps on disk, one part per behaviour: the journal's file (one owner, open incidents of the recorded generation, whole rebaselines); the incidents (nothing skipped without incident and boundary, resolved only as what happened); the operations (answers agree with effects, a plan used once, nothing retried under an advance); the socket (refused means never ran, a listener can be found) | 2 processes, 2 sources, 2 generations, 2 faults; 2 records, 2 failing writes or commits, 1 restart or rebalance, circuit limit 1, 2 jobs; 2 redrives beside a reopening, or 1 redrive beside any mutation, 2 evaluations, 1 plan, a log of 2 operations (it is full), 1 failing write of an incident, results unrecorded at will; 3 starts, 2 callers, limit 1 |
| `edges` | The six properties of `EdgeProperties` | 2 reads of 3 writes; 4 clients, 2 keys, 3 changes; 3 traces, 2 runs; 2 requests; all combinations of four groups of options; 2 commands of every kind |
| `operator_in_progress` | the finding about a repeated operation ID in section 5 | 1 redrive, 1 other mutation |

Deadlock is not checked where the system may stop: an ended subscription, a stopped gateway, a finished command, a bounded
number of faults used up. Every property of a passing run has a mutant in `PROJECT.json`, a change of one definition (marked
"Mistake" in the modules) of the kind a bug would make, which its run catches. Every component also has a type invariant
(`SourceTypeOK`, `FailureTypeOK`, `ClientTypeOK`, `GatewayTypeOK`, `StreamTypeOK`, `OperatorTypeOK`, `SocketTypeOK`,
`JournalTypeOK`, `QuarantineTypeOK`); TLC finds each to hold under the constants of its run, and they are where the
proofs of section 6 start, but the runs are kept to the properties above.

## 4. Fairness, and why the code justifies it

- `subscription`: handlers settle or time out (`invokeHandler` has a deadline), the snapshot semaphore grants or times out, timers
  fire, an expired session closes. Nothing is assumed of the client, the source or the application: a client that never receipts
  is closed by the receipt timer.
- `client`, `client_resync_stuck`: both event loops run and the SDK reconnects. `SourceUp` is not fair: a view may stay stale
  while its source is down. Faults are bounded, so that they end; that every view then comes to rest is checked for up to four
  of them and false of more (section 5).
- `runtime`: the steps of start and stop end (each has its own deadline), and microtasks run; promise jobs run, and a map call
  settles or times out; the commit queue and the watchdog's interval run, and the consumer rejoins its group (KafkaJS restarts
  it on failure).
- `sessions`: the SDK's timers fire, and an open resolves or rejects within its deadlines. Nothing is assumed of the subscription,
  whose properties there are about safety.

`state_directory`, `edges` and the other runs of findings check safety only, under specifications without fairness.

## 5. Where the code and its text disagree

Finding, shown by `subscription_gap_live` (subscription.ts:373): after the recheck's `#authorize` the generation is not compared
again. A record that overflows the buffer in the microtask before its caller resumes (or an outage there) invalidates the
attempt and takes the subscription off the routing index; the attempt goes on, sends its snapshot, and the receipt makes the view
live with the record missed. The same gap after the first `#authorize` (subscription.ts:286) cannot do this: an outage there ends in
waiting-source, and a record does not reach a subscription that is not routed yet. With `GapEvents = {"revoke"}` either gap lets a
terminated subscription go on. The comparison of boundaries after the recheck (subscription.ts:374) is a second line of defence
that no property needs: whatever changes the boundary takes the source down first, which invalidates the attempt.

Findings about the client, which need more than the four faults of the run `client` and are shown by `ClientSchedules` under
fixed orders of faults. All start when the SDK gives up on a subscription and its unsubscribe is still on the way while the
gateway starts another epoch.

- `client_two_subscribes` (client subscription.ts:330): frames on the way make the SDK believe it is still held, so `resync()`
  sends a resync behind the unsubscribe, twice; both are answered `INVALID_REQUEST` and each attaches. The first subscribe's
  answer clears `#subscribeInFlight` although the second is unanswered, so `unsubscribe()` sends nothing and the gateway keeps a
  subscription nobody reads, against the comment at client subscription.ts:152.
- `client_late_release` (client subscription.ts:452): the SDK gives up twice, and its second unsubscribe is refused over the
  rate limit because the gateway no longer holds the subscription. While it waits to be sent again, `resync()` makes the view live;
  the late unsubscribe then disposes it. The gateway announces nothing, and the view says live from there on, against the
  comment at client subscription.ts:50.
- `client_resync_stuck` (client subscription.ts:373): the gateway's "authorizing" replaces the resync-required of a view that gave
  up, and the unsubscribe on the way then ends that attempt. `resync()` takes the state for a synchronization under way and returns
  without asking; the view says authorizing with nothing on its way, against docs/V1_API.md:91.

So `EndedIsReleased`, `LiveIsHonest` and `Settles` (of the client) hold of every behaviour with at most four faults, which is what
`client` shows, and not of every behaviour. Within four faults `Settles` excuses a view that gave up and that the gateway no
longer holds: a late frame may have replaced its resync-required (client subscription.ts:222), and only a call of
`resync()` could take it out of that.

Finding, shown by `gateway_stop_overtaken` (gateway.ts:1298): `stop()` waits for a start in progress until its own timeout only. A
start that is before or past the start of its adapters is not cancelled; it goes on, and ends in "running" (gateway.ts:1264)
after `stop()` resolved, against types.ts:600 and docs/V1_API.md:60 and :324. The CLI does this: its signal handler stops a
gateway that is still starting. `StopResolves` therefore promises a stopped gateway, and `JournalOutlivesItsUsers` an open
journal, only until a start was overtaken; that `stop()` resolves and `RevokedIsClosed` hold all the same.

Finding, shown by `operator_in_progress` (operator/service.ts:921): an operation that acted and whose result could not be recorded
stays pending until the gateway restarts, and its repeated ID is refused as "still running". Whoever is refused may take it that
nothing was changed (service.ts:105), or that the operation runs (V1_1_API.md:359); neither is true. The other refusals over an ID,
"operation-id-reused" and "journal-unavailable", change nothing.

Met while modelling, and left to a reader to follow in the model rather than given a run of their own:

- subscription.ts:470: on the last attempt, sending `stale` may tear the session down and dispose the subscription; the method
  then overwrites `terminated` with `resync-required`.
- kafka.ts:395: resuming in the middle of a rebalance reports healthy at once, so the rejoin changes no status and no
  subscription resynchronizes, although kafka.ts:691 says they do.
- failures/service.ts:422, 203 and 517: a retried record whose commit failed makes the next record look as if the group had been
  moved; the same commit applied but unanswered before a restart leaves the incident open; two dispositions of one record in the
  chain can reopen the incident the first one advanced past.
- client.ts:372: a refresh that began before a drop is adopted without clearing the reconnect timer; the timer then connects over
  it and the application hears "reconnecting" while connected. client.ts:224: an open that a close overtakes leaves
  `#connecting` set on a closed client, without effect.
- kafka.ts:479: the retry of an earlier commit can land after an advance whose answer was lost and move the offset back: a
  redelivery, never a loss.
- A held integrity failure is shown with the action "repair-and-retry", which an open circuit refuses ("circuit-open").
- An operation ID whose operation was pruned from a full log begins a new operation when it is repeated (journal.ts:1073), although
  V1_1_API.md:359 says that the recorded result is returned: the same request finds its plan used and is refused, and a request
  with another plan acts. `AnswersAgree` is about operations, not IDs.
- cli.ts:296: an init that fails to open a file for a reason other than EEXIST (too many open files, say) lists the file all the
  same, and its rollback removes one that another init created meanwhile and reports with exit 0. cli.ts:303: unlinks that fail
  are ignored, and the message says that the files were removed. operator.ts:280 and 285: an export whose `close()` fails exits 1
  and leaves its file. `ExitIsTrue` names these cases (`taken`, `left`) and allows no other.
- cli.ts:162: a signal during startup ends the command with exit 0, also when its stop gave up on the start (the finding above).
- quarantine.ts: a call that outlives the hurried last close can reopen a socket (`outlived` excuses it in
  `ReadLeavesNothing`); a late join after GROUP_ID_NOT_FOUND leaves a group without a warning; retention that
  overtakes a read gives "mismatch" where "expired" is meant (quarantine.ts:43-49).

## 6. Proofs

Every theorem holds for every value of the constants that the named assumptions of the modules admit: limits and bounds are
naturals, limits not 0 (`LimitsAssumption`, `BoundsAssumption`, `LogAssumption`, `FailureAssumption`, ...), and where something
is counted the sets of sources, callers and connections are finite (`JournalAssumption`, `SocketAssumption`,
`LifecycleAssumption`). The further hypotheses are stated with the theorem that needs them; the others need none.

### SubscriptionProofs

| Theorem | Hypotheses |
| --- | --- |
| `TypeCorrect`, `BudgetIsExact`, `DeliveryNeverRegresses` | none: any snapshot handler, any event in the microtask gap |
| `RoutedMeansCapturing`, `LiveOnlyPastBoundary` | `GapEvents = {}` |
| `SubscriptionInvariant`, `LiveMeansNewest`, `ImplementsItsPromise` | `GapEvents = {}`, `LaggingSnapshot = FALSE` |

The hypotheses are those the statements need: the finding of section 5 is what an event in the gap does to `LiveIsNewest`, and
a snapshot read from a lagging replica misses what was processed before it.

`LiveIsNewest` alone is not inductive: that a view about to go live misses nothing depends on how it was built. `IInv` adds the
chain: the coroutine of the current generation is where the phase says (`CoroutineInPlace`); whatever was processed is either in
the snapshot being read or in the buffer (`SnapshotOrBuffer`); the tail is the last buffered frame or the snapshot
(`TailIsBuffered`); once the snapshot is sent the tail covers everything processed and is confirmed, in flight or last in the
queue (`TailCovers`); live is reported only in the live phase (`ReportsLive`). The proof has one lemma per method (from a good
record to a good record: either calm, with nothing captured or running, or flowing) and then one step per action.

What holds under every race rests on another invariant, `Raced`: reserved frames are the ones held (`Accounted`, with `e` for a
frame that a method has reserved and not yet queued or sent), the queue rises up to the tail, and what is in flight or kept is
no older than what was confirmed (`Forward`). `Covered` ties what a delivering subscription acknowledged to the offset its
source moved past: nothing captures while its source is down, and an offset moves only while it is.

`ImplementsItsPromise` is the refinement. A method reports what it does, so the argument follows the report: with `Reported` (the
reported state follows the phase), every step falls silent (`Muted`), goes on synchronizing (`Onward`), or leaves report and
frames alone (`Alike`); a step that `Turns` so is `Leave` or a stutter. A record is `Publish` and a receipt `Confirm`,
`Synchronize`, `Leave` or `Late`, because a live view's frames are the old ones with the new one added, or the confirmed one
taken away, and by `IInv` they cover what was processed.

### FailureProofs

`SourceInv` says that whatever may become the group's offset (a queued commit, an uncommitted offset, an advance, the position
the consumer goes on from) stands behind accounted records only; it is stated with a parameter, the offsets somebody else
moved past, so that the failure service can use it again. From it: `NothingUnaccounted`, `HeldComesNext`, `RetriesUndoNothing`.
`FailureInv` adds what waits in the commit queue (`Queued`) and that journal, boundary and adapter agree on every excused record
and on an advance under way (`Recorded`). A step of the failure service is a step of the source, leaves the source alone, or is
a restart or a moved group; so `NeverSkipsSilently`, `BoundaryCoversSkips` and `IncidentsEndTruthfully` hold across restarts,
failed writes and answers lost after the effect.

### StateDirectoryProofs

`JournalInv`: at most one process holds the database, and what each process relies on between two system calls (`Relies`: what it
inspected, what it names, the work of a rebaseline) is changed by holders only. From it: `JournalHasOneOwner`,
`OpenStaysCurrent`, `RebaselinesAreWhole`, whatever is misjudged about the owner of the lock. `SocketInv`: the files are the
newest gateway's own, and the two sides of a request agree (`HoldsTogether`). From it: `RefusalsAreTrue`,
`ListenersAreReachable`.

### GatewayProofs

`ConnInv`: the two counters count the handshakes and the abandoned calls they name, and a session that a revocation hit is
closing, wherever the revocation lands between the handshake and the session's registration; `RevokedAreClosed` follows.
`PartsInv`: which phases of start, rollback and stop exclude which, and what is open in each, until a stop gives up on a start
(`overtaken`, section 5); types and counters hold beyond that. `JournalOutlivesUsers` follows, without a hypothesis.

`PipeInv` is about an evaluation, whatever the source, the subscribers and the operator do meanwhile: what it has gathered is this
attempt's, channel by channel (`Gathered`), and when it ends in a class that may be admitted or skipped, no two outputs disagree
(`OutputsAgree`). From it: `RecordsAreWhole` and `IntegrityComesFirst`, without hypotheses. The second compares an output with the
newest one of its key before it, as docs/V1_API.md:140 says and `seen` does; it says nothing of revisions that come back after a
newer one, which the code does not compare and `admit` drops.

### StreamClientProofs

`StreamInv`: exactly the adopted connection is open past its adoption, and what a subscription is attached to is that connection,
of the client's identity. From it: `OwnsOneConnection`, `ViewsStayWithTheirUser`, and `StreamTypeCorrect`.

### OperatorProofs

Three invariants, each about what the service relies on between two awaits. `ChainInv`: whoever resumes the source, asks the
guard or advances is first in the failure chain, so alone; `NoRetryUnderAdvance` follows. `AnswersInv`: for each ID what the
journal says, what the call is doing, what was answered and what was done agree (`Agrees`), and the finished operations are
listed once each (`Listed`), so that there is always one that can make room, and it is never one whose call still runs;
`AnswersAlwaysAgree` follows, for the operations in the journal and for those pruned from it (`former`). `PlansInv`: a plan
that may still be approved was not spent and nobody claims it, and a plan is claimed by one call; `APlanApprovesOneRedrive`
follows. None needs a hypothesis; `OperatorTypes` asks for one incident, because the type of a request names one.

### ClientProofs

`ClientInv` types the two sides and every message between them, and says (`InOrder`) that the revision last shown is the newest
ever shown and that, after the first frame of an epoch, it is also what the next frame is compared with. Every SDK method but
`handleState` and `handleData` leaves those fields alone (`Steady`), so one lemma per method is enough. From it: `ClientTypes` and
`ViewNeverGoesBack`, whatever is lost, refused, replaced or read from a lagging replica. Neither needs a hypothesis.

### EdgeProofs

The parts share no state, so each invariant follows its own part and the steps of the others leave it alone.
- `AcceptedOptionsAreRunnable`: by `OptionsJudged`, a verdict of accepted means that every check held of the options as they stand,
  whatever was tried before.
- `ManagementIsAdmitted`: by `ManagementInv`, a call past the router carries a request that its host let in (`CallAdmitted`), and
  the steps that change previews or sessions start from there.
- `ExitCodesAreTrue`: by `CommandInv`, where a command stands says what its gateway (`ServedAs`), its request (`WiredAs`) and its
  files (`FiledAs`) are. The last says for an exclusive command that what it holds on the disk is among what it has listed, the file
  it has open and what it could not close or remove, and that what it has written whole is there still or was taken by another's
  rollback, whatever files were there before and whatever the other commands create, replace or remove meanwhile. A gateway that
  is not stopped when its command has exited was overtaken by a signal during its start, with exit 0; an operation that changed
  something is refused only when its ID was sent again. `FileAssumption` states what the code's lists of files are: not empty, no
  scaffold file twice, and no generated file (which `generate` may replace) among those that `init` or an export creates. No other
  hypothesis is needed.
- `ReadsLeaveNothing`: by `ReadOK`, the throwaway group is in use from the call that may join it until it is deleted, a first close
  never releases, and after a second one no call is in flight that the close did not give up on (`outlived`).
- `TheScreenIsCurrent`: by `HookInv`, the view of the hook is that of the subscription its effect holds, in the state it has
  now (`Mirrors`), and an effect without dependencies holds none. Cleanups, mounts, the second mount of strict mode, closed
  clients and every event of a subscription keep that. No hypothesis.
- `TheRowsAreTheLog`: by `TraceInv`, the buffer is the end of its run's log (`Buffered`), at most one load of the view's generation
  is under way and it asks what the view shows (`Asks`), and a page that answers it is the matching part of the log after its
  cursor (`PageOK`), so that the rows with it behind them are the end of a longer such part (`RowsOK`). Late answers belong to older
  generations. Only `TraceAssumption` is used. `Matching` is a recursive function: its lemmas (a matching part of a joined log
  is the two matching parts joined, of a cut one an end) argue from the shortest log that would break them, which exists
  because the order of the numbers is well-founded (`SmallestOf`, by `WFMin`).

### Only model-checked

- Liveness, and every use of fairness, which are out of the prover's reach: `Settles`, `CommitsCatchUp`, `StopResolves`,
  `ChainSettles`, `Reconnects`.
- `LiveIsHonest`, `EndedIsReleased` and the client's `Settles`, which hold within the faults of the run `client` and fail beyond
  them (section 5).

## 7. Plan

1. Done: the modules of section 2, and the proofs of section 6.
2. The request cache and rate limit of a session; the semaphore's queue; the hierarchy of byte budgets.

## 8. Not modelled, and why

- Payload contents, schemas, traces' contents, logs, wording, rendering: data the properties do not tell apart. Validation of
  identifiers, patterns, unknown keys and principals is left out of `ProjectOptions`.
- Kafka: starting from latest (`#readStartPositions`), several partitions (handled by the same code apart from the shared
  pause), diagnostics.
- Failure handling: conflicts of evidence, cluster changes, fixture evidence, failing reads of the journal, the window of the
  circuit, a stop during a disposition.
- Journal: locks of other hosts, a project's change of its own lock, schema migrations, admission by bytes, the two-step removal
  of a failing init; a configuration is chosen when the file is inspected; one incident stands for a generation's.
- Quarantine: the writer's start and topic checks, and verification of a copy beyond whose it is.
- Operator: listing, status and bundles; circuits matter only to a resync policy, which the model assumes. Writes that fail are
  refused as a whole.
- Client: `ready()` and `resync()` waiters (each has its own timeout), listeners that call back other than by throwing, frames
  malformed by the gateway. Drops during a refresh are always possible.
- React: deprecated options; a hook whose supplied client the application closed keeps showing its last state, and the model
  does the same.
- CLI: directories, argument text, what the read commands print. `gateway.stop` resolves there, having stopped the gateway or
  overtaken its start: the run `runtime` and `gateway_stop_overtaken` are about that.
- Sessions' request cache and rate limit, the byte dimension of budgets: one frame is one unit.
- The health listener's HTTP, workbench views other than inspect, the docs and blog sites: plumbing and user interface.

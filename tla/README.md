# A TLA+ model of listnun's server

listnun sends newsletters and transactional email for many tenants from one
PostgreSQL database. What is hard about it is not any single request but what
happens between them: campaigns are sent by goroutines that share counters,
channels and database rows with each other and with the requests that pause or
cancel the campaign; usage is counted in memory and billed from a table;
webhooks are sent by workers that hold leases. These modules model that part of
the Go code and of its SQL, TLC checks it on small instances, and TLAPS proves
the main safety properties for instances of any size.

Paths below are relative to the repository. `PROJECT.json` names, for every
definition, the lines it models, and for every run, what it checks.

## 1. Inventory

| Component | State | Operations | Interacts with |
|---|---|---|---|
| Campaign manager (`internal/manager`, `cmd/manager_store.go`, `cmd/campaigns.go`) | `campaigns` rows (status, sent, last_subscriber_id, pause_reason); `m.pipes`; per pipe: sent, lastID, errors, stopped, withErrors, a WaitGroup; channels `nextPipes`, `campMsgQ` | scanner tick, launch, fetch a batch, send, count an error, stop, clean up; PUT status, auto-pause | SQL, messengers, usage meter, requests |
| Usage meter (`internal/usage`) | pending counts, the map a flush took, stop/done channels; `usage_counters` | Add, Flush, Run, Close; direct `addUsage` for Scrub | workers call Add; the reload calls Close |
| Outgoing webhooks (`internal/webhooks`, `internal/core/webhooks.go`) | `webhook_deliveries`, `webhook_endpoints`; the jobs of a pass | enqueue, claim, send, record, retry, prune, rotate, update, delete | transactional log, external endpoints, other instances |
| Subscriber importer (`internal/subimporter`, `internal/importstage`) | importer status, stop channel, subQueue, open transaction; staged files | NewSession, LoadCSV, Start, Stop; stage, expire | Scrub, subscribers |
| Scrub batch validation (`cmd/scrub_batch.go`) | `scrub_validation_jobs`, `scrub_validation_batches` | submit, progress callback, aggregate, reconcile | campaigns (guard), usage, subscribers |
| Transactional log (`internal/core/txlog.go`) | `tx_messages` and events | create, set status, mark bounced, prune | workers, bounces, webhooks |
| Bounces (`internal/bounce`) | queue, `bounces` | record, act at a threshold | log, subscribers |
| Subscriptions | `subscribers`, `subscriber_lists` | subscribe, confirm, unsubscribe, blocklist, import | all of the above |
| Inactive cleanup | `inactive_cleanup_runs` | claim a run, act in batches | subscriptions |
| Temporary tokens, events, per-tenant caches | maps under one mutex | set, check, get; publish; look up, invalidate | requests |

What makes each correct, and where it is hard:

- **Campaign manager.** One sender per campaign; every subscriber taken in is
  decided before the pipe is cleaned up; a stop reaches what is queued; a
  campaign is finished only when nobody was dropped; every pipe ends. Hard:
  eight kinds of goroutine step on shared atomics without a common lock, status
  is read and written without comparing, each early return must release one
  count.
- **Usage meter.** Nothing counted is dropped or billed twice, except for what
  the design concedes (process death, ambiguous writes). Hard: counts arrive
  while a failed flush puts its own back, and while the process shuts down.
- **Webhooks.** A delivery is with one worker at a time, its status, attempts
  and schedule agree, and it is decided in the end. Hard: a pass can outlast its
  lease, and attempts are recorded over rows that have changed.
- **Importer.** One import at a time, its final status tells whether rows
  failed, a stop ends it. Hard: two goroutines share a bounded queue and a
  status written from both; the reader waits on a writer that has given up.
- **Scrub batches.** Reconciled once, after every chunk terminated, and the
  guard on campaigns lasts as long. Hard: callbacks arrive before the submission
  has returned, twice, or out of order.
- **Transactional log, bounces.** A status does not move backwards, and each
  change queues its event. **Subscriptions.** A blocklisted or unsubscribed
  person is not subscribed again by a slower writer. **Cleanup.** One run per
  window, which ends.

`PROJECT.json` lists every hazard at its line, with the properties that would
catch it or why none does.

## 2. Plan

The order was that of importance: what is sent (`CampaignManager` with its
abstraction `CampaignSessions`), what is billed (`UsageMeter`), what is told to
others (`WebhookDelivery`), who is validated, who may be mailed, who is imported,
and what is logged (`ScrubBatches`, `Subscriptions`, `Importer`, `TxLog`). All of
these exist and are checked, and each has a module of proofs, which states every
invariant and every action property that a run checks, and the refinement.

What is left, should the project go on:

1. The control of `InactiveCleanup`: the claim of a run and its loop.
2. `TxLog` and `WebhookDelivery` as one composition. They meet in one action,
   `EnqueueTxWebhook` of the one and `Enqueue` of the other, so a composition
   would show little that the two don't.

Modules are written to be proved about: constants with named assumptions, one
action per step, no RECURSIVE operators.

## 3. Modules

| Module | What it is |
|---|---|
| `CampaignManager` | the sending pipeline, its properties and the refinement mapping |
| `CampaignSessions` | what the pipeline promises, without queues or counters |
| `MCCampaign` | values of the constants and symmetry for TLC |
| `CampaignManager_proofs` | inductive invariant and theorems |
| `CampaignSessions_proofs` | the proof that the pipeline implements `CampaignSessions` |
| `UsageMeter`, `MCUsage`, `UsageMeter_proofs` | the usage meter |
| `WebhookDelivery`, `MCWebhook`, `WebhookDelivery_proofs` | outgoing webhooks |
| `ScrubBatches`, `MCScrub`, `ScrubBatches_proofs` | validation of lists and imported windows by Scrub |
| `Subscriptions`, `MCSubscriptions`, `Subscriptions_proofs` | who is on which list, and who may be mailed |
| `Importer`, `MCImporter`, `Importer_proofs` | the CSV importer of a workspace |
| `TxLog`, `MCTxLog`, `TxLog_proofs` | the transactional message log |

A definition followed by a comment `mutant` is a wrong variant of the one after
it: replacing the latter by it must break the property that `PROJECT.json`
pairs it with. No specification uses it.

### CampaignManager

A step is one access to something another goroutine can see.

| Actions | Code |
|---|---|
| `ScanTick`, `ScanQuery`, `ScanQueryFails`, `Launch`, `LaunchFails` | `scanCampaigns`, `getCurrentCampaigns`, `next-campaigns`, `newPipe` |
| `FetchNothing`, `FetchBatch`, `FetchFails`, `EnqueueMessage`, `SkipUnrendered`, `Requeue`, `RequeueOverflow` | `Run`, `NextSubscribers`, `newMessage` |
| `WorkerTake`, `WorkerDrop`, `WorkerCheck`, `WorkerPush`, `WorkerDone`, `WorkerOnError`, `WorkerLoadLast`, `WorkerStoreLast` | `worker` with the increment of `pipe.sent`, `OnError` |
| `CleanCounts` ... `CleanRemove` | the goroutine of `newPipe` and `cleanup`, one step per statement |
| `AdminCheck`, `AdminWrite`, `AdminStop`, `AdminReason` | `UpdateCampaignStatus` (handler and core), `StopCampaign`, the pause reason; `pauseCampaignsForRiskySubscriberWith` is the request `autopause` |
| `Crash` | the process is replaced; the database stays |

`db` is the `campaigns` table, `pipes` is `m.pipes`, `pipe` holds the fields of
a pipe, `wg` its WaitGroup, `phase` the place of its goroutine, and `fate` is
history: what became of each subscriber in each pipe. A pipe is numbered in
order of creation and never reused.

Abstractions:

- A campaign's audience is a fixed set of subscriber IDs. The upper limit
  `max_subscriber_id` and changes of the lists while a campaign runs are left
  out, and so is the campaign type that changes how lists are joined.
- How long rate limits and the sliding window delay is left out, and so are
  rendering, links, headers and logging. The delay itself is a state: a worker
  that has found its pipe not stopped (`WorkerCheck`) may sleep for the message
  rate before it sends (`WorkerPush`), does not look again, and so may send after
  a pause is through. That a message does not render is the outcome
  `SkipUnrendered`.
- `getCurrentCampaigns` is one step that may load, for every pipe, any value
  its counter had: it runs under a lock against the map, and only increments can
  come between its load and its store.
- Counting a message and putting it into `campMsgQ` are one step, taken when the
  queue has room: until then only the Run loop knows of it, and the pseudo count
  keeps the WaitGroup from 0.
- The status read of `NextSubscribers` and the statement that fetches the batch
  are one step. Only this pipe moves the checkpoint, so a status that changes
  between the two is the same as one that changes right after.
- When `send_at` passes is up to the environment; so is which tenants are
  active at a tick.
- A status request that fails halfway is one whose next step never comes.
- A worker whose campaign message is nil-piped, and the queue of other messages,
  share nothing with campaigns and are left out.

### CampaignSessions

A campaign's session is closed, open or settling. Subscribers are taken in once,
served once, and dropped only after a stop; a session settles only when nobody
is pending. The mapping in `CampaignManager` reads the session off the pipe that
`m.pipes` names. TLC checks `ImplementsSessions` as a property of a run, and
`CampaignSessions_proofs` proves it.

### UsageMeter

`pending` is the meter's map, `batch` what a flush took, `table` is
`usage_counters`. `counted`, `lost` and `twice` are history. A bucket
(tenant, kind, hour) is a member of `Sends` or `Checks`; the sends include
install-level messages, which are no tenant's and must not be counted. `Take`,
`Write`, `WriteFails` and `Restore` are the parts of `Flush` between which the
mutex is free. `WriteFails` includes the write that is applied although its
answer is lost. `due` is what had been counted when `Close` was called, and `closer`
tells a `Close` that returned without an error (`closed`) from one whose flush failed
(`failed`). `Restart` covers a reload after `Close`, the reload that
`awaitReload` forces after three seconds, and a process death, with or without
the write under way being applied. Workers may call `Add` in every state of
`Close`: `mgr.Close()` does not wait for them.

### WebhookDelivery

Rows count down to their next attempt and to the end of their lock in ticks;
`Tick` happens only when every worker waits, for an answer that is not overdue
or for something to do. So only calls take time, and the statements around them
take none. The two clocks of the code, `NOW()` and the application's, are taken
to agree. `lease` and `again` in a job are history: how much of its lease is
left, and whether somebody asked for a retry since the claim. A claim takes as
many due deliveries as fit, but which ones is left open: the order of
`next_attempt_at` and that of sending are not modelled. A claim that is applied
and whose answer is lost is a claim followed by `Crash`. Deleting an endpoint
deletes its deliveries, and recording an attempt on a deleted one does nothing
(the insert of the attempt fails).

### ScrubBatches

`job` and `batch` are the status columns of the two tables, `remote` is what
became of a batch at Scrub, `events` the callbacks Scrub is about to make.
Callbacks are not ordered and may be made again (`Repeat`): Scrub is outside of
the repository, and the handler is written for both.

| Actions | Code |
|---|---|
| `ScrubList`, `InsertJob`, `SubmitWindow` | the handler, `submitScrubListValidation`, the importer's `flushWindow` |
| `InsertBatch`, `InsertBatchFails`, `PostAccepted`, `PostFails`, `RecordPending`, `Bill` | `submitScrubBatch`, one step for each call it makes; `PostFails` also deletes the row, or fails to |
| `FailJob` | a chunk that is refused takes the job back |
| `Receive`, `SaveProgress`, `DropFailed`, `CountJob`, `WriteJob` | `ScrubBatchWebhook`, `updateScrubJobProgress`: reading the rows and writing the totals are two steps |
| `Reconcile`, `RemoveReconciled` | the goroutine that applies results and deletes the job |
| `Crash` | the process is replaced: senders and handlers are gone, callbacks that were not answered come again |

`harmed` is history: some call failed or the process died. What a result does to
subscribers is the set `applied`. All jobs are on one list, since the guard on a
second job and on campaigns is per list.

### Subscriptions

`status`, `link` and `bounces` are the columns and rows the code writes. Each
statement of `queries/subscribers.sql` and `queries/bounces.sql` that sets a
status is an operator of its name, and the actions are the pages and calls that
lead to it. PostgreSQL runs a statement in one step; where a request reads a row and writes it
back later (`SubscribeExisting`/`Resubmit`, `OpenOptin`/`CheckOptin`/`ConfirmOptin`,
`OpenPrefs`/`SavePrefs`/`ReadPrefs`/`LeaveLists`, `OpenPatch`/`PatchSubscriber`), what it read
is in `request`, and everything else may happen in between.

History variables say what the columns cannot: `proven`, the subscriptions that
their owner confirmed or somebody vouched for; `left`, those their owner left and
has not taken up again; `standing`, what was last decided of a subscriber's
blocklisting; `early`, the requests that read a row before its subscriber was
blocklisted. `standing` is not derived from `status`: `Bar` makes it `"barred"`,
and only two operators make it anything else afterwards: `Decide`, an admin's
explicit status (`"readmitted"`), and `WriteBack` by a request in `early`
(`"overtaken"`). Every other write of the status leaves it alone, so one that
lifted a blocklist, a request's writing back of a row it read when it was blocklisted
included, would break `BarredStaysOut`. That property says
what the code achieves, and `PagesKeepTheBlocklist` what it says it achieves.

Lists are never edited, names and attributes are left out, and so is who is
allowed to make a call, but for the lists an admin may manage: an edit deletes
the subscriptions to those only. Inactive cleanup unsubscribes, blocklists or deletes
chosen subscribers: actions that exist.

### Importer

A session is two goroutines, `reader` (`LoadCSV`) and `writer` (`Start`), with the
bounded `queue` between them; all sessions share `status` and the channel `stop`.
Every access to the status is a step, since each takes the lock for itself:
`CheckDone` and `NewSession` are two, and so are the parts of `Stop`.
`Insert`, `InsertFails`, `CommitRolledBack`, `Drained`, `Commit`, `Count` and
`Finish` are the writer's loop (`InsertFails` is also a row for which no UUID could be made, which is
not counted as failed): a transaction is a set of rows, and a row is
either new or already there from the other session. Three history variables
name where the code leaves the common path: `torn`, a reader that failed in the
middle of the file and left the queue open; `late`, a `Stop` that marked an
import which had ended; `alone`, that no session was made with another still
at work.

### TxLog

`log` is the status column, `queue` the manager's `msgQ`, `request` what
`sendTx` has still to do, `job` what a request, a worker or a bounce has still to
record of a message: statuses to set, then a webhook to queue. Setting a status
and queuing its webhook are two transactions, so two steps, and callers overlap
in them. A message without a row is one whose row could not be inserted; it is
sent all the same. `MarkTxBounced` attributes a bounce to the latest message to
the address, whatever mail it answers, one that is in no log included. `told` and `moved` count, for each message and
status, the webhooks queued and the times it was set; `moved`, `lost` and
`untold` are history. The 72 hours after which a bounce finds no message, and pruning, are
left out: both only make a message unreachable.

## 4. Runs

| Run | Instance | Shows |
|---|---|---|
| `campaign_pipe` | 1 scheduled campaign, 2 subscribers, 2 workers, 2 overlapping requests of all 7 kinds, 2 pipes, batches of 1, queues of 1; 1.75 million states | the types and capacities, `CleanupAfterDrain`, `OnePipePerCampaign`, `FinishDropsNothing`, `NonePastCheckOncePaused`, `ImplementsSessions` |
| `campaign_release` | 2 campaigns, 1 worker, one failing call anywhere, one crash, queues of 1; fairness; 350,000 states | `PipeReleased` |
| `usage_meter` | 3 buckets, 3 additions of 1 or 2, one failing and one ambiguous write, 2 processes; fairness; 16,000 states | `Conserved`, `CleanShutdownLosesNothing`, `EveryCountLands` |
| `webhook_lease` | 2 deliveries, 2 instances, passes twice as long as the lease, 3 attempts, one lost record, one retry; 900,000 states | `AttemptsMatchStatus`, `LeasesDisjoint` |
| `webhook_settles` | 1 test delivery, 2 instances, 2 retries, 2 lost records, a rotation, a crash; fairness; 350,000 states | `EventuallySettled` |
| `scrub_batches` | a job of 2 chunks and an imported window, one submission, 2 callback requests, 2 mishaps; 1.4 million states | `NothingSettledEarly`, `BilledWhatScrubAccepted`, `RecordedJobsGoAway` |
| `subscriptions` | 2 rows of one address, a single and a double opt-in list, 3 bounce types with 3 actions and thresholds of 2 and 1, one request that writes back; 163,000 states | `LeftStaysLeft`, `MailIsWanted`, `BarredStaysOut`, `BouncedAreOut` |
| `importer` | 2 sessions, 4 rows, one of them bad, and the first of them again, transactions of 1 and then 2 rows, 3 stops or failures; fairness; 1.5 million states | `CountsMatch`, `FinishedSavesWhatWasRead`, `StatusSettles` |
| `txlog` | 2 requests, 3 messages, 2 of them to one address, 2 workers, a queue of 1, a bounce, a failing call, a crash; fairness; 360,000 states | `StatusIsTrue`, `ToldOncePerChange`, `NotMovedBack`, `QueuedSettles` |
| `campaign_resume`, `scrub_stuck`, `subscriptions_rejoin` | small instances that show it | a place where the code does not do what its documentation or its comments say (section 7) |

Why the bounds are enough to be worth something:

- Two subscribers in batches of one make a pipe return to `nextPipes`, and let a
  checkpoint lie between them. Two workers give two messages in flight, in
  either order. Two pipes give a campaign that is stopped, resumed and picked up
  again. Queues of one are full as soon as one thing is in them, which is
  where `RequeueOverflow`, a `Launch` into a full queue and a blocked
  Run loop happen. Two requests overlap in every order of their steps.
- `MaxSendErrors` of one makes every refused message meet the threshold; no
  property depends on the threshold's value.
- In `campaign_release` two campaigns compete for one slot of `nextPipes`.
  Requests are left out there: a stop adds no way for a pipe to wait longer, and
  `campaign_pipe` has all of them. One fault is enough for each place a call can
  fail, since TLC tries it at every one.
- A lease of 2 and a timeout of 2 with claims of 2 keep the code's relation: a
  pass may last longer than its lease (500 s against 60 s), a single call may
  not outlast it, and every backoff (3) is longer than the lease (4 minutes
  against 60 s). `ConstantsAssumption` states the last one, and the proofs use
  nothing else about the numbers.
- A job of two chunks has one that ended while the other is not submitted, which
  is what `AggregateBatches` is about; two callback requests overlap in every
  order of their steps, and the imported window shares the handlers without
  belonging to a job.
- Two rows of one address let a subscriber be deleted and subscribe again. A
  threshold of 2 has a bounce below it and one at it; each of the actions none,
  unsubscribe, blocklist and delete is the outcome of some bounce. Every other
  writer is a single statement, so one request that writes back late is enough
  to race with each of them.
- Three good rows in transactions of one and then two give a commit in the middle
  of the file, one at its end, a second row that fails after a first, and a queue
  that fills up; the second session imports a row of the first again, and so
  waits for its transaction.
- Two messages to one address let a bounce be attributed to the wrong one, and a
  queue of one makes a push time out.
- Bounds of the environment (`MaxRequests`, `MaxFaults`, `MaxCrashes`,
  `MaxAdds`, `MaxStarts`,
  `MaxMishaps`, `MaxEvents`, ...) only limit how often the environment acts; the
  program's own counters (attempts, errors, WaitGroups, queue lengths) are bounded
  by the program's own conditions.

Deadlock is checked in `subscriptions` and `subscriptions_rejoin`, where somebody
can always act. It is off in every other run: the environment runs out of pipes,
requests, callbacks or rows, and the system may then rest. That it does not stop
too early is what the liveness runs show.

Symmetry is used only in the safety runs, over workers and requests, instances
and deliveries, handlers, and the rows of one address, none of which the
specifications compare or order.

## 5. Fairness

- Campaigns: weak fairness of the Run loop, of each worker and of each pipe's
  goroutine. They are goroutines that loop without sleeping for good, the
  messenger's `Push` returns (SMTP timeouts), and statements are answered. No
  fairness is asked of the scanner, of requests, of faults or of crashes:
  `PipeReleased` does not need them. `SkipUnrendered` and `FetchFails` are
  outside of the fair actions, so that a failure is never what makes progress.
- Usage: `Run` flushes at every tick and a write is answered (`WF(Flush)`), `Run`
  sees the stop (`WF(RunReturns)`), and a process whose meter is closed is
  replaced (`awaitReload`). `EveryCountLands` needs no bound on failures other
  than that they end, which the constants state.
- Webhooks: a worker polls for ever and every call ends by its timeout
  (`WF(Worker)`), and time goes by (`WF(Tick)`). Retries, deletions, faults and
  crashes may happen or not.

- Scrub: requests, senders and reconciling goroutines run on (`WF(HandlerStep)`,
  `WF(Submit)` once begun), Scrub ends what it accepted, and makes a callback
  until it is answered with 200 (`SF(Receive)`, strong because the two handlers
  may be busy in between). Only the violation run uses it: with all of this the
  job still gets stuck.
- Importer: the goroutines and requests of a session run on. Stops and failures
  may happen or not; each reading step is fair as a whole, and a failure is
  bounded, so progress never rests on one.
- Message log: requests, workers and those who record go on; a bounce or a crash
  may never come. A push into a full queue times out (`pushTimeout`) or finds
  room.

## 6. Proofs

Every theorem holds for all values of the constants that satisfy the named
assumption of its module: any number of campaigns, tenants,
subscribers, workers, requests, pipes, any capacities; any keys and amounts; any
number of deliveries, instances and attempts; any jobs, chunks and callbacks; any
subscribers, lists and thresholds; any sessions, files and sizes of a batch; any
messages, requests and workers.

**CampaignManager** (`Invariant`, `TypeCorrect`, `CleanupDrained`, `OnePipe`,
`FinishedInFull`, `NonePastCheckAfterPause`). The properties are not inductive. That a
pipe is drained when its cleanup starts follows from its WaitGroup being 0, so the
invariant has to say what the WaitGroup counts:

- `Accounting`: the number of undone messages, plus one while the pipe is in
  `nextPipes` or with the Run loop. This is where a double or a missing
  `wg.Done` would show.
- `OneToken`, `Fetched`, `Queued`, `Working`: a pipe and a message are in one
  place at a time, the one its fate names; otherwise a message could be released
  twice.
- `Checkpoint`: whoever a pipe has fetched is not ahead of the checkpoint while
  the pipe waits, so a batch is new. It needs `OnePipePerCampaign`, because
  cleanup moves the checkpoint back.
- `Owned`, `ScanFresh`: what the scanner is about to launch has no pipe. The
  scanner excludes the campaigns that were in flight at its tick, and only the
  scanner adds pipes.
- `Dropping`, `Stopping`: only stopped pipes drop, stopped pipes do not reach
  the status step, and a pipe with messages whose campaign is paused or cancelled
  is stopped or is about to be. `Stopping` is what makes `NonePastCheckOncePaused`
  true although the status and the mark are written in two steps.

There is one lemma per action, and the lemmas about counting rest on the library's
facts about finite sets.

**CampaignSessions** (`Refinement`, `SessionsLoseNobody`). Initial states map to
initial states, and each step maps to one step of one session or to a stutter.
There is a lemma for every abstract step, which says what the mapped state of
one campaign must do for it, and one for every group of the code's actions, which
finds that step. The steps map because of the invariant above: a batch
is of new subscribers (`Checkpoint`), a message is dropped only by a stopped
pipe (`Dropping`), and cleanup begins with nobody pending
(`Accounting`). A pipe that was removed and one that a crash left behind are not
in the mapped state, and `OnePipePerCampaign` keeps a second pipe from
being read as the first one's session. `SessionsLoseNobody` is what the
abstraction promises, carried back to the code's pipes: a session that settles
without having been stopped dropped nobody.

**UsageMeter** (`MeterInvariant`, `MeterTypes`, `NothingDropped`,
`ShutdownKeeps`). The balance `Conserved` needs that an idle flush holds no batch,
since a take overwrites it. `CleanShutdownLosesNothing` needs that nobody but
`Close` flushes once `Run` has returned (`ClosedIsIdle`), and that whatever
`Close`'s own flush did not take was counted after `Close` was called (`LeftIsLate`):
had `Run` still held a batch, a failing write could put it back too late.

**WebhookDelivery** (`DeliveryInvariant`, `DeliveryTypes`, `StatusAgrees`,
`OneLease`). `HeldOK` says of every job a worker holds that it was claimed with
attempts left, and that as long as its lease runs its delivery cannot become due
within it, unless it was retried: it is decided, still locked, or waits for a
backoff, and every backoff is longer than a lease. That is why a worker that
records late and so clears the lock of another does not put the delivery with a
third.

**ScrubBatches** (`Invariance`, `TypeCorrect`, `SettledInTime`, `BilledOnce`,
`RecordedGoAway`). `IInv` says where each claim comes from: a row, a callback or
a handler says that a batch ended only when it did at Scrub (`RowOK`, `EventOK`,
`HandlerOK`); a sender holds a chunk of its own and knows whether it has been
billed (`SenderOK`, `BillOK`); a job that is gone has chunks that have ended or a
sender that gave up (`JobOK`). `SettledInTime` needs that a count of the rows is
compared with the number of chunks the job was made for: a handler that counted
before the last chunk was submitted carries a total too low to settle anything.
`AwayOK` is `RecordedJobsGoAway` with what it takes to be inductive: of two
handlers that count at the same time, the one that saved last counts all.

**Subscriptions** (`Invariance`, `TypeCorrect`, `LeftIsLeft`, `BarredIsBarred`,
`MailIsForTheWilling`, `BouncersAreOut`). `IInv` has a part for each table and one
for requests: `StatusInv` (blocklisted is barred, and one address has one row),
`LinksInv` (whoever is confirmed on a double opt-in list has proof, whoever
left is unsubscribed), `BouncesInv`, `AttachedInv`, `RequestInv`, `ReadInv`, and
`BouncedAreOut`, which is inductive with them. `ReadInv` is what `BarredIsBarred`
rests on: of the requests about a barred subscriber, those that hold another
status than blocklisted are in `early`. Lemmas say what a write of the status, a
write of the subscriptions and the end of a request must respect (`Told`, `Goes`);
each action's lemma checks that its write does.

**TxLog** (`Invariance`, `TypeCorrect`, `StatusTrue`, `BounceIsFinal`). A status
is recorded long after it became true, so `JobOK` says that what a caller holds
was true when it was found out and cannot become false. That rests on
`OnePlace`, `Apart`, `QueueApart` and `WorkersApart`: a message is with its
request, in the queue or with one worker, and nobody takes it a second time.
Otherwise a message recorded as failed could still be taken. `Unrecorded` says
that a message before its request's turn has no row.

`ToldOnce` proves `ToldOncePerChange`: never more webhooks are queued or owed
for a status than it was set, and as many unless one could not be queued. The property counts the callers who still
owe one, so `TellInv` adds that they are finitely many although the number of
requests, workers and bounces is not bounded (`Telling`), that a caller who is about
to be given something to record has nothing left to record, else the older webhook
would be forgotten (`Idle`), and the balance itself for each message and status
(`Tally`).

**Importer** (`Invariant`, `TypesHold`, `CountsHold`, `FinishedIsComplete`). The
properties compare a status that several goroutines write with rows that pass
through a window, a queue, a writer's hands and a transaction, so the invariant
follows the rows:

- `Placed`: every good row that was read is in exactly one of these places, in the
  table or among the lost; while a commit is counted, and while a transaction that
  failed is, its rows are on both sides. This is where a row saved twice, or left
  in the window when the queue is closed, would show.
- `Room`: windows and queues hold at most a batch, and a reader that goes on has
  room for one more.
- `Fresh`: a session that has not been made has touched nothing.
- `Emptied`: a queue is closed on an empty window, and a writer ends its loop with
  the queue closed and empty unless a call of the database failed.
- `Counted`: if no other session was at work, the status counts this session's
  rows, less those whose commit is still to be counted. Without that
  condition it is false: `NewSession` resets the counts that another session's
  writer adds to (section 7), which is why the properties speak of imports that
  were alone.

**Only model-checked:** the five liveness properties (`PipeReleased`,
`EveryCountLands`, `EventuallySettled`, `StatusSettles`, `QueuedSettles`).
Liveness under fairness needs ENABLED, which is out of the prover's reach. The
three properties of section 7 are false of the code and are shown to be by TLC.

## 7. Disagreements between code and documentation

Three are runs that TLC ends with a counterexample.

- `DroppedAreResumed` (`campaign_resume`): a campaign paused before any message
  was counted keeps its checkpoint at the end of the fetched batch; resumed, it
  skips the subscribers whose messages were dropped.
- `EndedJobsAreReconciled` (`scrub_stuck`): a callback that comes before the
  submission noted its batch as pending is overwritten by that note, and the job
  never ends.
- `PagesKeepTheBlocklist` (`subscriptions_rejoin`): a subscription form that read
  a subscriber before they blocklisted themselves writes them back as enabled.

Others are behaviours the models have and no run singles out; the properties are
stated so that they hold with them.

- The worker releases the count of a message before it reports its error
  (`manager.go:687`). When the last message of a campaign meets the threshold, the
  campaign may be finished instead of paused.
- Cancelling a campaign whose pipe drains after too many errors ends in `paused`
  (`pipe.go:211`), although only running campaigns can be paused.
- A scan between cleanup's update of the counts and the removal of the pipe adds
  the same sent count again (`pipe.go:205`).
- Workers outlive `mgr.Close()` and count after the meter's final flush
  (`cmd/main.go:395`): even a clean shutdown may lose a count that comes after
  `Close` was called. `CleanShutdownLosesNothing` is about those that came before.
- A late worker records its refusal over another instance's success
  (`webhooks.go:149`), and the rest of a claimed batch is signed with the secret
  from before a rotation (`webhooks.go:168`).
- A row of an import that fails first in its transaction leaves nothing to
  commit, and the import ends as finished (`importer.go:508`), although the
  comment at line 478 expects the commit to mark it failed.
- Two imports of a workspace can run together: started at the same time
  (`importer.go:264`), or after a second `Stop` has cleared the status of one that
  is still stopping (line 828). A stop that nobody read stops the next import
  (line 701), and one that marks an import which has ended leaves `stopping`
  behind (line 838).

## 8. Not modelled

- **Inactive cleanup.** What it does to subscribers is in `Subscriptions`; its
  own control is a claim under an advisory lock and a loop of one goroutine.
- **Temporary tokens, the event stream, per-tenant caches.** Each is a map under
  one mutex whose operations are single critical sections.
- **Mailboxes, provider webhooks and the bounce queue**, staged import files and
  ZIP archives: input that arrives at the modelled actions, later or not at all.
- **Lists, forms, media, users, roles, settings, segments, replies, the operator
  API**: one statement or transaction each. The frontend, translations,
  generated API documentation and migrations have no concurrent behaviour of the
  server; they and these make up most of the repository's lines, which is why
  the modelled share of it is small.
- Within the modelled components: editing or deleting a campaign while it is
  sent, `Manager.Close` closing channels that others send to (a panic of a
  process that is being replaced), more than one application instance sending
  campaigns (`ScanCampaigns` is meant for one), clock differences.

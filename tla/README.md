# A formal model of MARKAI

MARKAI plans, generates, reviews and publishes marketing content. This directory
holds TLA+ modules of its core protocols, the TLC configurations that check them
on small instances, and TLAPS proofs of what matters most. Every definition is
translated from the code; `PROJECT.json` names the lines of each
(`"map"`), the runs, the mutants each property is tested against, the hazards the
properties aim at, and the theorems.

## Inventory of the system

| Component | State it keeps | Operations | Modules |
|---|---|---|---|
| Scheduler tick (`backend/app/scheduler`) | none between ticks; a semaphore and a set of background tasks per process | sweep stuck rows, query and expire due rows, claim, spawn a publish task | `PublishPipeline`, `PublishLedger` |
| Publish service and publishers (`services/publish_service.py`, `services/publishers`) | none; tokens in the database | check the kill switch, fetch the media, upload, poll, commit, record | `PublishPipeline`, `ChannelPublishers` |
| Kill switch (`api/v1/system.py`, `system_flags`) | one global flag, a flag per brand and per channel | set, read; enforced at the tick, in the loop and before every dispatch | `PublishPipeline` |
| Calendar API and service | `calendar_items` (status, slot, note) | create, put, patch, delete, reorder | `PublishPipeline`, `ReviewFlow`, `ContentBatch`, `CalendarPlan` |
| Approval service | `approvals` | resolve (with the item, in one transaction) | `ReviewFlow` |
| Content API and service | `content` versions with one `is_current` | create, upload, regenerate, rebrand, render, transition | `ReviewFlow`, `ImageEdit` |
| Agents' worker, jobs (`agents/worker.py`) | messages in flight, the batch in the message | generate, divert reels, skip forward, continue the batch, edit a picture | `ReviewFlow`, `ContentBatch`, `ImageEdit` |
| Agents' worker, runs | `agent_runs` rows, leases, checkpoints | start, heartbeat, pause, resume, drain, reap | `AgentRuns` |
| Brands and activation (`api/v1/brands.py`) | the brand's status | activate, deactivate, trigger, chain of workflows | `BrandChain` |
| Planning | the calendar's planned items | generate in waves, validate, purge, store | `CalendarPlan` |
| Research, competitors | `competitors` | discover, crawl, list new names; people add, change, delete | `Research` |
| Strategy and its reports | `agent_runs` payloads | generate, review, revise, edit in place, load | `Strategy` |
| Evaluation, adaptation, engagement | `engagement_metrics`, `adaptations` | measure, recommend, review, apply, decide | `Learning` |
| Products and stock (`product_intel`, `bc_sync`) | one product's row, gallery, stock | upload, search, sync, source, prune | `Catalogue` |
| Business Central client | token, caches, breaker, semaphore in one process | look up a picture | `BCClient` |
| Content workflow | LangGraph state, objects in the store | text, picture, branding, review, mockups, store | `ContentRender`, `ImageRender` |
| Video workflow | LangGraph state, `video_jobs`, `generation_ledger` | plan shots, render, retry, chain, finish, store | `VideoReel`, `VideoCall`, `ReelFinish`, `Captions` |
| Image pipeline, browser worker, notifications, frontend, deployment | pixels, sessions, deliveries, UI state | | not modelled |

Who talks to whom: the frontend calls the API; the API commits rows and publishes
a message to NATS *after* the commit; the worker consumes messages with
at-least-once delivery, writes the same rows with its own connections, and
acknowledges at the end; the scheduler reads the rows every minute and posts. The
database row is the only thing they share, and most of the protocol is in the
`WHERE` clauses (or their absence) of the writes.

What is hard here: the status of one calendar item is written by operators, by
the worker and by the publisher, each after suspension points; messages are
redelivered, processes are drained, killed and restarted; timeouts (thirty
minutes for a claim, five for a heartbeat, a day for a due slot) expire under
tasks that are alive; a batch lives only in the message that carries it; several
writers read a row, wait for a model or a web server, and write back what they
read; what a provider rendered costs money and a post that reached a platform
cannot be taken back.

Properties that make each part correct, in the words of its code:

- **Publishing**: one scheduling decision causes at most one post; what is
  `published` was posted, whole; a claim always ends; a due item is served or
  expired; the kill switch stops the next dispatch.
- **Review**: nothing is posted that no reviewer approved; an item in review can be
  decided, once, about its current version; a retry is offered of what passed review;
  the worker does not take back what a reviewer decided; an item always leaves a
  transient status.
- **Runs**: one handler per run; a terminal run stays terminal; a dead worker's
  lease is freed.
- **Batches and activation**: every item of a batch is carried on, whatever
  message dies, and generated once; an activation ends, and a run makes a brand
  active with its reports only.
- **Generation**: a row names pictures that are what it says; the least bad picture
  leaves the guard; shots fit together, captions can be read, no pass cuts the
  film, and what was paid is recorded and was meant.
- **Knowledge**: a plan replaces what was planned and nothing else; what planning
  reads was approved; what is applied was ordered; nothing a person uploaded is
  forgotten; no competitor is listed twice; a refused login is not asked again and
  again.

## The modules and how they depend on each other

| Module | Role | Checked through | Proofs |
|---|---|---|---|
| `PublishPipeline` | tick, tasks, kill switch, operators, restart | `MCPublishPipeline` | `PublishPipeline_proofs` |
| `PublishLedger` | the abstract promise, refined by the pipeline | `ImplementsLedger` | same |
| `ReviewFlow` | one item between the API, the worker and the publisher | `MCReview` (three instances), `MCReviewFlow` | `ReviewFlow_proofs` |
| `AgentRuns` | `agent_runs` of one (brand, workflow) pair | `MCAgentRuns` | `AgentRuns_proofs` |
| `BrandChain` | a brand's activation through five workflows | `MCWorkflows` | `Workflows_proofs` |
| `ContentBatch` | a brand's queue of items in its messages | `MCWorkflows` | same |
| `CalendarPlan`, `Strategy`, `Learning` | planning; strategy and its review; the learning loop | `MCStages` | `Planning_proofs` |
| `Research`, `BCClient`, `Catalogue` | the competitors table; lookups in Business Central; a product | `MCStages` | same |
| `ContentRender`, `ImageRender`, `VideoCall` | a content run; one picture; one clip | `MCStages` | `Render_proofs` |
| `ReelFinish` with `Captions` | from footage to a stored reel | `MCStages` | same |
| `VideoReel`, `ImageEdit`, `ChannelPublishers` | shots of a reel; edits of a post's picture; one publish attempt | `MCStages` | `Media_proofs` |
| `Recursion` | lemmas on recursive functions, for the proofs | | `Recursion` |

Each module is one level of detail of another or shares no state with it.
`PublishPipeline` is the detail of the publisher of `ReviewFlow`, and
`ChannelPublishers` of one dispatch of `PublishPipeline`. `AgentRuns` and
`ReviewFlow` are not composed: the run lock only delays a redelivered job until the
reaper frees it, and `ReviewFlow` lets every message wait as long as it likes.
`ContentBatch` keeps that lock, for it decides which of two batches goes on; a
content run is one step there and `ContentRender` its detail, as `ImageRender` is
of its `generate_background` and `VideoCall` of the clips of `VideoReel`.
`BrandChain` has a run of every workflow as one step and `Strategy`, `Research`,
`CalendarPlan` and `Learning` have its inside. `MCWorkflows`, `MCStages` and `MCReview`
each put several machines into one run; a behaviour is one of one machine, chosen
at the start. They extend the machines, so a run and a theorem are about one formula;
`MCReview` has two more instances of its one machine, which differ in who acts and what
goes wrong, and names what it checks of those only (`PostIsOpen` is `ReviewIsOpen` of
`Calm`).

## How the modules correspond to the code

One action is the code between two suspension points. The code is asynchronous
Python on one event loop per process, so nothing interleaves inside such a
stretch, except other processes between two statements on the database: a
statement that commits by itself is an action, and so is a transaction. Where only
one actor works on the state (a picture, a clip, a reel) a call and what the code
makes of its answer are one action.

### `PublishPipeline`

State: one function per column of a calendar item (`status`, `slot`, `aged`,
`noted`, `withContent`), the tick of each process with what its
queries returned, the tasks with the step they have reached, the kill-switch
flags, and three histories: how often an item was *armed* (put into `scheduled`
by somebody), how often it was *posted*, and posts after the switch was engaged.

| Actions | Code |
|---|---|
| `TickStart`, `SweepWrite`, `DueQuery`, `ExpireWrite`, `LoopStep`, `TickEnd` | `check_due_content`: the global switch, the sweep's select and writes, the due query, the expiry, the loop, the end |
| `Claim` | `_claim_for_publishing`, a compare-and-set on the status alone |
| `Admit` | the semaphore and the re-read of the row in `_run_direct_publish` |
| `CheckKillSwitch`, `ReleaseClaim` | the switch in `publish_direct`, the compare-and-set back to `scheduled` |
| `PlatformPosts`, `PlatformRefuses` | the publishers: a post may be out whatever they answer |
| `RecordPublished`, `RecordFailed`, `LogOutcome` | `record_publish_result`, the log row |
| `Raise`, `CrashRead`, `CrashWrite` | the crash handler of the task |
| `Restart` | a process dies: its tick, tasks and semaphore are gone, the rows stay |
| `Approve`, `Patch`, `Delete`, `CreateContent`, `SetKillSwitch` | the operators |
| `ClockMoves`, `Ages` | a slot becomes due; a row gets older than `PUBLISHING_TIMEOUT` or a day |

`Overstay` is the set of steps in which a task may still be when its row is older
than `PUBLISHING_TIMEOUT` (`{}`: tasks are fast); `PatchFrom` and `PatchTo` the
statuses an operator patches. `PublishLedger` is the abstract promise: a bag of
credits; scheduling adds one, a post spends one, credits may be lost.

### `ReviewFlow`

State: one item's `status`; `version` (the current content row) and `edition`
(every write of the current row's text or image starts a new one: a new row is a
new version, an edit in place only a new edition); `reel`, whether the current
row has a `video_url`; the two recorded errors; the `approvals` in order; requests
and jobs with the step they reached and what they read; the edition the publisher
holds; and two histories, `vetted`, whether somebody approved the item yet, and
`handed`, the editions the publisher was given.

| Actions | Code |
|---|---|
| `DecideClick`, `DecideRead`, `DecideValidate`, `DecideCommit` | the page's buttons and `resolve_approval`: its first read takes no lock; the session's autoflush before the second `SELECT` writes the approval and so locks its row until the commit; the item is then tested against `VALID_TRANSITIONS` |
| `PatchClick`, `PutRequest`, `UpdateRead`, `UpdateCommit`, `Reopen`, `ReopenCommit` | PATCH and PUT; the ORM writes the status only if it differs from what was read; PATCH then looks for an approval to reopen |
| `TriggerRead`, `TriggerCommit`, `TriggerSend` | regenerate image, rebrand, generate video: test, flip the status, send |
| `CreateContent`, `SendGeneration`, `ApiFails` | `POST /content`; the morning top-up; a backend that dies or cannot reach NATS |
| `PickUp`, `Claim`, `Render`, `Store`, `LinkVideo`, `ToReview`, `AskApproval`, `Settle` | the content and video jobs: the redelivery guard, the diversion of reels, and their commits |
| `VideoFails`, `WorkflowFails`, `AckFailure`, `ReleaseStuck`, `TimesOut`, `WorkerDies` | the ways they end badly; a reported failure is acknowledged before the release, an exception after it |
| `PickUpEdit`, `Edit`, `EditChecks`, `EditAsks`, `Release` | image regeneration and rebranding: an unconditional claim, a write in place, a conditional release |
| `PublishStart`, `PublishSucceeds`, `PublishFails`, `PublishGivesUp` | the publisher, of which `PublishPipeline` is the detail |

A message and the job it starts share a slot in `job`. All `content.*` subjects
have one subscription whose callback handles one message at a time;
`video.render` has its own, so two lanes run concurrently (`LaneFree`). A death of
the worker returns every unacknowledged message. The run lock of `agent_runs`
only delays such a redelivery until the reaper frees it, so it is not part of this
module. The constants `Ops`, `Clicks`, `Puts`, `Faults` and `Duplicates` select
which operations and faults an instance has; the statuses `planned` and `approved`
never occur on these paths.

### `AgentRuns`

State: the rows of `agent_runs` of one (brand, agent_type) pair (`status`, the
worker that has the lease, the running rows whose heartbeat is too old, the
number of interrupts its graph has reached, and, as history, the message that
started it); the messages with what they say; for each handler, a worker and one
of its two subscriptions, the step it has reached, the message and the run it
holds. `workflow` is fixed in the initial state: graphs that interrupt and drop a
duplicate (strategy, adaptation), or workflows that retry it (content, video).

| Actions | Code |
|---|---|
| `Trigger`, `Review`, `CancelBrand` | the message that starts a workflow; `review_agent_run`; the deactivation in `update_brand` |
| `Deliver` | `_dispatch_message`, which registers the task |
| `Create`, `Blocked` | the insert under the partial unique index, and the branch for a duplicate |
| `LoadRun`, `ClaimPaused`, `ClaimFails`, `Probe` | `_handle_resume`: the read, the compare-and-set that stamps the lease, the probe of the checkpoint |
| `Interrupts`, `RecordPause`, `Ends`, `Settle` | `_invoke_and_settle`: the graph pauses, completes, fails or times out; every result is written `WHERE status = 'running'` |
| `Lapse`, `Heartbeat`, `Reap` | time, `_heartbeat_once`, `reap_stale_agent_runs` |
| `BeginDrain`, `DrainCancels`, `DrainReleases`, `DrainExits` | `_drain_and_shutdown`: cancel, release the registered runs whose lease is still here, hand the messages back, exit; the replacement starts |
| `Crash`, `AckWait` | a worker dies; JetStream delivers its messages again |

A worker that ends is replaced by one of the same name (an operator may pin
`WORKER_ID`); the default, a name per process, allows fewer steps. `AckWait` waits
until no run is running unheld: a message of a dead worker returns after 92
minutes, and by then the reaper, which runs every 30 and acts on heartbeats older
than five, has freed its run.

### `ContentBatch`

State: the status of each item, numbered by slot; `msgs`, the bodies in the stream
with the item at the head, the queue behind it and the deliveries left; what each
worker's handler holds; `lock`, the owner of the brand's running content run; `renders`,
reels with a message to the video workflow; and histories: `gens` (versions of an
item), `torn` (runs cut off between the item's version and its status), `overtaken`
(handlers whose item another run finished after their guard) and `adrift`, the items
that were lost in a way listed under the divergences.

| Actions | Code |
|---|---|
| `TriggerContent`, `GenerateAll`, `TriggerItem`, `TopUp` | the endpoints and the morning job that queue items and send a batch |
| `Handle` | `_dispatch_message` and `_handle_content`: derive the queue from rows, skip items past generation, divert a reel, take the lock |
| `StoreContent`, `ToReview` | the two commits of `store_content_node`: the version, then the item's status, which tests nothing |
| `Complete`, `AckDone`, `ChainNext` | the end of a run; the acknowledgement precedes the message with the rest |
| `WorkflowFails`, `WorkflowRaises`, `TimesOut`, `RunRejected`, `ReleaseAndContinue` | `_continue_content_chain` on every terminal path, and the last delivery |
| `Crash`, `Reap`, `Render` | a death of the worker; the reaper; the end of a reel's render |

### `BrandChain`

State: the brand's status, `gate` (`context_approvals`: absent, pending or approved),
whether there is a calendar, the message queue, the runs with their trigger and
chain depth, and `done`, the reports that exist. `broken` remembers that an
activation met one of the events after which the code has no way on, or that somebody
set the status by hand.

| Actions | Code |
|---|---|
| `Activate`, `UpdateBrand` (a manager's PUT of any of the four statuses; only the two inactive ones cancel the runs), `ApproveContext`, `GenerateContent`, `Trigger`, `MorningEvaluation` | `brands.py`, `intelligence.py`, `morning_jobs.py` |
| `EntrySkip`, `ContentSkipForward`, `ContentItems`, `StartRun` | what the worker does with a message: a completed stage skips ahead, a live run drops it |
| `PauseRun`, `ResumeRun`, `CompleteRun`, `FailRun`, `ChainRun` | a run's end, and the next message (`_NEXT_WORKFLOW`) |
| `Die`, `Reap` | a death before or after the acknowledgement |

### `CalendarPlan`, `Strategy`, `Research`, `Learning`

`CalendarPlan` keeps the items as (day, new, planned), the windows still to
generate, the drafted days and what went wrong in the store. Its actions are the
nodes (`load_plan_strategy` is `load_strategy`; `GenerateWave` one `asyncio.gather`
of batches, of which any may fail; `Purge` and `store_calendar_items` the two
transactions), and `Take`, by which generation takes an item up meanwhile.

`Strategy` keeps a strategy as the version of the text of each part, the two rows a
reviewed run leaves (`stored`, under the document's key names, and `own`, under the
graph's), an edit of a report between its read and its commit, and what planning
loaded. `human_review` runs twice, at the pause and at the resume, and reads the
auto-approve flag each time; `accepted` and `overruled` are the histories of what was
approved, and of what was rejected and stored all the same because the flag was set
by then.

`Research` keeps the tracked rows by name, the names each of the two writers knows
and is about to insert, and, as history, which names were inserted while the other
writer's transaction was open (`raced`).

`Learning` keeps the posts' latest snapshots, the recommendations with tier and
status, and the adaptation runs with what they loaded and showed; `ordered` is the
history of what somebody said to apply. Its actions are the pull, the nodes of
evaluation and adaptation and `decide_adaptation`.

### `ContentRender`, `ImageRender`, `ImageEdit`

`ContentRender` has one action per node of the content graph. A picture is known by
its run, the logo variant on it and whether the manufacturer's logo is on it;
`objects` is the store by path, `row` the current content row, `state` what later
nodes read. Paths belong to the item, so a second run overwrites what an earlier
row names. `transition_status` and `resolve_approval` move the item in between.

`ImageRender` has the cascade (`SubmitLocal`, `PollLocal`, `CloudTry`), the loop of
the text guard (`Inspect`: judge, keep the least bad, render again) and the product
swap (`Forge`, `SwapTry`). Without the key of the cloud (`keyed`) the call raises where
the first cloud model would be tried. A frame has a real and a judged severity,
because every guard fails open.

`ImageEdit` has the regeneration, the rebrand and the upload of one post, each read,
upload and write a step of its own; an object holds a photo (a number) and a logo.

### `VideoReel`, `VideoCall`, `ReelFinish`, `Captions`

`VideoReel` is the graph from the plan of shots to the stored footage: the single
call, the native multishot call, and the chain, in which a shot starts from the
last frame of the one before (`chain`; `home` is the frame to start anew from,
`depth` the generations since a still), is retried when it is frozen (`RetryShot`),
and starts anew from a still when it has drifted (`Reanchor`). `paid` and `cost`
are what providers billed and what the row says.

`VideoCall` is one clip through the providers: `available`, `submit`, `poll`,
`fetch` and the ways each fails; `ledger` is `generation_ledger`; `ask_again` is
the same clip asked for after a crash under the same idempotency key.

`ReelFinish` carries the film through join, captions, end card, sound and store;
every pass may fail and is then skipped. `Captions` has the fitting of lines to
windows as operators on times in twentieths of a second.

### `ChannelPublishers`, `Catalogue`, `BCClient`

`ChannelPublishers` describes each channel and kind of media as the sequence of its
requests; an `Attempt` performs the next one, whose answer may be lost, refused or
without an id, and `Processed` is the platform finishing the media. Chunked uploads
follow the size. `outcome` is what `publish_direct` records.

`Catalogue` is one product. Each request of its page reads the row (`ReadRow`), calls
the store (`CallStore`) and writes back what it made of what it read (`WriteBack`), and
several may be under way: an upload, a deletion, a search (`fetch_product_images`) or
the choice of another primary picture, which calls nobody. A run works from what it
read at its start as well, and the sync writes the same row; `Coalesce` is the
`COALESCE` of the upserts.

`BCClient` interleaves lookups at their awaits: the login under its lock, the
semaphore, the request interval, retries, the breaker (`disabled_until`).

## The runs

The `MC` modules instantiate the specifications; each `.cfg` is one question. Runs
that expect a violation state what a comment or a docstring of the repository says
and show a behaviour of the code that contradicts it; `PROJECT.json` quotes the
sentence under `"findings"`.

| Run | Instance | Shows |
|---|---|---|
| `publish_replicas` | one item armed twice, two processes with a task each to run, tasks that overstay, failing flag reads, patches from `publishing` and `failed` | at most one post per scheduling decision; `published` implies a post; the pipeline implements the ledger |
| `publish_live` | one item armed twice, two tasks under a semaphore of one, tasks that overstay, a restart; fair scheduler and loop | every claim ends; while the switch stays open every due item is claimed or expired; once it is engaged no more posts leave than the semaphore is wide |
| `publish_twice` | *violation of* `OneDispatchPerItem` | a task that outlives its claim dispatches beside its successor |
| `review` | A post under races: two overlapping requests, PUTs of `in_review` from anywhere, content by hand, duplicates, one crash of the worker or the API. `Calm`: a post; decisions, UI patches, regenerations, rebrands; one request at a time, two jobs; fair; one crash, timeout, lost insert or failed edit. `Film`: a reel; re-renders that may fail, decisions on old pages, a lost approval insert, the publisher; one request and one job at a time | in all three nothing is posted before some approval of the item; in `Calm`, without a fault, an item at rest in review has an open approval and the worker leaves scheduled items alone, and with one `working`, `rendering` and `queued` are always left; in `Film` open approvals are about the current version |
| `two_approvals` | *violation of* `OneOpenApproval` | two requests that return an item to review each insert an approval |
| `retry_unreviewed` | *violation of* `RetryPassedReview` | an old publish error makes the page offer the retry of an edition nobody approved; one actor at a time suffices |
| `agent_runs` | two workers of which one drains at will, two runs, three messages; one crash, stall, deactivation, lost pause or lost checkpoint | one handler per run; terminal runs stay terminal; no drain fails another worker's live run; no message is dropped because of the run its own abandoned attempt left |
| `agent_runs_live` | one worker, as above, and registrations cut off by a drain; fair | every run leaves `running` |
| `workflows` | `BrandChain`: two run slots, two requests of any kind, one death. `ContentBatch`: two items of which one is a reel that may still be planned, two workers, two deliveries per message, one failure, exception, timeout, rejected insert or crash | an activation ends, waits for a review or was cut short in a way the module names; a run makes only a brand with a report and a strategy active; an item waiting or at work is still led to; an item is generated again only after a run that was cut off before the status; a queued item is taken up |
| `stages` | the thirteen machines of `MCStages`, with the bounds of `Stages.cfg` | fifteen properties, one or two per machine, listed below |
| `editor_photo` | *violation of* `PhotoIsKept` | a rebrand after an upload, or after a regeneration that failed half way, shows another photo than before |
| `gallery_overwrite` | *violation of* `WebFillsEmptySlot` | a web search after a deletion stores its picture under the name of one still in the gallery |

What `stages` shows of each machine: `OutcomeIsTrue` (what is recorded of an
attempt is what the platform was known to do), `LeastBadLeaves`, `ShipsWhatItShows`,
`PlanIsReplacedWhole`, `SeamsAreSound` and `CostRecorded` (`VideoReel`),
`PaidOnlyWhenMeant`, `CaptionsFit` and `KeepsItsLength` (`ReelFinish`),
`UploadIsRemembered`, `AppliedWasSaid`, `PlanIsVetted`, `TwinsAreRaces`,
`ImageSurvivesRuns` and `DoomedBounded`. Every property is stated in words above its
definition in the machine's module. It is about two million states; `review` half a
million and `workflows` a third of one.

### Bounds, and why they are enough

`MaxArms` bounds how often an item is scheduled (two: a credit of the first decision can
be confused with that of the second), `MaxRestarts` is one wherever a restart matters;
where posts after the switch are counted, `Tasks` has a slot more than the semaphore
admits. In the review runs `MaxEditions` and `MaxApprovals` bound editions and approvals
to between two and six: enough for a version to be superseded, edited and approved
again. Both are tested where *new* work is created and never inside running work
(`Room`), so no request or job is stuck because of a bound, which matters to the
liveness run; the price is that some long histories are not explored. `MaxFaults` is one
in the passing runs: every fault kind is tried at every point, two in a row are not. In
`agent_runs` two runs and three messages allow a start, a pause and two decisions, or
two runs that compete, and any of them a second time; `MaxRounds` is one there (a run
that is resumed does not pause again) and two in the live instance. The number of
deliveries of a message is not counted in `AgentRuns`; `ContentBatch` counts it, with
`MaxDeliver = 2` in place of five: what matters is a delivery that is not the last and
one that is.

`workflows`: two requests in all, of which the activation is usually one, let a stage be
requested while its own run is live and another skip ahead; a head and a reel behind it
are a batch and its rest, with `BatchLimit` (the code's `LIMIT`) below their number, and
two workers are what it takes for one run to overtake another; longer batches and more
workers are covered by the proofs. `stages`: `Sizes` has a file below, at and above a
chunk and an awkward remainder; two pictures, models, retries (of a shot one) and polls
reach each exhausted cascade; `ContentRender` runs twice, so that a second run
overwrites the first one's objects; `CalendarPlan` has two weeks of two days that
straddle a month of three and items before, in and after them; reels of one, three, four
and eight shots, with a chain capped at one, pass through each lane, a split and a
re-anchor; captions are checked for up to three shots of one length with two lines to
choose from, neither of them the call to action (`Wordings`); the learning loop has one
post, two adaptation runs and two recommendations over two mornings; a strategy has one
edit and answers to a revision with no, one or all parts; two competitors' names with
one automatic job beside a run; one picture of a product, two requests that overlap and
one run (longer galleries are in `gallery_overwrite` and in the proof); two lookups
under a semaphore of one with one retry.

Some properties hold only in an instance that leaves something out, and the next section
says what happens otherwise: `OneDispatchPerItem` would need tasks that end before the
sweep; `ReviewIsOpen` and `WorkerRespectsDecision` are checked for one request at a
time, without PUT, and claim nothing after a fault; `NoStaleApproval` for one
subscription that writes rows. Others say in their formula what they except, each an
entry of the table below: `adrift` items (`BatchIsCarried`), `torn` and `overtaken` runs
(`GeneratedOnce`), `broken` activations (`ActivationEnds`), a manager's PUT
(`ActiveHasStrategy`), a rejection that the flag overruled (`PlanIsVetted`), the answer
of a deletion (`ImageSurvivesRuns`), races (`TwinsAreRaces`), a purge or insert that
raised (`PlanIsReplacedWhole`), a length nobody could measure (`KeepsItsLength`), the
single-call lane (`CostRecorded`), a Facebook reel whose status could not be read
(`OutcomeIsTrue`).

Deadlock checking is off in the runs of `MCReview`, `MCReviewFlow`, `AgentRuns`,
`MCWorkflows`, `MCStages`, `ImageEdit` and `Catalogue`: their machines come to rest when
an item has been dealt with, a job has ended or the messages are used up, as the system
does. Symmetry is used for slots only, and in safety runs only. The type invariants are
not listed by a run: those of `PublishPipeline`, `ReviewFlow` and `AgentRuns` are
theorems, and in the other proved machines typing is the first conjunct of the inductive
invariant.

### Fairness

The scheduler fires its tick every minute and a tick runs to its end; a task runs to its
end because publishers and model calls have timeouts: weak fairness of the ticks and of
each task step, of each request and of each job step. The pick-up of a message has
strong fairness in `ReviewFlow` (assumed of the instance `Calm` only): the stream
delivers in order, so a message does not wait for ever while younger ones pass. The
morning top-up is a daily job: weak fairness. In `AgentRuns` every handler that has
started ends, because a workflow has a timeout; the release of a drain that cancelled
something is reached, because the drain awaits only cancelled tasks; a heartbeat that
nobody renews gets old, and the reaper, which the scheduler fires every 30 minutes,
takes what it finds. A stalled worker is a fault, so it does not renew and lapse for
ever. In `BrandChain` some message is always handled while there is one, and a graph
that has started ends; nobody is obliged to resume a paused run, which is why
`ActivationEnds` lets a strategy wait for its review. In `ContentBatch` a worker's
handler goes on, the reaper and the top-up come round, and a render ends. Nothing is
assumed of operators, reviewers, faults, deaths or of a restart. The flag is assumed to
stay open in `DueIsServed` (in its formula), because the tick returns at once while it
is engaged. `stages` states no fairness and no liveness.

## Divergences seen while modelling

The violation runs state what the repository says of itself and are listed
under `"findings"`. Reading the code for the model showed more places where a
comment, docstring or test promises what the code does not do in every
interleaving, or where a sequence of ordinary steps ends badly. They are behaviours
of the modules (the step is there) except where marked *outside*, and are left out
of the runs' questions, which keep to the main ones, unless a violation run is named.

| Where | What happens |
|---|---|
| `publish_checker.py:226` | the sweep selects stuck rows and writes them by key: a task that recorded `published` in between is overwritten with `failed`, so that an operator who retries it posts it again; it takes a task that outlasts the sweep, or two tasks of one process |
| `publish_checker.py:176` | the crash handler reads the row and writes it later: when the row was swept, or failed and approved, and claimed anew in between, the new claim, or its published result, is failed; it takes two tasks of one process, which a semaphore of one would exclude |
| `publish_checker.py:347` | the claim compares the status and not the slot: an item moved to the future after the due query is posted at once |
| `publish_checker.py:277` | the expiry precedes the scope test, so an item held by a scoped switch is failed after a day instead of staying scheduled |
| `calendar.py:168` | two overlapping PATCHes to `in_review` both find no pending approval and both insert one (`two_approvals`) |
| `calendar.py:149` | PUT writes the same status as PATCH and recreates no approval |
| `worker.py:1513` | a regeneration of a rejected item that fails ends in `in_review` without an approval |
| `worker.py:847` | a late or redelivered edit claims the item whatever its status is by then |
| `worker.py:2416` | the regeneration guard reads the status at pick-up only; the last write of the job, much later, tests nothing |
| `content_service.py:62` | content created through the API leaves the approval of the previous version open, unlike `store_content` |
| `approval_service.py:86` | a decision that read `pending` overwrites an approval that `store_content` superseded meanwhile: the item is scheduled with the new edition, which the decision was not about |
| `worker.py:1457` | an edit in place keeps the pending approval: the page may show the old image when the new one is approved |
| `page.tsx:932` | the retry button trusts an error that outlives the edition it was about, and may schedule an edition nobody reviewed (`retry_unreviewed`) |
| `content/nodes.py:4035` | the status `in_review` and the approval are separate commits: when the worker dies in between, the redelivery is skipped by the guard and the approval is never made |
| `content/nodes.py:4012` | the version and the status are separate commits as well: when the worker dies in between, the redelivery passes the guard and generates the item again, with one worker too |
| `calendar_service.py:83` | the Cancel button's PATCH asks no transition table: an item published between the page's load and the write goes back to `in_review` and can be posted again |
| `worker.py:2895` | a failure the workflow reports is acknowledged before the item is released: a worker that dies in between strands it in `working` |
| `worker.py:3412` | a drain that cancels a resumed run fails it and hands the resume message back, which is then acknowledged as late: the decision is lost |
| `worker.py:2645` | a drain that cancels a handler during its insert leaves a row that no registry names; the message comes back in seconds and is dropped as a duplicate of it |
| `worker.py:458` | a pause that cannot be written is acknowledged all the same, and the run waits for the reaper |
| `brands.py:224` | a deactivation frees the lock of a run whose graph goes on working; once the brand is active again a second run of the workflow may start beside it |
| `worker.py:2471` | a re-render interrupted by a crash stays `rendering`: the redelivery is skipped and the endpoint refuses to start again |
| `content.py:155` | the status is committed before the message is sent; when sending fails the item stays `working` |
| `video/nodes.py:6488` | a crash or a failure between the insert of a reel's row and its `video_url` makes the item look as if it had no reel; with a decision from an old page, an edition nobody reviewed can be posted |
| `publish_checker.py:181` | a task that crashes after the post is out fails the item with the exception as its note, so nothing asks to verify the post |
| `api/v1/agents.py:255` | two clicks on one pause send two resume messages: the second may decide about the next interrupt |
| `brands.py:197` | a manager may PUT the status `active` or `activating`, which asks for no report, starts nothing and cancels nothing |
| `brands.py:295` | activating a brand whose reports are complete sends `content.generate` at once: nothing ends that activation, and the context gate is not asked |
| `worker.py:2880` | a planning run that completes after a deactivation makes the brand active again |
| `worker.py:2690` | the give-up path promises to carry the batch on; with nothing left in the queue, or with the item `working`, it does nothing |
| `worker.py:2409` | the guard for items past generation reads the status before the run is created: two workers may generate one item; so may one worker whose heartbeat stalls until the reaper frees its run (*outside* `ContentBatch`, whose reaper frees the rows of dead workers; stalls are in `AgentRuns`) |
| `worker.py` (after the acknowledgement) | a death between the acknowledgement and the next message strands the batch until the morning top-up |
| `planning/nodes.py:2252` | "Never purge the existing plan to replace it with nothing": an insert that raises after the purge, or drafts that all lie beyond the horizon, leave nothing |
| `planning/nodes.py:2302` | a purge that fails is logged and the new plan is stored on top of the old one |
| `content/nodes.py:3680` | the review's second drawing leaves out the manufacturer's logo while the row goes on saying it is there |
| `content/nodes.py` (object paths) | a second run overwrites pictures of a row that a `failed` item may still be published with |
| `llm.py:794` | "the least bad attempt is returned rather than raising": when drawing again raises, so does the call |
| `llm.py:690` | without the key of the cloud no cloud model is asked, also when the local one only just failed |
| `llm.py:628` | a poll that gives up leaves the GPU's job running |
| `video/nodes.py:5785` | after a fall-back from the native call the seam's frame is taken from the numbering before the split |
| `video/nodes.py:5881` | a shot's deadline is the provider's own, so the forge's job is neither cancelled nor entered in the ledger |
| `video/nodes.py` (single call) | a failure after a paid single call records a cost of zero |
| `video/nodes.py:6278` | a chained reel that could not be measured and has an end card is cut to the length of the card |
| `video/graph.py:44` | *outside:* the wrapper of every step reads the item's metadata and writes it back whole |
| `shared/video.py:276` | a blank forge key is skipped like an unreachable forge, and the paid cloud is asked |
| `publishers` (Facebook) | a reel is recorded as published when its status cannot be read |
| `publishers` (TikTok) | a post sent to the user's inbox is polled to the deadline and recorded as failed |
| `strategy/nodes.py:371` | the auto-approve flag is read again at the resume: what a reviewer rejected is stored when it was set meanwhile, although "Anything that is not an explicit approval is treated as a rejection - fail closed" |
| `planning/nodes.py:790` | the overrides of an edited report are written under keys that planning never reads |
| `worker.py:3003` | feedback is said to trigger a new plan; the depth test never lets it |
| `database.py:910` | carrying out an approval writes each recommendation unconditionally, also one an operator rejected meanwhile |
| `database.py:265` | two jobs that look a competitor up at once insert it twice, and a name an operator deleted comes back |
| `products.py:739` | upload, deletion and search write back the gallery they read before they awaited the store: overlapping requests lose each other's entries or bring a removed one back, and two deletions of one picture take away the one a run found in between |
| `bc_sync.py` | an empty answer, or a product out of stock, prunes the product with its pictures |
| `bc_api.py:279` | requests waiting at the semaphore do not ask the breaker again and renew its cooldown |
| `bc_api.py:197` | the interval is computed before the sleep, so concurrent lookups follow each other more closely than it says |
| `content.py:702` | an upload leaves the base of the editor as it was (see `editor_photo`) |

## What is proved

Eight modules hold TLAPS proofs, for any values of the constants that satisfy the
assumptions named in the modules. Each theorem below states a property that a run
checks, unless marked; its inductive invariant was model-checked before it was
proved. Some need a hypothesis about which operations or faults there are. Such a
hypothesis is a named definition beside the theorem, it is what the run that checks
the property has too, and the property is false without it: the divergences above
say which.

`PublishPipeline_proofs`:

- `Typing` (no run): `Spec => []TypeOK`, with one lemma per actor (`TypeTick`,
  `TypeTask`, `TypeOperator`, `TypeEnvironment`) and in each one step per action.
- `Refinement`: `Spec => ImplementsLedger`. An item's *credit* is one if it is
  `scheduled` (`Queued`) plus the number of its tasks that were given a claim and
  have not dispatched (`PendingTasks`). A claim moves the credit from the row to a
  task and so is a stutter of the ledger; a release moves it back; a post spends
  it (`Post`); an operator who schedules creates one (`Schedule`); a sweep, an
  expiry, a crash or a restart loses some (`Forfeit`). The claim's compare-and-set
  is what makes the first step sound: without the test of the status a claim would
  create credit (`ClaimBlind`). The lemmas `OnlyForfeits` and `TaskForfeits` settle
  the many steps that create nothing; the cardinality of the set of tasks needs
  only that `Tasks` is finite.
- `Tokens` (no run) and `AtMostOncePerScheduling`: `TokenInv`, posts plus credit never
  exceed the number of times the item was armed, is inductive with typing alone, and
  its step is proved of the ledger's actions rather than the pipeline's
  (`TokenStep`). `PostsWithinArms` follows; it is not inductive by itself, since a
  post must know that its task held a credit.
- `ShownWasPosted`: `Spec => []PublishedWasPosted`, if operators may not patch an item
  to `published` by hand (`PatchTo`). `PostedInv` says that a task that is about to
  record a success has posted its item, and lemmas per actor show that nobody else
  writes `published`.
- `SwitchBoundsPosts`: `Spec => []LeakBounded`, for finitely many processes. A post that
  leaves while the switch is engaged belongs to a task that passed the test before;
  `LeakInv` counts those tasks, and that they fit in the semaphores
  (`SemaphoreHolds`) needs an injection of them into processes times permits
  (`AtLarge`).

These need nothing about time: they hold when tasks outlast the sweep, and with any
number of replicas. `OneDispatchPerItem`, which fails in that case, is about *by whom*,
not about how many.

`ReviewFlow_proofs`:

- `Typing` (no run), and `OneJobPerLane` (no run): two jobs of one subscription are
  never both past their pick-up (`OnePerLane`), the premise of what jobs read and write
  without a lock.
- `ApprovalFirst`: `NothingAutoPublishes`, if nobody schedules an item by hand
  (`NoHandScheduling`). Before the first approval (`Untouched`) the publisher never had
  the item and every failure is a generation's, so no page offers the retry.
- `ApprovalsAreCurrent`: `NoStaleApproval`, if one subscription writes the rows
  (`OneWriter`: no content by hand, no PATCH or regeneration that asks for the
  approval of a row it read earlier, renders of reels only). `AsPlanned` carries the
  hypothesis over to requests and messages under way; `TailIsCurrent` says that a
  job's row is the current one between its insert and its approval, which rests on
  `OnePerLane`.
- `ReviewOpens` and `DecisionsStand`: `ReviewIsOpen` and `WorkerRespectsDecision`, for a
  post with one request of the content page at a time (`OneByOne`, which the instance
  `Calm` of `MCReview` satisfies) and any number of messages, faults and editions. They
  claim something until the first fault, and so does the invariant (`Calm`). One
  job at most labours, and `working` or `queued` shows it (`OneLabours`,
  `LabourShows`); so no request commits beside it (`RequestShows`), only the last
  approval can be open (`Latest`), and an item in review, or to be released there, has
  an open one, or a content job or a PATCH that still owes it (`ReviewIsDue`,
  `RebrandIsDue`, `EditIsDue`). `OnePerLane` keeps an edit from starting between a
  content job's status and its approval. With two requests both triggers that read one
  status start a job, and the invariant is lost.

`AgentRuns_proofs`:

- `Typing` (no run): the type invariant includes what `LoadRun` rests on: a handler
  holds a message of its lane, and a resume message names a run.
- `MutualExclusion`: `Spec => []OneExecutor`. `OneExecutor` alone is not inductive:
  a handler that takes a run must know that nobody has it. `Exclusion` adds
  `CarriedRunsAreTaken`, a run in a handler's hands is neither new nor paused; the
  insert takes a new run, the compare-and-set a paused one (`OneTakes`), and the
  only write that makes a run claimable again, `RecordPause`, is the last thing its
  handler does with it. All other steps take and free nothing (`NobodyTakes`).
- `NoResurrection`: `Spec => TerminalStays`, from the five ways a status changes
  (`StatusSteps`).
- `LiveRuns`: `Spec => LiveRunIsNotFailed`, from `HolderOwns`: a handler that works
  on a running run has its lease, so a drain that finds its own name on the row
  cancels that very handler. This needs `Exclusion`, since otherwise another
  handler's claim could move the lease away. Without the lease test in
  `DrainReleases` the proof fails at the drain's step, and TLC finds the run
  (`DrainReleasesAny`).
- `NoRunBlocksItsMessage`: `Spec => []OwnRunNeverBlocks`, unless a drain cancels a
  handler before its run is registered (`AllRegistered`). A run that never paused and
  is still running is in a hand or its message waits out its `ack_wait`
  (`Unfinished`); the hand is that of the handler that created it, which works on it
  or was cancelled at it and has its lease (`FirstHand`), so a drain releases it
  before it hands the message back; and the handlers of a worker stop together
  (`Halts`).

`Workflows_proofs`, of `ContentBatch` and `BrandChain`:

- `TheBatchGoesOn`: `BatchIsCarried` for any number of workers, items and deliveries;
  for each way a run can end the lemmas name what leads to the rest of the queue:
  the message itself, the handler that has yet to send it, or a reel's render.
- `ContentIsGeneratedOnce`: `GeneratedOnce`, for any number of workers. Runs of the brand
  exclude each other (`Locked`). As long as an item has a version that was not cut off
  from its status (`Fine`), it is in review, or the run that stored the version is about
  to put it there, or whoever is past the guard is `overtaken`; so a run that is not
  stores the first version, or one after a torn one.
- `ActiveRestsOnReports`: `ChainSpec => ActiveHasStrategy`. A run that found its input
  keeps it, because reports are never taken back (`Grounded`). The PUT of `active` is
  excepted in the property, and the invariant holds through it.

`Planning_proofs`, of `CalendarPlan`, `Strategy`, `Learning`, `Research`, `BCClient` and
`Catalogue`:

- `PlanReplacedWhole`: an action property, so each action is
  settled twice, for the invariant `PlanInv` and for the step (`WholeStep`). `Kept`
  says that until the purge every item the run found is still there, `Cleared`
  that between a purge that went through and the insert nothing of an earlier plan
  is left in the days the run answers for: without it the completion of the run,
  which only adds, says nothing about what was there.
- `PlansAreVetted`: with `Said` for what was accepted or overruled, a pause shows the
  parts of the run, an approved run has said parts, and both rows and an edit in flight
  hold vetted text, except the row of a run that failed, which nobody reads
  (`RowsVetted`). Editing keeps a row vetted because an edit adds an editor's text part
  by part.
- `OnlySaidIsApplied`: a pause shows all of its stage and an approved
  stage is ordered in full. Rows only grow and keep their tiers, so that a stage is
  the same set when it is applied as when it was shown; an approval that covered
  what is pending *now* would break it (the mutant `PendingNow`).
- `BreakerBounds`: `DoomedBounded`. A rejection ends its lookup and no lookup begins
  during the cooldown, so those rejected and those that may still be together never
  exceed the lookups there can be (`Spent`, by the cardinality of the set under way).
- `OnlyRacesMakeTwins`: `TwinsAreRaces`. A name that an open transaction is about to
  insert has no row unless it was inserted meanwhile, which makes it `raced`
  (`LookedUp`).
- `PicturesSurviveRuns`: `CatalogueSpec => ImageSurvivesRuns`, for every size of a
  gallery and any number of requests at a time. A request other than a deletion ends
  with the name it stored, or with the primary picture it read, which it then does not
  write (`WriteBackKeeps`); that a run or the sync writes `Coalesce(what it read, what is
  there)` settles the rest, and `CatalogueInv` that the galleries, those that requests
  carry included, are sequences of object names. What filtering a gallery by name
  leaves is `WithoutSome`.

`Render_proofs`, of `ContentRender`, `ImageRender`, `VideoCall`, `ReelFinish` and
`Captions`:

- `RowShipsItsPictures`: `RenderInv` follows a run's pictures
  through the state. Before branding nothing is branded; from then on the bytes
  carried are those of the branded object (`Carried`), and at the last node the
  mockups are too (`Previewed`). `RowAge` says that the current row is the latest
  run's own only after that run stored it; until then its pictures may change
  (`OldRowShips`).
- `LeastBadPicture`: in the loop of the guard, `best` is the least
  severe of the frames judged so far (`InLoop`); what leaves is that frame, or nothing
  after the last model, or without a key for any (`Leaving`).
- `PaymentsAreMeant`: a refused key ends the call (`RefusalEnds`), and a
  cloud is given a job only of a request it takes (`AskedTakes`).
- `FilmKeepsItsLength`: `FinishSpec => []KeepsItsLength`. As long as the length is known,
  what the lane says the reel lasts is its footage and its card (`LengthInv`), so the
  mix that is cut to it cuts nothing; a fall-back to `0`, or to the plan, is what the
  property excepts.
- `CaptionsAlwaysFit`: `FinishSpec => []CaptionsFit`, for every plan, length and set of
  lines of which none is the call to action. `CaptionInv` says that what is burned is
  `OverlayEvents` of the windows the film is timed by; what that computes is followed
  through its four passes. The beats are a `Chain`, each from where the one before ends,
  and a line comes back only directly after itself (`BeatsChain`, where `OneProof` says
  that one line of the middle is kept); merging them leaves no line twice
  (`MergedKeeps`), holding a short one over keeps that, and keeps the call to action
  last (`HeldKeeps`, since it has a style of its own); what it takes back from the
  lines before it leaves all of them in place (`TakenBack`); and of stretches in place
  the events come one after the other, at most three (`EventsFit`, `ThreeLines`,
  `LinesFit`). The windows themselves are lengths because shares, rounded down, add up
  to no more than the whole (`SharesFit`, `Distributed`), and because a boundary moves to
  a cut by less than any shot of a native file lasts (`SnappedEnds`). The latter rests
  on the fit of the plan: with shots of `MIN_SHOT_RENDER_S` and a file of three quarters
  of the plan no window is under `_CUT_SNAP_TOLERANCE_S`, with shorter shots a window
  could end before it begins.

`Media_proofs`, of `ImageEdit`, `VideoReel` and `ChannelPublishers`:

- `UploadsAreRemembered`: `EditSpec => UploadIsRemembered`, an action property: every
  write of the worker merges into what the row holds then and not into what it
  read (`Merged`).
- `CostIsRecorded`: `CostRecorded`. `Billed` keeps the running total equal to what was
  paid while no single call was made, and a failing node reports that total.
- `SeamsHold`: `SeamsAreSound` for every length of plan and every cap. The fixed frame
  is the keyframe or the last frame of the first clip (`Homes`); while cuts are to
  come `depth` bounds the generations of the next start frame (`Drift`), which is
  the whole point of `chain_depth`; a frame is taken only from a clip that stays and
  moves (`Moving`), which a retry that replaces a clip could break if it did not
  move; and a fitted plan as long as the planned one *is* the planned one (`Beats`,
  from `FitShape`), so a cut finds the still of its own beat. What `_fit` and
  `_split_to_min_shots` do to the length is proved of the operators
  (`OneMore`, `SplitGrows`, `FitShape`).
- `OutcomesAreTrue`: `OutcomeIsTrue` for every size. The invariant is about what is
  still ahead in the flow (`Ahead`): an attempt that goes on and has its commit behind
  it was accepted and answered (`Taken`), one that has its wait behind it has its
  media ready (`Settled`), one without parts ahead sent the whole file (`Whole`,
  `Contiguous`), and after an answer nothing but a confirmation comes (`ReadAnswer`).
  What the flows have in common is proved of each (`DirectFlows`, `TikTokFlow`).

Only model-checked:

- liveness (`PublishingLeaves`, `DueIsServed`, `PostLeavesWork`, `PostIsServed`,
  `BatchIsServed`, `RunLeavesRunning`, `ActivationEnds`), which rests on fairness and so
  on `ENABLED`.

What a recursive function computes (the sums of lengths, merged lines, a filtered
gallery) would call for the induction theorems of the library, which take an operator
as a parameter. `Recursion` has them in terms of sets instead: `UpTo`, a set that holds
0 and the successor of what it holds has all numbers up to a bound (from `LeastOf`), and
`Recursive`, a rule given as a function defines one.

## What is not modelled

Pixels: the image pipeline (`shared/image_processing.py`), ffmpeg's filters, the
placement of a logo. They keep no state that outlives a call. Prompts, wording,
scores, chat routing and language checks: data without a protocol. The browser
worker (page capture behind HTTP), the notification service (best effort, read by
nobody), the frontend (its calls are the operator actions), deployment and
observability (a redeploy is a restart or a drain). OAuth pages and the refresh of a
platform's token; authentication and roles. How a stored flag of the kill switch is
decoded. Uploads of logos and references, colour extraction and prompt previews of
the brands API, and listings, which change nothing.

A database that fails while a handler of `AgentRuns` settles its message (the
message then waits for its `ack_wait`, the run for the reaper). A message that
JetStream delivers again although its handler finished is a second message of
`AgentRuns`. Two workers share the durable consumers only while one replaces the
other; the model lets them share at any time, as the comments on leases intend.
Time is abstracted to what a test compares: "due", "older than the timeout",
"older than a day", a cooldown of a few intervals. Text edits of a content row leave
the status, the version and the approvals alone and are left out of `ReviewFlow`; a
reviewer may therefore also have missed such an edit, as one may miss a replaced
image. `create_approval` is a plain insert that no page calls.

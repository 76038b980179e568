# Capere AI backend: TLA+ models and proofs

This directory holds formal models of the backend of Capere AI
(`src/backend`), the TLC configurations that check them on small instances, and
theorems about them that the TLA+ proof system (TLAPS) checks for every value
of the constants. The backend is a NestJS program over PostgreSQL. It runs
either as an API with one or more worker processes (BullMQ, polling loops) or as
a managed deployment, in which Cloud Scheduler calls tick endpoints and one
process serves many requests at once. What can go wrong in it, and what a unit
test hardly reaches, is in its durable queues: rows of a table that several
processes claim, hold under a lease or a claim that may run out, and report on,
possibly late or never.

Line references below are relative to `src/backend/src/` unless they start with
`src/`.

## 1. The system: components, state, operations

| Component | State it keeps | Operations | Talks to | What is hard |
|---|---|---|---|---|
| **Transactional outbox and relay** (`shared/events/outbox.service.ts`, `jobs/outbox-relay.worker.ts`) | rows of `domain_events`: claim token, `claimed_at`, attempts, `consumed_at` | publish in the caller's transaction; claim a batch; deliver; mark consumed or failed | written by integrations, commands, recommendations; delivers to the in-process bus and the insights engine | passes that overlap, claims that turn stale under a live pass, a crash after delivery |
| **Scheduler** (`jobs/scheduler.service.ts`, `jobs/job-monitoring.service.ts`) | `scheduled_jobs.next_run_at`, `job_runs`: status, attempts, `claimed_by`, lease, `next_retry_at` | tick: dead-letter, claim retries, claim due jobs, execute each run; operator's retry | dispatches to job handlers (recommendations, GitHub, DataForSEO, reporting, ...) | leases that run out in a long batch, late results, retry by hand, starving of due jobs |
| **Knowledge ingestion** (`rag/rag-ingestion.worker.ts`, `rag/rag.service.ts`, `rag/cli/rebuild-vectors.ts`, `rag/*-vector.store.ts`) | `rag_ingestion_jobs`, `rag_documents`, versions, chunks, the vector store, stored files | upload, rebuild command, claim, heartbeat, ingest, purge, succeed, fail | object storage, embeddings, pgvector or Qdrant | a lease checked and then used outside any transaction, partial vector writes, jobs of one document in any order |
| **Chunker** (`rag/chunking.ts`) | none: a loop over a text | `chunkText` | called by `ingest` | boundary arithmetic, text skipped or repeated |
| **Insights engine** (`insights/insights.engine.ts`, `insights/generators/*`) | `insights` rows by dedupe key | run for an event, sweep, dismiss resolved | called by the relay and the scheduler; announces to the outbox | swallowed generator errors, sweeps out of order |
| **Recommendations** (`recommendations/recommendation.service.ts`) | `recommendations` rows, status history | generate, dismiss stale, guarded transitions | reads insights, announces to the outbox | rows read outside the transaction that updates them |
| **Automation commands** (`automation/automation.service.ts`) | `automation_actions` status | create, approve, claim, execute once | scheduler or queue, GoHighLevel | a provider call that may or may not have happened |
| **GitHub change requests** (`integrations/github/github.service.ts`) | change-request status, branch and pull request on GitHub | approve, execute, retry | queue, GitHub API | errors before the `try`, retries that must find what a lost attempt made |
| **GoHighLevel connections and tokens** (`integrations/integration.service.ts`, `integrations/ghl/ghl-oauth.service.ts`, `ghl-token.service.ts`) | OAuth states, locations and their organization, encrypted credentials | authorize, install (one location or an agency), private token, refresh, disconnect | GoHighLevel | two advisory locks that do not exclude each other; a rotated refresh token in flight across a disconnect |
| **Google connections and sync** (`integrations/google/*.ts`) | authorizations, integrations, jobs, daily data and its cursor | authorize, discover and match, connect, refresh, sync, disconnect | Google, scheduler | five transactions in a row; an older answer that commits last |
| **GoHighLevel webhooks** (`integrations/ghl/ghl-webhook.service.ts`) | webhook log by dedupe key | verify, deduplicate, log and publish | outbox, connections | at-least-once deliveries, a location that changes hands |
| **SEO websites and audits** (`integrations/dataforseo/*`) | `seo_projects`, audits, jobs | create, set, retire; submit, poll, complete | DataForSEO, scheduler | a purchase inside a transaction; three ways to poll |
| **SEO comparison** (`integrations/dataforseo/dataforseo.service.ts`) | competitors, keyword suggestions | add, rename, remove, measure; suggest | DataForSEO, dashboard | a limit that is counted and then used |
| **Keys of the embedded dashboard** (`integrations/ghl/ghl-seo-dashboard-provisioning.service.ts`, `auth/api-key.service.ts`) | API keys; custom values at GoHighLevel | issue, publish, verify, revoke | connections, sign-in | two systems and no transaction |
| **LLM budgets, usage, router** (`llm/**`) | budgets, usage, alerts | admit, chain of models, record, evaluate | providers, outbox | checked before and charged after a call |
| **Conversations and tool rounds** (`intelligence/**`) | messages of a session | question, live check, rounds, review, transcript | router, tools, knowledge | several messages a request, several requests a session |
| **Knowledge given to a model** (`intelligence/memory`, `rag/vector-semantic.memory.ts`) | facts, cached verdict on the vector store | set, forget, search, snapshot | vector store | a store that is down must not look like one that is empty |
| **Evidence tools** (`intelligence/tools/*`, `integrations/ghl/ghl-business-snapshot.service.ts`) | none | read a period, a pipeline, a snapshot | stored analytics, GoHighLevel | windows, pages, partial failure |
| **Chat endpoint and token verification** (`chat/**`, `auth/auth.guard.ts`, `auth/jwt-verifier.service.ts`) | none but the request | verify, map, answer or stream | conversations | the caller leaves at any moment |
| **Website assistant** (`marketing-chat/**`) | a session's metadata: token hash and the visitor's details | open, ask, leave details | conversations, GoHighLevel | read, merge, write of one JSON column |
| **Organizations, members, sign-in** (`organizations/**`, `auth/*.guard.ts`, `ghl-sso.service.ts`, `seo-dashboard-embed.service.ts`) | members and roles | guard, add, change, remove, sign in | everything | a role read before the lock |
| **Reporting and content drafts** (`reporting/**`) | mart of daily metrics, reports, drafts | refresh, read, report, draft | analytics, insights, router | delete and rewrite beside another refresh |
| **Feature flags and prompts** (`feature-flags/**`, `intelligence/prompts/**`) | overrides; a cache per process | ask, toggle; override, render | everything | a load that was open across an invalidation |
| **Job dispatch, integration worker** (`jobs/job-dispatcher.service.ts`, `jobs/integration-job.worker.ts`, `jobs/queue-registry.service.ts`) | BullMQ queues | enqueue by idempotent id, retry | commands, syncs | redelivery |
| **Managed job endpoints** (`jobs/managed-jobs.controller.ts`) | none | one tick per request | outbox, scheduler, RAG worker | up to 40 requests at once in one process |
| Shared infrastructure, Hermes (re-exports), health, frontend | little or none of their own | | | |

What makes each of the queues correct, in a sentence: *work is claimed by at
most one live owner; who lost the claim can no longer change the row; what is
recorded as done was done; what is recorded as dead has used all its attempts;
and everything ends.* For what
requests do it is: *what belongs to one organization stays with it; limits hold
up to what overlap allows, and the properties say how much that is; and what a
user or the model is told is what the system knows.* Those sentences are the
properties below; each has hazards of its own in `PROJECT.json`, at the line
where it bites.

## 2. Modules

| Module | Models | Kind |
|---|---|---|
| `EventDelivery` | what the outbox promises the rest of the program about an event | abstract specification |
| `Outbox` | the outbox and its relay passes | implements `EventDelivery` (`Promise == INSTANCE EventDelivery WITH ...`) |
| `Scheduler` | `tick` and the operator's retry | state machine |
| `RagIngestion` | documents, chunks, vectors, files and the durable jobs on them | state machine, composes the job queue with the document's state |
| `Chunking` | the loop of `chunkText` | algorithm as a state machine, one round a step |
| `CommandExecution` | what the user who approves a command is promised | abstract specification |
| `Commands` | approved automation actions and change requests, the deliveries that execute them, GoHighLevel and GitHub as their environment | implements `CommandExecution` (`Promise == INSTANCE CommandExecution WITH ...`) |
| `OutboxProofs`, `SchedulerProofs`, `CommandsProofs`, `RagProofs` | theorems about one component | proofs |
| `BackgroundProofs` | theorems about `Advice`, `GoogleConnections`, `SeoWebsites`, and `MCBackground` | proofs |
| `TenantsProofs` | theorems about `GhlConnections`, `Webhooks`, `DashboardKeys`, `Access`, `MarketingChat`, `ModelBudget`, `SeoComparison` | proofs |
| `AnswersProofs` | theorems about `Reporting`, `Knowledge`, `Evidence`, `ChatEndpoint`, `Settings`, `Conversation` | proofs |
| `RequestsProofs` | theorems about `Chunking`, and about `MCRequests` from those of the two modules above | proofs |
| `Advice` | insights and recommendations of one organization | state machine, composes the engine, the job and the users |
| `GoogleConnections` | authorizations, connected resources and their synchronisation | state machine |
| `SeoWebsites` | websites and the audits bought for them | state machine |
| `GhlConnections` | which organization owns a location, and the credentials stored for it | state machine |
| `Webhooks` | signed notifications that become events at most once | state machine |
| `DashboardKeys` | keys and the urls published with them | state machine |
| `SeoComparison` | competitors and keyword suggestions | state machine |
| `ModelBudget` | model calls, the ledger, budgets and alerts | state machine |
| `Conversation` | the requests of one chat session | state machine |
| `Knowledge` | what a model is told before it answers | state machine |
| `Evidence` | periods, pages and parts behind an answer | state machine |
| `ChatEndpoint` | one request to the chat endpoint | state machine |
| `MarketingChat` | the website's assistant | state machine |
| `Access` | members, guards, sign-in | state machine |
| `Reporting` | the mart, what is read from it, drafts | state machine |
| `Settings` | flags, their caches, prompts | state machine |
| `MCOutbox`, `MCScheduler`, `MCRagIngestion`, `MCChunking`, `MCCommands` | symmetry sets, assignments of passes to processes, enumerated texts | instances for TLC |
| `MCBackground` | `Advice`, `GoogleConnections`, `SeoWebsites` in one run | composition for TLC |
| `MCRequests` | `Chunking` and the thirteen modules from `GhlConnections` to `Settings` in one run | composition for TLC |

The operators named `XxxNone`, `XxxAny`, `XxxLate`, ... before a definition
`Xxx` are mutants: the form the definition would have with a plausible bug. With
`Xxx` replaced by such a form TLC finds the property violated, which shows that
the property depends on that line of the code.

### Outbox

One row of `domain_events` is an event; the variables `claim`, `attempts` and
`consumed` are its columns `claim_token`, `attempts` and `consumed_at`. A *pass*
is one call of `OutboxRelayWorker.tick`, in the polling loop of a worker or in a
managed request. `ClaimSelect` and `ClaimCommit` are the two statements of
`claimBatch`; between them the transaction holds row locks and another pass
skips those rows (`RowLocks`). `Deliver` / `DeliverThrows` stand for `bus.emit`
and `insights.runForEvent`: the bus swallows errors, `runForEvent` may throw.
`MarkConsumed`, `MarkFailed` and their `...Throws` forms are the fenced updates
and the case in which they touch no row; the control flow between them
(a failed `markConsumed` falls into the catch, a failed `markFailed` leaves
`tick`) is that of `outbox-relay.worker.ts:69-90`. The clock is the set of
`stale` tokens: `ExpireOrphan` lets five minutes pass for a claim nobody works
on, `Overrun` for one whose pass is still busy. `Crash` and `DatabaseError` can
hit at each point.

### Scheduler

`ClaimRetries` is one transaction (dead-letter what ran out of lease in its last
attempt; claim failed runs that are due and expired ones, oldest first),
`ClaimDue` a second one for the room left in the batch, `ClaimDueThrows` its
rollback when `nextRunAt` does not know a schedule. `Dispatch`,
`DispatchThrows`, `RecordSuccess` and `RecordFailure` are `execute`, run by run.
`snap` is the `attempts` column as it was read at the claim, on which the code
decides between failed and dead-lettered. `claimed_by` is a *process* id, and
`WorkerOf` says which process each pass runs in: one pass per process in the
worker deployment, several in the managed one. `OperatorRetry` is
`JobMonitoringService.retry`.

### RagIngestion

Jobs are `[doc, kind]`, where the kind is `ingest`, `delete` or a rebuild
generation, which is their uniqueness in the table. A worker has one job in hand
and its name stands for the claim token of its last claim. A write to the vector
store cannot be in the job's transaction, so it is two steps: `AssertLease`
(checks and renews, worker in `held`) and the write. A database step re-checks
the claim under a row lock and is one step (`Locking`). The order of `ingest` is
`ReadSource`, `StoreChunks`, `ClearVectors`, `WriteVectors` (one batch at a time
with pgvector, one request with Qdrant), `MarkIndexed`, `Succeed`; of `purge`
`PurgeVectors`, `PurgeRows`, `RemoveFile` (whose error is swallowed), `Succeed`.
Every one of them may throw into `Fail`; the worker may crash, lose its
heartbeat, or be overrun by its lease. The rebuild command is a READ COMMITTED
transaction, so it is two steps: `RebuildInsert` is the statement that lists the
documents which are not deleted and queues their jobs, `RebuildCommit` the
statements behind it and the commit, which set the listed documents to pending
by id. In between the command's rows in `rag_ingestion_jobs` are locked or not
yet visible (`RowLocked`), and everything else goes on. A command that rolls
back has changed nothing and is left out; two commands of one generation would
wait for each other's rows and are taken one after the other.

### Chunking

`text` is the normalised text as a sequence of characters, of which only
"blank or not" matters; `Cut` is one round of the loop, `Refuse` the exception.
Offsets are those of the code (first character 0).

### Commands

A command is a row of `automation_actions` or `github_change_requests`; `status`
is its column, `job` the commands whose scheduled job is enabled. `Call` are the
deliveries of `executeApproved` there may be at one time: the scheduler's run of
an action, or the BullMQ or Cloud Tasks message of a request, each with its
attempts. `Dispatch` makes one, under a fresh id, whenever the job is enabled;
an error or a crash puts it back (`Throw`) while attempts are left. `Claim` is
the conditional update to executing (for a request in a transaction under an
advisory lock), `Prepare` what comes before the try. Then `Write`,
`RecordAction` and `CatchAction` are the action's try and catch; `MakeBranch`,
`PutChange` (one file), `LookupPull`, `OpenPull`, `RecordPull`, `DisableJob` and
`CatchRequest` those of the request, one step for each request to GitHub or
update. The provider's state is `applied`, `branch`, `written`, `pulls`, `open`
and `moved`. A request to it is carried out and answered, refused, or fails; a
failed one may sit in `late` and be carried out at any later time, also after
its caller crashed. Updates may fail before or after their commit.

`CommandExecution` has none of that: a command is unapproved, approved,
executing or over; an action is carried out once, while it is executing, and
then it may succeed but not fail; files are written, and pull requests made of
all of them, once a request is approved and by nobody in particular; the pull
request a row records is one that was made. `Stage` is the mapping.

### Advice

`insight` and `rec` are the status columns, by dedupe key; `GenerateHealth` and
`GenerateGrowth` are the two generators (their drafts are kept by the run),
`GenerateThrows` the error the engine swallows, `DismissResolved` the one update
of a sweep, `PersistSelect` and `PersistWrite` (or `PersistConflict`) the
transaction of a draft, between whose statements another run may commit.
`ReadStale`, `DismissStale`, `ReadActive`, `ProposeSelect`, `ProposeInsert` are
the recommendation job, `Transition` a user, `SweepDies` and `JobDies` a crash.
`emitted` counts the events of an insight, `history` is the latest row of the
status history.

### GoogleConnections

`BeginGoogle`, `ConsumeGoogle`, `StoreAuthorization`, `DiscoverAndMatch`,
`ConnectMatched` (one resource each) and `NoteConnected` are a callback,
`ConnectByUser` and `DisconnectGoogle` the users beside it. `SyncBegin`,
`AccessToken`, `Fetch`, `SyncReviews` and `Persist` are one sync. Which rows an
answer of Google's has is one number, the version of the data it was taken from:
`data` is what is stored, `cursor` what the sync state says of it.

### SeoWebsites

`SetWebsite`, `ProvisionWebsite` and `PostProject` are the three requests that
lead to `createProject`; `ListObsolete` and `RetireOthers` the two halves of
retiring the others. `CheckExisting`, `BuyAudit` and `RecordAudit` are
`submitAudit` under the fingerprint's lock (`SubmissionLost` loses the
transaction, not the purchase); `PollByJob` and `PollByRequest` start what
`AskSummary`, `StoreSummary` finish.

### GhlConnections

`callback` is a request, `refresh` a caller that needs an access token, `owner`
and `integ` the location's mapping and its integration. `ConsumeState` and
`ExchangeCode` are the OAuth callback, `PickLocation` ... `ConnectCommit` one
location of it, `RefreshBegin` and `RefreshCommit` (or `RefreshLost`) a refresh
with the provider's answer awaited inside. A token has an organization it was
granted to (`grantee`) and the number of times it was `presented`.

### Webhooks

`Receive` verifies and looks the location up, `Reject`, `IgnoreUnknown`,
`Process` and `DropDuplicate` write. `Handover` is the location's connection
moving to another tenant in between.

### DashboardKeys

`ReadValues`, `CheckUrl`, `IssueKey`, `PublishUrl` (or `PublishFails`) and
`RevokeOld` are one provisioning of a location, `values` its custom values at
GoHighLevel. `PasteUrl`, `CreateByHand`, `RevokeByHand` are users.

### SeoComparison

`AddReads`/`AddWrites`, `RenameReads`/`RenameWrites`, `RefreshReads`/
`RefreshWrites` are the two sides of the wait for the provider.
`DisableSuggestions` and `CommitSuggestions` are the statements of the keyword
transaction that other transactions come between. `CompetitorsWithinLimit` is
stated as it is inductive: the rows and the domains that additions in flight are
still to write are at most `Limit - 1` and one for each editor. It counts domains,
not requests: of two requests that wait to add the domain of a row, both are let
through while it is there, and when a third removes it one row is written.

### ModelBudget

`Admit`, `CallAnswered` or `AskFails` down the chain, `RecordUsage`, `Evaluate`
and `RecordAlert` are a call; `SetBudget` and `PeriodEnds` what happens beside
it. Costs are small numbers; a threshold is a fraction in whole numbers. Limits
and thresholds are positive, as the checks of the table `ai_budgets` have it
(`supabase/migrations/0003_ai_and_hermes.sql:182,184`).

### Conversation, Knowledge, Evidence, ChatEndpoint

`Conversation`: `Begin` reads the window, `StoreQuestion` appends, `CheckLive`
is the forced check, `Asks`, `UseTools` and `Drafts` the rounds, `Review` the
reviewer and the formatted answer, `Write` one message of the transcript at a
time. `Knowledge`: `StartRun`, `Probe`, `Embed`, `Search` are `snapshot`, with
the store, the collection, the facts and the clock moving beside them.
`Evidence`: three tools in one module, since all three are read, check the
window, read again: `LookForLatest` and `ReadRows` for a period, `ReadPage` for
a pipeline, `OpenSnapshot` and `TakeSnapshot` for the six parts of a snapshot,
`AskReputation` for the reviews on their own; `ConnectSite` and `DisconnectSite`
move the location in between. Of a part that is on offer the model keeps whether
it was read and of which location, which the code does not (`read`, `site`): the
reputation's service finds the location for itself and turns its failures into
zeros (`SafeReputation`), the other five are as `Safe` has them.
`ChatEndpoint`: `Authenticate`, `Accept`, then `ModelAnswers`, `ModelFails`,
`WriteWord`, `EndStream`, and `ClientLeaves` at any of them. `caller` is what was
presented, whether Firebase, the keys' url and the database could be asked, and
the verdict. `Verify` has the order of the code: with Firebase a session cookie
is tried and then an ID token, with both kinds of keys the shared secret and
then the rotating ones, and the error of the first attempt is lost to the second
(`Retried`).

### MarketingChat, Access, Reporting, Settings

`MarketingChat`: `StartSession`; `AskAssistant`, `ReadConversation`,
`StoreVisitorQuestion`, `StoreReply`; `LeaveDetails`, `ReadMetadata`,
`SaveDetails`, `SendDetails`. `Access`: `ManageMember` passes the guards,
`CheckMember` and `WriteMember` are the transaction under the organization's
lock; `AddMember`, `SignIn` and `EmbedSignIn` write without it. `Reporting`:
`ReadDaily`, `ReadInsights`, `DeleteWindow`, `InsertRows` are a refresh,
`ReadForReport` and `WriteReport` the executive report, `RequestDraft`,
`LookForDraft`, `DraftEnds` a draft; `ShowQueries` is the weighted position as a
function. `Settings`: `AskFlag` and `Remember` are a load that another process's
`WriteOverride` and `Invalidate` may come between; `Render` a prompt. A process
has one load open at a time in the model, where the code lets each request that
finds no fresh entry begin its own.

### MCBackground and MCRequests

The components of these two modules share no state that their properties tell
apart. So a behaviour runs *one part* of one component, named by the variable
`part` and chosen in the first state, and everything else rests; a property of
the run speaks of every component, and holds trivially in the parts that leave
its variables alone. The run is the sum of its parts, not their product. The
properties of a run are conjunctions of the components' named ones
(`TenantsKeptApart`, `LimitsHold`, ...), grouped by what they promise; each
conjunct has its own definition and comment in its component's module.

## 3. Runs

"Faults" are bounded by a counter in a guard (`MaxFaults`, `MaxOverruns`,
`MaxRetries`, `MaxRebuilds`, `MaxMishaps`, `MaxAdviceFaults`, ...), and so are requests and
changes from outside in the components of `MCBackground` and `MCRequests`
(`MaxTransitions`, `MaxSiteRequests`, `MaxCallbacks`, `MaxInquiries`,
`MaxQuestions`, `MaxAccess`, ...). Nothing else is bounded but the number of
events, runs, documents and rows.

| Run | Instance | What it shows |
|---|---|---|
| `outbox` | 2 passes, 2 events, batches of 2, 2 attempts, 2 faults, 4 tokens | `OneLiveOwner`, `ConsumedWasDelivered`, `SettledIsFinal`, `ImplementsDelivery`, and with fairness `EveryEventSettles` |
| `outbox_twice` | the same | violation of `NoConcurrentDelivery` (deviation 1) |
| `scheduler` | 2 processes over 2 runs, or one over 3, so that retries fill a batch; batches of 2, 2 jobs, one of them with a cron schedule, 2 attempts, 1 operator retry, 2 faults | `DeadLetterIffExhausted`, `OneLiveAttempt`, `SuccessWasDispatched`, `SuccessIsFinal`, and with fairness `EveryRunEnds`, `DueJobRuns` |
| `scheduler_cron` | the same, 2 runs | violation of `EveryDueJobRuns` (deviation 5) |
| `scheduler_late_result` | 2 passes in one process | violation of `DeadLetterIffExhausted` (deviation 2) |
| `rag_workers` | 2 workers, Qdrant, 3 attempts, 3 faults, no rebuild, no overrun | `IndexedIsServed`, and with fairness `JobEndsOrStrands` |
| `rag_fenced` | 2 workers, pgvector, a delete job, and two of: a rebuild whose statements others come between, a fault, an overrun; 2 attempts (1.1 million states) | `DeadLetterIffExhausted`, `SuccessIsFinal`, `PurgedIsFinal` |
| `rag_drain` | 1 worker, 1 fault | violation of `QueueDrains` (deviation 3) |
| `chunking_lost` | texts up to 10 characters, one option set | violation of `AllKept` (deviation 4) |
| `commands` | 1 automation action, 1 change request of 2 files, 2 deliveries of 2 attempts at a time, 2 faults, 1 crash, 1 closed pull request | `OneExecutor`, `AppliedAtMostOnce`, `OutcomeIsTrue`, `PullIsWhole`, `ImplementsExecution`, and with fairness `ApprovedSettles` |
| `background` | 6 parts: two sweeps; two jobs beside a sweep; syncs of one resource; callbacks beside users; website requests; audits of a website (58,000 states) | `AdviceIsConsistent`, `StoredIsTrue`, `DecisionsStand`, and with fairness `BackgroundSettles` |
| `requests` | 21 parts of the remaining modules, two actors each (421,000 states) | `ChunksBounded`, `RefusedOnlyIfLong`, `ShortWordsKept` over all texts of letters and blanks up to 10 characters, 18 option sets, 2 limits; `TenantsKeptApart`, `LimitsHold`, `AnswersAreHonest`, `StepsKeepTheirBounds` |

What the grouped properties consist of:

- `AdviceIsConsistent`: `AnnouncedOnce` (an insight is announced when its row is
  new, and never again) and `HistoryIsCurrent`. `StoredIsTrue`:
  `CursorTellsData`, `NotedWasLinked`, `SomeWebsiteActive`, `RetiredIsSilent`,
  `AuditBoughtOnce`. `BackgroundSettles`: `WarningsSettle`,
  `AdviceFollowsInsight`, `DataCatchesUp`, `AuditCompletes`. `DecisionsStand` is
  one property: settled advice does not come back, and advice a user has taken
  up or settled is changed by users only, unless a run of the job had read it
  while it was open (`Decided`).
- `TenantsKeptApart`: OAuth states used once, credentials only of the owner of
  the location, a refresh token presented once, an event published once and
  accepted only with its event, a published dashboard key that is live, every
  key accounted for, an owner in every organization, a visitor's token kept.
- `LimitsHold`: spend overshoots by no more than the calls in flight, an alert
  for each threshold crossed, once; competitors, with the domains still to be
  added, within their limit up to the requests in flight, metrics of the domain shown, the latest suggestions, no
  draft paid for twice.
- `AnswersAreHonest`: rounds and transcripts well formed, sources that were
  read, formatted answers where the code promises them, streams that end,
  dialogue as it is, callers admitted by a good API key or by a good token of a
  configured key and by nothing else, and told that they have expired when they
  have (`VerdictIsRight`), windows of one length, pipelines called complete that
  are, numbers on offer that were read (`OffersWereRead`), silence about the knowledge base only when it was
  searched, nothing foreign or expired told, recent flags, complete prompts, one
  reading in the mart, details kept, replies behind their question.
- `StepsKeepTheirBounds`: a live mapping is not taken over, every location of an
  agency is tried, an event goes to the tenant its reader saw, roles change only
  through who may change them.

Many of these carry an exception, such as "unless a refresh in flight revived
it". The exception is a history variable set by the very step the code allows to
go wrong, so that the property says precisely when it holds; the steps are
listed at the end of section 4.

**Why these bounds.** Every hazard of the queues is a race of two actors about
one row, or of a row with its batch, so two passes or workers and two rows are
needed and suffice for the shape of each. Two attempts separate the last attempt
from an earlier one. Two faults (in `rag_fenced` two of a fault, an overrun and
a rebuild) allow a fault in the recovery from a fault (a crash of the pass that
took over an overrun claim). Four tokens are enough in `Outbox`: two passes hold
one each and each of the two rows at most one, and one that nobody holds is
always free for the next claim unless all four are held, in which case both
passes are already working. What does not depend on the bounds is proved
(section 5). In the parts of `MCBackground` and `MCRequests` two actors meet
over one or two rows, each with at least one step of the other between any two
of its own; the gates of those modules and of `MCScheduler` give a part only
what its hazard needs, so that the parts stay small enough to be explored whole:
`SweepsOnly` and `JobsAndASweep` (two sweeps need no job; two jobs need one
sweep), `SyncsOnly` and `FlowsOnly` (syncs race each other about one resource;
callbacks race users about two), `SitesOnly` and `AuditsOnly`, `OneLocation` and
`AnAgency` (one location with refreshes, or two in one installation without),
`OneRequest` and `ShortRequests` (one question with two rounds of two tools, or
two overlapping ones with one call each), `TwoMishaps` (of a failure, a change
of the budget and the end of its period, two), `FewInsights` (four moves, or
three with insights among them). A stored day of analytics counts 1, a page has
two rows, a window two days: enough for a full, a short and an empty page, and
for a day inside, at the edge of and outside a window. In `Chunking`, targets of
3, 5 and 6 with overlaps up to 5 make the 60 % break, the overlap and the
minimum step decide in each order.

**Deadlock.** The scheduler's loop never stops (a tick with nothing to do is a
step), so its runs check for deadlock. `Commands` does not
stop either, as the job of an action is never disabled. `Outbox`, `RagIngestion`
and `Chunking` end: all events settled, all jobs over, the text consumed; and so
do the parts of `MCBackground` and `MCRequests`, when the requests they bound
are over.

**Fairness.** `Outbox` and `RagIngestion` assume weak fairness of each pass or
worker: the code's loops poll again after every pass, whatever it threw
(`outbox-relay.worker.ts:96-123`, `scheduler.service.ts:393-412`, `rag-ingestion.worker.ts:30-36`), and a managed
deployment is called again by Cloud Scheduler. A rebuild that got through its
first statement gets to its commit. `Scheduler` assumes it of `Tick(p)`.
`Commands` assumes weak fairness of each delivery in
hand and strong fairness of dispatching each enabled job: due jobs are claimed in
the order of `next_run_at`, so none waits behind the others for ever. In
`MCBackground` a run of the engine or of the job that has begun goes on
and is started again (weak fairness of `SweepStep`, `JobStep`; the scheduler's
loop), a sync and a poll likewise; the health generator of a sweep, the polling
job and the sync's requests to Google each succeed now and then (strong
fairness): a scheduled sweep runs all generators whatever events arrive, and an
enabled job is due again after each run. A provider that never answers is
outside that. As a behaviour has one part, the fairness conditions of all parts
are merged into seven. The parts of `MCRequests` have no liveness property and
assume no fairness: a request ends or its process dies. Time is
fair: a claim or a lease that nobody holds runs out, a back-off ends.
In the queues fairness is of the whole pass, not of its single steps, so none of
their runs assumes that a delivery, a handler or a step of ingestion succeeds. Faults are not fair and
their number is bounded, so liveness is a statement about what happens once they
stop. An event whose delivery kills the process each time is outside this: it
records no attempt and is claimed again without end.

## 4. Where the code departs from what is written about it

Each of these is a run that TLC ends with a counterexample.

1. *An event can be delivered twice at the same time*
   (`shared/events/outbox.service.ts:86`). A batch of 50 is claimed once and
   processed one by one; the claim is never renewed and is stale after five
   minutes. The comment at lines 77-80 promises the opposite. The rows stay
   consistent (`OneLiveOwner`, `SettledIsFinal`), only the delivery is
   duplicated.
2. *A run can be left failed with no attempts to retry*
   (`jobs/scheduler.service.ts:230`). The update is fenced by the process id, so
   the late result of one tick is recorded against the later attempt of another
   tick of the same process. It is neither claimed nor dead-lettered again until
   an operator retries it. With one pass per process this cannot happen
   (theorem `DeadLetterCorrect`).
3. *A knowledge job is stranded when its worker dies in the last attempt*
   (`rag/rag-ingestion.worker.ts:92`): the scheduler sweeps such runs, the RAG
   worker does not.
4. *The chunker can skip text* (`rag/chunking.ts:78`): when a chunk ends early at
   a blank, the next one still starts at `start + step`. `ShortWordsKept` says
   when this cannot happen.
5. *A due job with a cron schedule never runs, nor do those claimed with it*
   (`jobs/scheduler.service.ts:115`). `nextRunAt` throws for it (line 385) inside
   the transaction of `claimDue`, which takes back the runs of every job of that
   batch; `next_run_at` stays, so it is the same in each later pass. ADR-0007
   (line 50) promises such a schedule is "treated as hourly. A job running more
   often than requested is a better failure than one that silently never runs";
   the README of the repository (line 122) says it is rejected. `DueJobRuns` is
   what remains: a due job runs unless one with a cron schedule is due.

Also seen while modelling, and within the reach of these modules with other
constants:

- `repository()`, `token()`, the credentials and the validation run after the
  claim and outside the try (`integrations/github/github.service.ts:224`,
  `automation/automation.service.ts:106`): a single error there, a failed claim
  acknowledgement or a crash leaves the row executing with nobody at it
  (`Held`), and every later delivery is refused. For an action that is what the
  comment at lines 93-96 wants; for a request it is not what the comment at
  `github.service.ts:315` says ("Leave the command approved so BullMQ can retry
  it"). `ApprovedSettles` counts a held command as an end.
- A request whose base moved before its branch was made is tried every hour for
  ever: no code sets its status to failed or cancelled (`Outdated`).
- The catch of a request sets approved whatever the row has become
  (`github.service.ts:311-323`). When disabling the job fails after the pull
  request was recorded, the request is executed again; if the pull request has
  been closed by then, a second one is opened. If the job was disabled and only
  the acknowledgement lost, a request can stay approved with no job to run it,
  which is why `ApprovedSettles` asks for an enabled job.
- Two chunks of one document can be equal (`rag/chunking.ts:67`, periodic text),
  which `supabase/migrations/0007_phase2_rag.sql:73` refuses, so that such a
  document cannot be ingested.
- The rebuild command with a repeated generation takes a running job away from
  its worker without waiting for it; with two workers, or with a retried ingest
  beside a rebuild, a document can end up indexed while its vectors are
  incomplete. So it can when a worker is overrun by its lease between
  `assertLease` and its call to the vector store (`rag/rag.service.ts:245`): on
  Qdrant `IndexedIsServed` is violated with one rebuild, or with one overrun.
  `rag_workers` therefore has neither.
- An ingest job retried after a purge whose file removal failed brings the
  document back (`rag/rag.service.ts:278`), and so does a worker that had read
  the source before the purge. A rebuild that listed a document before it was
  purged sets it from deleted to pending, as its last statement looks at the id
  only (`rag/cli/rebuild-vectors.ts:49-53`); the job it queued then fails, as
  the file is gone. `PurgedIsFinal` therefore speaks of documents whose file is
  gone, that no worker is ingesting and no rebuild has listed (`Purged`); of
  those it says that they stay so and that none of their passages or vectors is
  stored again.
- A fault between the two steps of a job run is not undone by the fence: a
  handler that returned, but whose result could not be recorded, runs again
  (`jobs/scheduler.service.ts:206-231`), and an event that was delivered, but
  not marked, is delivered again (`jobs/outbox-relay.worker.ts:69-90`). No
  property forbids either: handlers and listeners see a thing at least once and
  have to be idempotent.

By component, in the modules added later (each exception in a property names one
of these, and most are reached in the run, where the property holds *but for*
them):

- *Insights* (`insights/insights.engine.ts:78`). A generator that throws is
  logged and the event counts as consumed, deliberately; the next sweep makes up
  for it, which is what `WarningsSettle` asks.
- *Recommendations.* A run of the job reads what is open and then dismisses it by
  id (`recommendations/recommendation.service.ts:126-148`), without looking at
  the status again: what a user has started or completed in between becomes
  dismissed, which the table of transitions (lines 27-34) does not allow.
  `DecisionsStand` excepts the runs that had read it (`Dismissing`).
- *GoHighLevel connections.* A refresh in flight writes by integration id alone
  and sets a revoked integration connected again
  (`integrations/ghl/ghl-token.service.ts:59`). The end of an agency's location
  pages is told by a short page after filtering, so that locations can be missed
  (`Listed`).
- *Google.* A disconnect leaves `authorization_id` and the job, so that the next
  sync sets the integration connected; the sync's watermark is computed before
  the lock; a crash between storing an authorization and noting what was
  connected leaves the note out; reviews are written apart from the rest.
- *Webhooks.* A rejected delivery, or one that came before the location was
  connected, takes the dedupe key; the genuine one that follows is dropped.
- *Websites and comparison.* Two requests that overlap can each retire what the
  other created, so that no website is active. Competitors are counted before
  they are written; adding a domain that exists bypasses the limit and renames;
  overlapping refreshes lose a snapshot; keywords of Search Console are never
  disabled.
- *Dashboard keys.* `revokeKeyFromUrl` revokes the key of whatever url stands in
  the value, also another location's; revoking a key does not end a session it
  was exchanged for.
- *Budgets.* After a limit is raised a second hard alert of the period is not
  written; errors inside a stream of server-sent events are ignored; the timeout
  of `post` is cleared once headers have arrived; an error in
  `evaluateAfterUsage` fails a call that has been billed.
- *Conversations.* History drops the calls but keeps the results of tools
  (`intelligence/generate-chat-response.use-case.ts:93-98`), where a comment says
  that a result with no preceding call is a protocol violation
  (`intelligence/execution/tool-execution.service.ts:123-125`); `RoundsAreValid`
  speaks of the rounds a request adds. A failed request leaves its question
  unanswered in the session. A draft that the reviewer disapproves of may still
  be delivered. `ToolRegistry.execute` checks neither `mutates` nor
  `toolsEnabled`.
- *Members.* The dashboard's identity can be made the only owner and is reset to
  its role by its next session; a sign-in from GoHighLevel adds a removed member
  again.
- *Reporting.* Insights of the categories `operations` and `analytics` with one
  severity collide on `dashboard_metrics_identity_key`
  (`supabase/migrations/0017_reliability_and_rbac.sql:19-23`), and the refresh
  fails; two drafts share a title when the first 120 characters agree; an older
  refresh may overwrite a newer one; `ensureCmoSchedules` enables jobs that were
  disabled; a query without impressions weighs 1 in the position shown.
- *Evidence.* A limit that is no multiple of the page size reads rows twice and
  still reports a complete pipeline; the dashboard's own reading
  (`reporting/dashboard.service.ts:292`) goes on until a page is empty when
  GoHighLevel reports no total, with a limit that shrinks as rows arrive, so that
  a short page is followed by one that overlaps it (`CompleteIsComplete` speaks of
  readings with a total or of the tool's; a proof without that condition failed
  on this); the reputation of a snapshot may be of a
  location that was connected after the others were asked for, and for reviews
  that could not be read it offers zeros as if they were available
  (`integrations/ghl/ghl-reputation.service.ts:125-142,216-228`), while
  `get_gbp_summary` passes on that they are not (`OffersWereRead` has both
  exceptions); the Search Console and business profile tools take a stale
  latest day for the current one.
- *Settings.* A load that was open when the flag was toggled brings the old value
  back for the cache's lifetime, and other processes keep theirs that long; two
  first setters collide on the unique key; a prompt's checksum is that of its
  source before rendering, and a value that contains a later placeholder is
  substituted again.
- *Chat endpoint.* With Firebase an expired session cookie is tried as an ID token
  and then reported as invalid (`auth/jwt-verifier.service.ts:98-100,187`), where
  the comment above `verify` promises to tell the two apart. An expired token
  signed with the shared secret is tried with the rotating keys when both are
  configured and then reported as having a wrong signature. `VerdictIsRight`
  names the two (`ErrorIsLost`). An aborted stream still gets its `stop`.
- *Website assistant.* Two submissions of details that overlap can leave
  GoHighLevel and the session with different ones.

## 5. Proofs

All proofs are checked by TLAPS for every value of the constants under the named
assumptions of the modules (`OutboxAssumption`, `SchedulerAssumption`,
`RagAssumption`, `ChunkingAssumption`, `CommandsAssumption` and one for each
component of `MCBackground` and `MCRequests`). They say no more than what the
code cannot run without: positive batch sizes, attempt limits and page sizes,
bounds that are numbers, a NULL that is no token, worker, key or organization,
no command of both kinds, `overlap < target`, finitely many documents, calls,
editors, tools and variables of a template, dialogues and templates that are
sequences, positive limits of budgets (which the table demands), and that Google's
data has at least one version. TLC evaluates each on the runs.

**OutboxProofs.** `TypeCorrect`, `LiveOwnerUnique`, `ConsumedDelivered`,
`SettledFinal`, `Refinement`. `OneLiveOwner` is not inductive: a pass that
commits a claim would overwrite a claim it knows nothing about. The inductive
`IInv` adds what the row locks and the token do: a pass at work has a token and
a batch, and no two passes have the same token (`PassInv`); only a row that is
not settled is claimed (`RowInv`); the rows a pass has locked between SELECT and
UPDATE stay claimable, and the locks of two passes are disjoint (`LockInv`); a
pass at work owns no row outside its batch, and every row in it unless its token
has gone stale (`OwnInv`); a pass about to mark an event has delivered it
(`MarkInv`). `Refinement` maps a row to `unpublished`, `pending`, `consumed` or
`dead` and shows each step to be one of `EventDelivery` or a stutter; the
dead-letter view is a predicate in the code (`attempts >= max_attempts`), and
the step that reaches it is `RecordFailure` with the last failure.

**SchedulerProofs.** `TypeCorrect` in both deployments; `SuccessFinal` and
`SuccessDispatched` in both deployments; `DeadLetterCorrect` and
`LiveAttemptUnique` under `OnePassPerWorker`. The strengthening: rows that do
not exist yet are blank, and a run is claimed exactly while it is running
(`RowInv`); a batch holds existing runs and is empty exactly between passes
(`PassInv`); a pass about to record a success has dispatched the run
(`DispatchInv`); and with one pass per process, a pass that still owns a run has
read its current attempts, and loses a run only by lapse of its lease
(`ClaimInv`). Without that assumption `ClaimInv` is false, and deviation 2 is
the consequence.

**CommandsProofs.** `TypeCorrect`, `ExecutorUnique`, `AppliedOnce`,
`OutcomeTrue`, `WholePull`, `Refinement`, for any number of actions, requests,
deliveries, files and faults. `Inv` has a part for each delivery (`CallInv`: a
delivery that is executing has taken its row out of approved; before its write
nothing of an action was carried out or is on its way; it has written the files
before the one it is at) and one for each command (`ActionInv`: a late write
excludes that it was carried out, an untouched or failed row has neither;
`RequestInv`: a pull request, also a late one, has every file). A step of one
delivery disturbs only its own part and that of its command, since no other
delivery executes that command (`StepKeepsInv`). `Refinement` shows each step to
be one of `CommandExecution` or a stutter, which takes a second invariant,
`PromiseInv`: the row of a delivery still at work is executing, so nobody was
told an outcome it could contradict; nothing of a command that was not approved
is on its way; and an open pull request, and one a delivery is about to record,
was made. That an outcome is final is part of it: no action of
`CommandExecution` leaves succeeded or failed.

**RagProofs.** `TypeCorrect`, `DeadLetterCorrect`, `SuccessFinal` and
`PurgedFinal` hold whatever happens: workers that stall past their lease, crash
and come back late, rebuilds, delete jobs, either vector store. `TypeOK` and the
row locks (`Locking`) are enough for them: a late worker reaches the claim's
fence before it can write to the job, and a purged document has no file to be
ingested from. `PurgedFinal` goes step by step (`StepKeepsPurged`): a rebuild
lists only what is active and not deleted, so that its last statement cannot
reach a document that was purged before the first; no worker gets past the
source without a file. `IndexedServed` states `IndexedIsServed` in the regime `Calm`:
no rebuild, no delete job, no live worker that loses its lease; workers crash,
throw, lose their heartbeat and retry in it without bound. Each hypothesis is needed, because each is a way
in which two workers write the vectors of one document at a time (section 4,
"The rebuild command ..."), and the vectors are outside the fenced transaction.
The invariant is `HandInv` (no rebuild is under way, and a job in hand is running, claimed by that worker,
and its lease is good; so no two workers have one document) and `ServeInv`: what
the worker has stored so far is what its place says (`PlaceInv`: before the last
batch exactly the chunks it has left are missing), and a document that says
`indexed` has a job that is running or succeeded (`DocInv`), so a retry that is
about to clear the vectors is never behind a job that is over.

**BackgroundProofs.** Each component has an inductive invariant and a theorem of
its own specification, and the theorems about `BackgroundSpec` follow because a
step of `MCBackground` is a step of one component that leaves the others alone.

- `AdviceCorrect`, `AdviceDecisionsStand`. `AdviceInv`: a transaction that found a
  row is still writing, and a dismissal speaks only of recommendations that
  exist, so that `AnnouncedOnce` and `HistoryIsCurrent` survive every overlap of
  sweeps, jobs and users.
- `GoogleCorrect`. `GoogleInv`: what a callback or a
  sync has read is an authorization that was stored, what a callback has
  connected is linked under its authorization, and a sync's cursor is written
  with the data it read.
- `WebsitesCorrect`. `SiteInv`: the list a request retires from is complete but
  for what was created since (`ListsAreComplete`), and while nothing is
  contested only one request can be retiring others, with its own website
  enabled (`LastOneEnabled`; the newest enabled website is found by
  `LeastExists`). `AuditInv`: an audit is paid for when its task is recorded or
  about to be, under a lock that only one submission has, and everything else
  that was bought was lost to a crash (`BoughtInv`).

`BackgroundTypeCorrect`, `BackgroundAdvice`, `BackgroundStored` and
`BackgroundDecisionsStand` state the four safety properties of the run.

**TenantsProofs.** The same for what keeps tenants apart and for what is
limited, one theorem for each component.

- `GhlCorrect`: an OAuth state is exchanged once, a connected integration has
  credentials, they are of the owner of the location, a refresh token is
  presented once but for what a crash lost, a live mapping is not taken over,
  and each location of an agency is tried. None of these is inductive. `GhlInv`
  adds: one callback at most has consumed a state and not yet exchanged
  (`StateInv`); what a connecting transaction read under the location's lock is
  still so when it commits, and only one commits (`CommitInv`, `OneCommits`);
  a token pair in a callback's hand is nobody else's and unused (`InHandInv`);
  a refresh knows the row it read by its id only, so while the row has that id
  it belongs to whom the pair was granted (`RefreshInv`), which is where the
  single-flight of a process and the new id of a reconnection come in;
  and an issued token was granted to the row that has it (`RowInv`).
- `WebhooksCorrect`: an event is published, or answered as processed, only with
  its log row (`WebhookInv`).
- `KeysCorrect`: what a provisioning knows where it is (`ProvisionerInv`: the key
  in its hand is its location's, published nowhere, and valid unless it was
  lost), in one hand only (`HeldByOne`), hence every live key is published, in a
  hand or known to be stray (`KeyInv`), and every url opens its own dashboard
  unless a user wrote it or its key was lost (`UrlInv`).
- `AccessCorrect`: what was checked under the organization's lock still holds
  when it is written (`AccessInv`): the steps without the lock only add members,
  but for the embedded sign-in, which resets the dashboard's own identity and
  waits for the rows a checked change relies on.
- `MarketingCorrect`: no two conversing requests have one turn (`TurnsDiffer`),
  so a reply stays behind its own question (`AnswersInv`), and a visit's token
  and details outlive every overlap of merges.

- `BudgetCorrect`: an enforced budget is spent to its limit and, beyond that, by
  what the calls admitted before can cost. `Within` counts them while they are
  asking or recording: a call that records moves its cost from the sum allowed
  to the sum spent. `AlertInv` says who still owes an alert: a threshold is
  crossed without its alert only while some call is evaluating or about to write
  it, unless an evaluation was lost or the budget was changed.
- `ComparisonCorrect`: `RoomInv` is the limit of competitors above; a request may
  add a domain only if it read room for it or the domain itself, so a removal
  that puts a listed domain back among those awaited frees the row it needs.
  While no two refreshes of the keywords overlap, what the one under way has
  disabled is all there is (`SuggestInv`), and a measurement that was taken of
  another domain is written only to rows that count as tainted.

**AnswersProofs.** The same for what users and models are told.

- `MartCorrect`: of the days that two readings of the dashboard's mart cover,
  the rows are of one reading (`WindowIsOneReading`), and the weighted position
  is the average (`PositionIsAverage`). A refresh deletes a window and inserts
  its own rows, beside others that do the same with older or newer readings. The
  invariant says why rows of two readings do not stay side by side: readings are
  numbered in their order and their windows advance in it (`RefreshesFit`); the
  rows of a reading are nobody else's (`ReadingsApart`); what one reading found,
  every later one finds too, since stored days stay (`LaterReadsToo`); so an
  earlier refresh that has still to insert meets the identity of a row of the
  later one and fails on the unique key, whatever was deleted between
  (`EarlierMeetsIt`, `Outlasts`).
- `DraftsCorrect`: who drafts holds the advisory lock of its day and title, and
  that draft is not stored (`DraftInv`), so no completion is paid for twice.
- `KnowledgeCorrect`: a model that was not told that the knowledge base is
  unavailable had it searched, and what it was told is its organization's own
  or shared, and was in force. `KnowledgeInv` keeps the facts of a run in force
  as of the time it read them, however the clock and the facts move on.
- `EvidenceCorrect`: periods that are compared are of one length and meet
  (`AnalyticsInv`: the last day looked up has ended, for GA4, or is stored); a
  pipeline called complete was (`PipelineInv`: while nobody adds to it and whole
  pages are asked for, what has been read is the first pages and they were
  full); what a snapshot offers was read, of a location that was connected while
  it was taken, except for the reputation as its property has it (`SnapshotInv`:
  who takes a snapshot counts every location connected since it was begun, so
  that the one the reputation finds later is among them).
- `ChatCorrect`: `HttpFits` says, for each place of a request, which frames have
  been written and which dialogue was passed on, so that a stream ends once and
  whole whenever the client leaves. `CallerFits` ties the verdict to what was
  presented: `RightOf` is proved of every set of keys, credential and outage
  (`VerdictsFit`), and only an admitted request goes on.
- `SettingsCorrect`: a cached flag is kept for `Ttl` from when it was loaded and
  is as recent as what its process wrote, unless a load was overtaken
  (`CacheInv`); a prompt is delivered whole, each variable replaced
  (`PromptIsComplete`, for any template and any finite set of variables).
- `ConversationCorrect`: the transcript is well formed, the sources were read, a
  live check is formatted. Requests of one session interleave their messages, so
  the invariant is by turn (`RequestsFit`): two requests never have one turn;
  while a request thinks the session has nothing of its turn but the question;
  while it writes, what is stored and what is left are together each call once
  and each result once, after its call (`LeftFits`, `StoredFits`).

Totals, substitutions and renderings are recursive functions, whose values are
reached without an induction scheme: of the numbers at which a claim about such
a function fails there would be a least one (`LeastExists`), and its predecessor
contradicts it.

**RequestsProofs.** `ChunkingTypeCorrect`, `BoundedChunks`, `OnlyLongRefused`,
`ShortWordsAreKept`, for texts of any length. `ChunkingInv` says that chunk `n`
was cut at or after `n` steps (which bounds the number of chunks by the length)
and, for texts with short words, that all ink before the next start is kept.
Then the run as a whole: a step of `MCRequests` is a step of one component that
leaves the others alone (`PartSteps`), so the invariants above hold together.
`RequestsTypeCorrect`, `RequestsKeepTenantsApart`, `RequestsKeepLimits`,
`RequestsAnswerHonestly` and `RequestsKeepTheirBounds` state its properties
`RequestsTypeOK`, `TenantsKeptApart`, `LimitsHold`, `AnswersAreHonest` and
`StepsKeepTheirBounds`; `RequestsChunkAlike` states that its chunker is that of
`Chunking`.

**Only model-checked:** liveness (`EveryEventSettles`, `EveryRunEnds`,
`DueJobRuns`, `JobEndsOrStrands`, `ApprovedSettles`, `BackgroundSettles`),
for which the prover has no rule for fairness and ENABLED at this size. Every
invariant and every action property of the runs that pass is stated by a
theorem. `IndexedIsServed` and the two properties of the scheduler under
`OnePassPerWorker` are proved in the regime their runs check, and not beyond.

## 6. What is abstracted or left out

- Wording, payloads, handlers, prompts, embeddings: a handler is a step that
  returns or throws.
- Similarity. A search finds the passages the tenant may see.
- `scheduled_jobs.enabled` in `Scheduler`: jobs are enabled throughout there;
  `Commands`, `GoogleConnections` and `SeoWebsites` have the flag.
- `Commands`: reads of a user's rows; the payload of a command and its validation
  (`Prepare` may fail); the HTTP status of a refusal but for "invalid". Nobody
  but the system writes to or deletes its branches, and the first eight
  characters of two request ids differ. A change request has at least one file.
- The HTML and whitespace normalisation in front of the chunker is the
  assumption that a text neither starts nor ends with a blank.
- Nothing in the repository queues a `delete` job; `QueueDelete` stands for a
  client of the database and is marked so.
- Scores, ranks, backlinks, prices, sums and rankings; which rows an answer of
  Google's has (one version number); the choice of models in a routing policy;
  the layouts of dashboards; rate limits; health checks and read endpoints.
- Couplings between components that no property speaks of: that a webhook's
  event reaches the insights engine is the pass `Deliver` of `Outbox`, not a
  joint state of `Webhooks` and `Advice`. What crosses a boundary is modelled at
  both ends as an action of the environment (`Handover`, `SyncStores`,
  `InsightChanges`, `HealthChanges`).
- Two hazards in the list have no property. A call to the vector store may land
  after its job was taken over (`rag/rag.service.ts:245`): the fence cannot reach
  the store, and `IndexedIsServed` is checked and proved without overruns. A
  refresh token that Google rotated and a crash lost
  (`integrations/google/google-token.service.ts:45`) needs a reconnection, which
  nothing in the code brings about; `DataCatchesUp` asks for an authorization
  that stays refreshable. The errors between the claim and the `try` of a change
  request are in `Commands` as `Held` (section 4).
- Of the evidence tools, those that read a period, a pipeline, reviews and a
  snapshot are modelled. `get_cmo_business_summary`, which asks those tools at
  once and passes on what each answers, and `get_seo_project_summary` are not.
- *Not modelled:* the shared infrastructure (configuration, encryption, database
  access), which the models use as primitives; Hermes, a re-export of
  `intelligence` under an old name, and the health probes, which keep no state;
  the frontend, a user interface on which no promise of the backend rests.

## 7. Plan

The state machines are written, and what the runs check of safety is proved.
What could follow:

1. Liveness of `Outbox` and `Commands` by a ranking argument, once the prover
   reasons about ENABLED.
2. `GoogleConnections` and `ModelBudget` against abstract specifications of
   their own (data that follows its source; an account with a limit), as
   `Outbox` and `Commands` have them.
3. The order of statements inside `repository()` and `token()`, should the code
   move them into the try (section 6).

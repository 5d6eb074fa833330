# Verification of the task service

TLA+ models, TLC runs and TLAPS proofs for the service in this repository: a NestJS application
over PostgreSQL (through Prisma) in which users of a tenant work on the tasks of projects, and
every status change of a task is announced to the project's members by a background processor.
Paths below are relative to the repository; `processor.ts` is
`src/notifications/notification.processor.ts`.

## The system

| Component | State | Operations | Talks to |
|---|---|---|---|
| Task status updates: `src/tasks/tasks.service.ts`, `src/tasks/prisma-task.repository.ts` | rows of `tasks` (status, version), `task_events`, new rows of `notification_jobs` | create, findById, updateStatus (read, transition check, version check, transaction) | PostgreSQL; calls `NotificationScheduler.schedule()` after the commit |
| Notification processor, lease protocol: `processor.ts:163-367` | `notification_jobs` (status, attempts, lease_token, lease_until, available_at), `notifications`; in memory the claimed job and the heartbeat | claimNextJob, processJob, renewLease, recordFailure | PostgreSQL, competing with other instances; reads project members |
| Notification processor, scheduling: `processor.ts:28-161` | `processing`, `closed`, `retryTimer`, `activeRun`; callbacks and timers of the event loop | onModuleInit, schedule, processPending, scheduleProcessorRetry, onModuleDestroy | called by requests, timers, Nest |
| Notification queries: `src/notifications/notifications.service.ts` | none | listForUser | reads `notifications` |
| Lifecycle, health: `src/lifecycle`, `src/health`, `src/database/prisma.service.ts` | `draining`, the connection pool | shutdown hooks, probes | Nest; the processor and the probe read `draining` |
| Authentication: `src/auth` | `users` | register, login, the JWT guard | creates the user's own tenant |
| Tenants: `src/tenants` | `tenants`, `tenant_members` | create, list, the tenant-context guard | every guarded request |
| Projects: `src/projects` | `projects`, `project_members` | create, addMember, access and role guards | tenants; the processor reads the members |
| Request context and errors: `src/observability` | a request id per request | interceptor, exception filter | every request |
| Process: `src/main.ts`, `src/config`, `docker/entrypoint.sh`, `compose.production.yaml` | the environment; the container's process | migrate, validate, listen, close | Docker, Nest, PostgreSQL |
| OpenAPI, wiring, schema | none after start-up | | |

What is hard about it, and what should hold (PROJECT.json has each hazard at its line):

* **Lease protocol.** Several instances, their clocks, queries that are slow, fail, or take effect
  without an answer, and processes that die between any two statements. Two attempts must never
  both be able to settle a job; a job called completed must have reached everybody it was meant
  for; a job must be given up neither early nor never; nothing may come back from its end.
* **Scheduling.** JavaScript runs one callback at a time but everything between two awaits of the
  loop may be anything else: more `schedule()` calls, timers, the shutdown. One loop at a time,
  no wake-up lost, and an orderly end.
* **Task updates.** Two requests read the same version. No change may be lost or recorded twice,
  none may break the transition rules that were checked on another read, the event and the job
  must commit with the row, and the answers must be true.
* **Requests and the process.** Guards, interceptor, pipe, handler and filter each do a part of
  answering a request; the part that throws decides which of the others run. Meanwhile the
  database goes down, another login replaces the hash this one has read, or the process is told to
  stop, and the order in which Nest calls its hooks decides what the probe reports and what Prisma
  still serves. Every request must be answered, answer and log must agree, and a stop must end.
* **Membership.** Memberships are created by concurrent transactions over unique indexes, and the
  tenant of a request without a header depends on how many the user has at the moment. Whoever is
  in a project must be in its tenant, everybody must have a tenant, a role must have one value,
  and what a request is granted must stay in the tenant its guard resolved.

## Modules

| Module | What it is |
|---|---|
| `NotificationDelivery` | What the processor promises about a job, with no clock, lease or worker: queued, attempted, delivered to its audience or abandoned after MAX_ATTEMPTS attempts |
| `NotificationLease` | The lease protocol of `processor.ts:163-367` |
| `NotificationLeaseProofs` | Theorems about it |
| `ProcessorLife` | What the rest of a process relies on about its processor: when a loop may start, be forgotten, end, and when the pool may go |
| `ProcessorScheduling` | When the loops of the instances run: `processor.ts:28-161` and the places where jobs set timers |
| `ProcessorSchedulingProofs` | Theorems about it |
| `TaskUpdates` | What the task service promises: each request takes effect, or is refused for a reason that holds, at one moment |
| `TaskStatus` | Status updates: `tasks.service.ts`, `prisma-task.repository.ts` |
| `TaskStatusProofs` | Theorems about it |
| `Directory` | What registration, tenants, projects and invitations promise: each request takes effect, or is refused for a reason that holds, at one moment |
| `Membership` | Registration, tenants, projects, members, and the guards: `src/auth`, `src/tenants`, `src/projects` |
| `MembershipProofs` | Theorems about it |
| `RequestPipeline` | One request through guards, interceptor, handler and filter: `src/observability`, `src/health`, login in `src/auth`, `src/notifications/notifications.service.ts` |
| `ServiceProcess` | The process around the requests: migration, validation, serving, Nest's shutdown (extends `RequestPipeline`) |
| `ServiceProcessProofs` | Theorems about both |
| `MCNotificationLease`, `MCProcessorScheduling`, `MCTaskStatus`, `MCMembership`, `MCServiceProcess` | Small instances for TLC; the `.cfg` files are the runs |

How they meet: a request for `PATCH /tasks/:id/status` that `Membership.FindTask` answers `ok` is
one that `TaskStatus.Send` starts with; the members that `Membership.InsertMember` adds are those
that join in `NotificationLease`. `TaskStatus` commits the job that `NotificationLease.InsertJob` and
`ProcessorScheduling.Commit` take as given; `schedule()` after the commit is
`ProcessorScheduling.Wake`; in `NotificationLease` an idle worker may look for work at any time,
and `ProcessorScheduling` says when it does; there in turn a job is only *available* or not.
`ServiceProcess` has the processor as a loop that runs or not, which the processor's hook awaits
or has forgotten (finding 4). That much is `ProcessorLife`: the steps of `ServiceProcess` that
concern the processor (`LoopStarts`, `LoopForgotten`, `LoopEnds`, `Signal`, `ReleasePool`) are steps
of it, and `ProcessorScheduling`, in every instance, is proved to implement it, with `Close` and
`Disconnect` for the last two. So what `ServiceProcess` takes for granted about the processor is a
theorem about the processor's own code. The routes of `Membership` are the guarded route of `RequestPipeline`.

Definitions called "Variant" in a comment are the same operation with a plausible bug. No run
uses them as they stand: substituted for the operation they come before, each makes TLC report
the property it is listed with in PROJECT.json ("mutants"), which shows that the property
depends on that line of the code.

### NotificationLease

One worker is one instance's loop together with the heartbeat of its current job. `pc[w]` is the
await the loop is at; an action is the execution of that query in the database, with the code
that its answer leads to. `mem[w]` is the `job` object (`processor.ts:198`), with the `now` that
claimNextJob uses twice and the recipients it has read. `status`, `attempts`, `leaseToken`,
`leaseUntil` and `availableAt` are the columns of `notification_jobs`.

| Action | Code |
|---|---|
| `FindCandidate`, `Claim`, `LoseRace` | `claimNextJob` 163-200 |
| `ReadRecipients` | 231-248 (the two reads are one step: events never change) |
| `RenewBeforeWrite`, `HeartbeatFires`, `HeartbeatRenews` | `renewLease` 309-326, called at 249 and 214-228 |
| `WriteNotifications` | 252-267, with no fence but the unique index |
| `Complete` | 268-290 |
| `RecordFailure` | 328-367 |
| `Settle` | 293-307: waits for the heartbeat's query |
| `QueryFails`, `Crash` | an error from any query; the end of the process |

*Time.* Every fence compares a column with a `new Date()` taken when the query was issued. The
model has real time (`clock`), an offset per worker (`Skew`), and lets a query be executed with
any issue time between the worker's previous answer and now; that is a slow event loop, a slow
network and a slow database in one. `MaxClock` stops the clock and with it the model.

*Failures.* A query may fail without effect (`QueryFails`) or take effect and lose its answer
(`reply = FALSE`): the code cannot tell them apart, the table can.

*Abstractions.* A token is a number that grows with every claim (randomUUID never repeats); a
token drawn by a claim that loses is not counted. Payloads, error texts and logs are left out.
The tenant and existence checks on the event are failures that `QueryFails` already covers. The
members of one project are the only ones, and only grow, as the code never removes any.

### ProcessorScheduling

One step is the code between two awaits. The fields are those of the class. `immediates` counts
the queued callbacks of `schedule()`; `timers[k]` counts the pending timers that job `k`'s set-back
or (`k = ErrorRetry`) a failed loop has set, because the field `retryTimer` keeps only the last
one and the others keep running. `run[r]` is one call of `processPending` past its guard: `count`,
`find`, `found` (the query is executed, its answer on the way), `work`. Separating `find` from
`found` is what shows the lost wake-up and the late claim.

A timer of a job fires after the job's back-off, since it is set later with the same delay; the
field is cleared by whichever timer fires. A call of `processPending` that returns at its guard
still replaces `activeRun` by its own promise, and that promise, settled at once, empties the
field before the event loop continues. The table is reduced to what this needs: `ready`, `delayed`
(back-off), `leased`, `expired`, `done`.

Instances have all of this each for themselves and share the table: `job`, `tries`, and
`setBackBy`, the instance whose timer a back-off is waited for. A claim by one instance overtakes
every run that has found the job (`beaten`: its `updateMany` will match nothing, and the loop ends
as if the queue were empty) or still works on it after its lease ran out (`lost`: its settling
update will match nothing). That is what a token and the `now` of a claim come to, which
`NotificationLease` has in full.

In Nest's shutdown sequence the `onModuleDestroy` hooks come before `beforeApplicationShutdown`,
so `isDraining()` only becomes true after `closed`; the model therefore has `closed` alone.

Under the mapping to `ProcessorLife` an instance is `up` while it is open, `destroying` until Prisma
has disconnected, then `released`. Its loop is `awaited` when the run at work is the one
`onModuleDestroy` waits for: `activeRun` while the instance is open, and what `activeRun` was at the
closing (`awaited[i]`) afterwards. It is `forgotten` when the field has been emptied or points to
something else. A later assignment to `activeRun` therefore changes nothing in a closed instance,
as `await this.activeRun` has read the field already.

### TaskStatus

`Look` is `TasksService.updateStatus` up to the repository call: read, then transition check, then
version check. `ReadAgain`, `UpdateRow`, `InsertEvent`, `InsertJob`, `Commit` are the statements of
the transaction at READ COMMITTED: a statement sees committed rows, `UpdateRow` waits for the row's
lock and evaluates `version = expectedVersion` when it has it, what was written waits in `newRow`,
`newEvents` and `newJobs` until the commit, and `Abort` is any failure, the transaction's timeout or
a crash. A commit may take effect and lose its answer. The in-transaction `not_found` and the empty
re-read (`prisma-task.repository.ts:52, 88`) cannot happen because nothing deletes a task. `by` in
an event is a history variable: which request wrote it.

`TaskUpdates` has none of this: a request arrives, and one step either changes row, history and
outbox together or answers with a reason that is true in that state. `Asked` and the names in
`Updates` are the mapping: a request has arrived when it is no longer unsent, and what a
transaction has not committed does not exist.

### Membership

An action is one statement with the code up to the next one; `at[r]` is the await of request `r`.

| Action | Code |
|---|---|
| `ResolveTenant` | `TenantContextGuard` |
| `ResolveProject`, `CheckAccess` | `ProjectAccessGuard`, with `RolesGuard` for the members' route |
| `InsertUser`, `InsertTenant`, `InsertTenantOwner` | `AuthService.register` 29-55; the last two also `TenantsService.create` |
| `InsertProject`, `InsertProjectOwner` | `ProjectsService.create` |
| `CheckOwner`, `FindInvitee`, `LookUpsert`, `Enrol`, `InsertMember` | `ProjectsService.addMember` |
| `FindProject`, `InsertTask` | `PrismaTaskRepository.save` |
| `FindTask` | `PrismaTaskRepository.findById` |
| `Commit`, `Abort` | the end of a transaction; an answer may be lost, any statement may fail |

The tables hold the rows of open transactions too. A row names the request that wrote it in `by`;
`Committed` and `Visible` are what other transactions and its own see. Ids are random UUIDs, so the
name of the request that creates a row stands for its id. An insert whose unique key is taken waits
for a transaction that is open and fails once it has committed. **Assumption about Prisma:**
`upsert` with `update: {}` is a SELECT followed by an INSERT; Prisma leaves an upsert to the
database's ON CONFLICT only under conditions that an empty update does not meet.

A request carries the token of a registered user (`JwtAuthGuard` reads a user, and users are never
deleted). `Founders` and `Started` are registrations and projects that were served, one after the
other, before the model starts; with both empty the model starts with empty tables.

`Directory` has no guards, transactions, indexes or open rows: a request asks for something that is
there, and one step either writes all of its rows and answers, or answers with a reason that is true
in that state and writes nothing. The mapping takes the committed rows for the tables, what a
request was sent with for what it asks (`Asked`), and its reply for its answer. What the abstract
specification leaves open is what the code leaves open: an error may stand for a change that
happened, a request without a header may be about any tenant of its caller (the guard has read that
there was only one; by the time of the effect there may be more). One step of the code is none of
`Directory`, and `RequestsAreAtomic` names it as its exception: `MistakenConflict`, the invitation
that loses the race of two upserts and is refused as if its user were in the project (see *Findings*).

### RequestPipeline and ServiceProcess

`req[r].at` is the await request `r` is at. The code after the last await (throw or return, log,
filter) is one step.

| Action | Code |
|---|---|
| `Route` | Nest's router; an unknown route goes to the filter at once |
| `Throttle` | the global `ThrottlerGuard` (`app.module.ts:25-53`), skipped by the probes |
| `CheckToken`, `CheckTenant` | `JwtAuthGuard`; `TenantContextGuard` with its answers 400, 403 and, when its query fails, 500 (which of them, and the tenant, is in `Membership`) |
| `Intercept`, `Log`, `Throw`, `Return` | `RequestLoggingInterceptor` before the handler, and around its end |
| `Filter` | `HttpExceptionFilter` |
| `Handle`, `Probe` | the pipe, and `HealthService` |
| `FindUser`, `CheckPassword`, `Rehash`, `Sign` | `AuthService.login` with `PasswordService` |
| `List` | `NotificationsService.listForUser` |
| `Start`, `Migrate`, `Boot` | the restart policy, `docker/entrypoint.sh`, `main.ts` with `validateEnvironment` |
| `Signal`, `ReleasePool`, `Drain`, `CloseServer`, `Exit` | the shutdown: `NotificationProcessor.onModuleDestroy`, `PrismaService.onModuleDestroy`, `ApplicationLifecycleService.beforeApplicationShutdown`, the server |
| `LoopStarts`, `LoopForgotten`, `LoopEnds` | the processor as the process sees it: `schedule`, `processPending` (`ProcessorLife`) |
| `Kill`, `OperatorStarts`, `DatabaseFails`, `DatabaseReturns` | the environment |

`restart: unless-stopped` (`compose.production.yaml:32`) starts a container again when its process has
ended, unless its operator has stopped it. `stopped` is what Docker remembers of that: a `Signal` or
a `Kill` may be the operator's, `Start` requires that the container is not stopped, and only
`OperatorStarts` takes it back, which nobody is obliged to do.

A hash is its kind (`scrypt`, argon2id with the present parameters or with older ones, another
argon2) and the password it is of; salts are left out, so a hash that is replaced by a new hash of
the same kind and password is not seen to change. A token is good or not. A payload is valid or not.
`since` in a request is a history variable: the phase in which a readiness probe arrived.

**Assumptions about the libraries.** Nest calls the guards before the interceptors, sets the status
of a normal answer before the handler, and gives everything thrown, by a guard, the pipe, the
handler or the router, to the filter. On a signal it calls and awaits all `onModuleDestroy`, those
of the modules that use Prisma before Prisma's own (`main.ts:16` relies on it), then all
`beforeApplicationShutdown`, then closes the server, which refuses new requests and waits for those
under way. A query may fail while the database is down; one that is issued after `$disconnect` may
fail, or make Prisma connect again. The hash functions do not throw for a hash that the service has
stored: `verify` would answer such an error with `false`, hence 401, to the right password, too
(the `catch` in `password.service.ts:21-71`).

## Runs

| Run | Instance | What it shows |
|---|---|---|
| `lease` | 2 workers, one a tick ahead; 1 job; 2 users, one joining; lease 2, renewal 1, delays 1 and 2, 2 attempts, 4 instants | the safety properties of the protocol and that it implements `NotificationDelivery` |
| `lease_attempts` | 1 worker, 3 attempts, 7 instants | finding: attempts beyond MAX_ATTEMPTS |
| `scheduling` | 1 instance, 2 jobs, batch of 2, 2 attempts, 1 database failure, 1 restart | the invariants of the fields and timers, that a queued scan reaches every claimable job, and that an instance lives as `ProcessorLife` says |
| `scheduling_lost_wakeup` | 1 job, nothing fails | finding: a job nobody looks at |
| `scheduling_stuck_lease` | 1 job, 1 restart | finding: a job left in processing |
| `scheduling_drain` | 1 job | finding: Prisma disconnects under a running loop |
| `scheduling_fleet` | 2 instances, 2 jobs, batch of 1, 1 attempt | a queued scan reaches every claimable job although a lost claim race ends a loop; every loop ends |
| `tasks` | 1 task, 3 requests, versions up to 3 | the history is a chain, the outbox matches it, replies are true, done is final, every request is answered |
| `tasks_conflict` | 1 task, 2 requests | finding: a loser answered 400 |
| `membership` | 2 users, 2 projects of the first, an address nobody has; 2 further requests of any kind side by side | memberships agree, roles are unambiguous, access stays in its tenant, refusals are true; the requests implement `Directory` |
| `service` | 2 requests of 9 shapes, 1 registered address with an old hash, 3 environments, 1 outage, 1 signal or kill | answers, logs and ids agree; logins are true and harm no password; requests, stops and starts end |
| `service_ready` | 1 probe, 1 signal | finding: ready while the modules are being destroyed |

### Properties

* `OneHolder`: processing exactly while the row has a token; at most one worker has that token.
  `ReleasedByHolder`: only that worker's settling update ends a lease without a takeover.
  `TerminalIsFinal`, `LiveLeaseNotStolen`: what takeovers may never do.
* `CompletedReachedAudience`: a completed job has reached everybody who was a member when the
  status update committed. The members the job *ends up* notifying are read later, so they may be
  more.
* `NoEarlyGiveUp`: although recordFailure looks at a copy made before the claiming update.
* `ImplementsDelivery`: every step of the protocol is a step of `NotificationDelivery` or changes
  nothing it sees (`Phase` is the mapping).
* `OneLoop`, `RetryTimerIsPending`, `SetBackHasTimer`: what `schedule()`, `scheduleProcessorRetry`
  and recordFailure rely on in the fields they share. An instance that has been told that it set a
  job back keeps a timer for it until it closes or ends, whatever fails or restarts meanwhile; while
  nothing fails every waiting job has one. A set-back whose answer is lost gives none (see
  *Findings*). `AtMostOneLateClaim`: closing. `ScanReachesJob` (liveness): a scan that is queued
  while no loop runs reaches every job that can be claimed then. With several instances it is the
  winner of a claim race that goes on with the jobs the loser leaves; if the winner is closing they
  wait for the next scan, which the property allows (`SomeClosed`).
* `ProcessorLives`: the refinement of `ProcessorLife`. A closed instance starts no loop and loses no
  promise, a loop that is started is awaited, and Prisma disconnects under none that was known.
  `EveryLoopEnds` (liveness): what the shutdown waits for comes. It is what `ServiceProcess` assumes of
  `LoopEnds`; it is checked where two instances take jobs from each other and nothing fails.
* `HistoryIsChain`, `OutboxMatchesHistory`, `RepliesAreTrue`, `DoneIsFinal`, the refinement
  `UpdatesAreAtomic`, and `EveryRequestIsAnswered` (liveness) for the task updates. `DoneIsFinal`
  depends on both version checks: without the one in the service, a request naming a future version
  passes the transition check on an old row and reopens a finished task. The unique index over
  (taskId, version) is a second line of defence: without the condition of the update, it is what
  refuses the change.
* `MembersWithinTenant`: an invitation may skip the enrolment because another request has enrolled
  the user; it may not rely on one that is rolled back. `EveryUserHasHome`, `RefusalsAreTrue`:
  what a transaction that failed half-way, or was refused by its second insert, leaves behind.
  `RolesAreUnambiguous`: one role per user, one owner each. `GrantedInTenant`: the guards and
  services read at different moments; what they grant together is within the tenant.
  `RequestsAreAtomic`: and yet every request is judged and served as if at one moment, the refinement
  of `Directory`, with `MistakenConflict` as the one exception. A transaction that fails at its commit
  and is answered as if it had not breaks it; without the exception TLC finds it violated.
  Several checks are made twice (owner, tenant of the project), so that no single one of them can
  be dropped to break it; membership of the project in `CheckAccess` is the one that can.

* `AnswersAgree`: one log line, with the code and the id of the answer, for every request that got
  past its guards; the error's body and header have one id. `LoginsAreTrue`, `PasswordsKeepWorking`,
  `LoginUpgradesHash`: what logins that replace the hash others have read, fail with the update or
  are killed after it may not do to an account. `EveryRequestEnds`, `SignalEndsProcess`,
  `ServiceComesBack` (liveness): no failure leaves a request without an answer, no hook waits for
  ever, and a valid environment is enough to be up again, unless the operator has stopped the
  container.

### Bounds

Two workers are enough for a race, a takeover and a late holder; a third one is a second holder that
lost its lease, whose token is as useless as the first one's. One job in `lease`: jobs share no row,
and their order matters to `ProcessorScheduling`, where there are two. Two attempts cover first,
last and the one over the limit; lease 2 and four instants let a lease be claimed, renewed, run out
and be claimed again, with a back-off in between. Two jobs and batches of two reach a full batch
with a job left (one attempt whose lease ran out counts towards it). Three requests give a winner, a
loser at the lock and one that comes late; versions up to three let a request name a version that
does not exist yet. In `membership` two requests are every race of two, from a state with a project
each invitation can name and one it can miss; what a third one would add is a history before them,
and the served requests are that history. (`NewRequests = {r1, r2, r3}` with `MCStarted = {p1}`
passes too; it is 2.6 million states and takes two minutes.) The names of the requests to come are a
symmetry set; no liveness is checked there. In `scheduling_fleet` batches of one make every job a
race of its own, and the loser a loop that has nothing else; it passes with one restart too (252,421
states, 150 seconds). In `service` two requests are two logins side by side, or a login and a probe;
one stop is a signal or a kill, and what is killed half-way through a shutdown is only a process
that never came to `Exit`. `MaxClock`, `MaxFaults`, `MaxRestarts`, `MaxExpected`, `MaxOutages` and
`MaxStops` are the bounds that exist only in the models. `CHECK_DEADLOCK` is off in all runs: the
clock stops, no more requests come, and a closed service does nothing.

### Fairness

`NotificationLease` states none: its properties are safety properties, and its clock stops.
`ProcessorScheduling` assumes that the event loop runs queued callbacks and due timers, that
statements are answered (an error is an answer), that a request whose transaction committed calls
`schedule()`, and that time passes. `TaskStatus` assumes that statements are answered and a free row
lock is given to a waiting statement; `Abort` has no fairness, so that a request is never answered
only because something failed. Nobody is obliged to send requests, and failures, closing and
restarting are never obliged. With `MaxFaults` the failures end some day, without which no retry
could succeed. `Membership` states no fairness: its properties are safety. `ServiceProcess` assumes
that a container is restarted unless its operator has stopped it (nobody has to start it again),
that requests under way go on, that the hooks are called one after the other, that the processor's
loop ends some time (`EveryLoopEnds` of `ProcessorScheduling`, which follows there from statements
being answered), and that a database that is down comes back; a query that is repeated may fail
every time.

## Findings

Places where the documents, comments or tests say something else than the code does. Each has a
run whose counterexample is the scenario.

1. **Attempts have no limit** (`lease_attempts`). A claim of an expired lease counts an attempt
   without comparing it with MAX_ATTEMPTS (`processor.ts:182-196`); only recordFailure compares.
   `openspec/specs/task-notifications/spec.md:36,41`.
2. **A wake-up may be lost** (`scheduling_lost_wakeup`). `schedule()` returns while `processing` is
   set (`processor.ts:61`); a job that commits after the last `findFirst` was executed waits for
   the next request. `openspec/specs/task-notifications/spec.md:22`. A back-off timer that fires in
   that window is lost the same way.
3. **A job may stay in processing** (`scheduling_stuck_lease`). No scan is tied to the end of a
   lease. `openspec/specs/task-notifications/spec.md:85`.
4. **Prisma may disconnect under the loop** (`scheduling_drain`). `activeRun` is overwritten by a
   call that did nothing (`processor.ts:70-82`). `openspec/specs/production-runtime/spec.md:32`.
5. **The loser of a race may be answered 400** (`tasks_conflict`). The transition check comes
   first (`tasks.service.ts:60-68`). `openspec/specs/task-status/spec.md:39-40`,
   `test/app.e2e-spec.ts:552`.
6. **Ready while stopping** (`service_ready`). `draining` is set in `beforeApplicationShutdown`, which
   comes after every `onModuleDestroy` (`application-lifecycle.service.ts:8-13`); a probe in between
   is answered 200. `openspec/changes/shutdown-drain/specs/production-runtime/spec.md` and the
   comment at `application-lifecycle.service.ts:9`.

Seen while modelling, and part of the models, without a run of its own:

* An exception of a guard, and an unknown route, never reach the interceptor: such a request is not
  logged, and is answered with a drawn id whatever `x-request-id` it brought (`Filter` with no `id`;
  `openspec/specs/request-observability/spec.md:11, 25`).
* `JwtAuthGuard` catches everything (`jwt-auth.guard.ts:44`): while the database is down a good token
  is answered 401, not 500 (`CheckToken`).
* Requests that are served between `$disconnect` and the closing of the server may open the pool again
  (`QuerySucceeds` in the phase `released`).
* `renewLease` takes its time before it waits: the heartbeat's renewal may be applied after the one
  before the write, with an older time, and move the end of the lease back (`HeartbeatRenews`).
* Of two invitations of one user to two projects of a tenant one may be refused with 409
  "用户已经是项目成员" (is a member of the project already), although the user is only in the tenant
  (`projects.service.ts:61, 71-77`; `MistakenConflict`). `openspec/specs/project-membership/spec.md:26-27`
  has the user become a member, and `:36` keeps 409 for those who are. It rests on the assumption
  about Prisma's `upsert` above, which is not code of this repository, and so it is an exception that
  `RequestsAreAtomic` names and not one of the findings; the scenario is what TLC reports when the
  exception is taken out.
* The update in recordFailure may take effect and lose its answer (`processor.ts:336`): the run is
  rejected, and the job that was set back has no timer of its own (`WorkFails`). It waits for the next
  scan that starts after its back-off, and when nothing else happens there need not be one: the timer
  of scheduleProcessorRetry, after 1000 ms, may fire before the 2000 ms of a second attempt are over,
  find nothing, and set no other.
* A member who joins a project after an attempt has read its recipients and before it completes is not
  notified (`processor.ts:242, 252-290`); one who joins between the status update and the read is.
  `openspec/specs/task-notifications/spec.md:26-27` asks for every "current" member and leaves open
  when; `CompletedReachedAudience` holds the attempt to those of the status update.

## Proofs

`NotificationLeaseProofs` proves, for every finite or infinite set of jobs, workers and users,
every skew, and every duration that `ConstantsAssumption` allows:

| Theorem | Statement |
|---|---|
| `TypeCorrect` | `Spec => []TypeOK` |
| `OneHolderAlways` | `Spec => []OneHolder` |
| `CompletedReachedAudienceAlways` | `Spec => []CompletedReachedAudience` |
| `NoEarlyGiveUpAlways` | `Spec => []NoEarlyGiveUp` |
| `TerminalIsFinalAlways` | `Spec => TerminalIsFinal` |
| `ReleasedByHolderAlways` | `Spec => ReleasedByHolder` |
| `LiveLeaseNotStolenAlways` | `Spec => LiveLeaseNotStolen` |
| `ImplementsDeliveryAlways` | `Spec => ImplementsDelivery`, the refinement of `NotificationDelivery` |

The inductive invariant has four parts. `MemoryInv`: a loop that is not idle has a job of the
table in memory, and no token while it claims. `TokenInv`: tokens in rows and memories were all
issued, no two rows and no two workers have the same one, and a worker whose token is in a row
works on that row's job; `OneHolder` alone is not inductive, because it does not say that a fresh
token is not yet in anybody's memory. `AttemptInv`: the copy of `attempts` in a claiming or holding
worker is never ahead of the row, which is what makes recordFailure's decision on the copy safe.
`AudienceInv`: the audience of a job is contained in the members of every later moment, hence in
the recipients any attempt has read, hence in what was written when the attempt completes.

The argument for a step goes through `StepKinds`: whatever action it is, a step leaves the tokens
alone, installs a fresh one, settles a job its worker holds, drops a worker's memory, or inserts a
job; `TokenNext` and the others look at these five instead of the actions. `TLC` checked every
part of the invariant on the instance of `lease` before it was proved.

`LiveLeaseNotStolen` needs a fact about time that the invariant does not have: `ClaimsAreDated`,
the `now` of a claim under way was read from the worker's own clock in the past. A claim takes a
job over only if its lease ends at or before that `now`, so a lease that ends after every clock's
present is safe, however long the claim was on its way. The refinement is shown step by step: the
phase of a job is read off its status (`PhaseUpdate`), the insert is `Enqueue`, a claim that wins
is `Begin`, the write is `Notify`, and the update that passes the fence is `Deliver`, `Requeue` or
`Abandon` (`SettlingEnds`). `Deliver` uses `AudienceInv`, `Abandon` uses `AttemptInv`; the rest of
the protocol, the clock, the heartbeats, lost replies and crashes, changes nothing the abstract
specification sees.

`TaskStatusProofs` proves, for every set of tasks and requests that `TaskAssumption` allows (the
proofs never use `MaxExpected`, except that it is a natural number):

| Theorem | Statement |
|---|---|
| `TypeCorrect` | `Spec => []TypeOK` |
| `HistoryIsChainAlways` | `Spec => []HistoryIsChain` |
| `OutboxMatchesHistoryAlways` | `Spec => []OutboxMatchesHistory` |
| `RepliesAreTrueAlways` | `Spec => []RepliesAreTrue` |
| `DoneIsFinalAlways` | `Spec => DoneIsFinal` |
| `UpdatesAreAtomicAlways` | `Spec => UpdatesAreAtomic`, the refinement of `TaskUpdates` |

`HistoryIsChain` speaks of committed rows and says nothing of what transactions are about to
commit, so it is not inductive. The invariant adds: `LockInv`, a request between its update and
its commit owns the row's lock, and nobody else does; `ReadInv`, such a request has read the
version and the status the row still has (`Knows`), and what it has written so far is the row, the
event and the job of the next version; `ChainInv`, each task's events are linked up to the row
(`Linked`); and `AuthorInv`, events come from requests that were answered ok or error, and an ok
has its event. `ReadInv` is where the two version checks and the lock are used: a version never
comes back, so the row that has the expected version at the update is the row that was read and
checked. `CommitAdds` draws the conclusion, one link added to one chain, and the theorems about
the history, the outbox and `DoneIsFinal` follow from it; `TablesChange` says that only a commit
and a creation touch the tables. In the refinement a commit is `Change` (`CommitChanges`, again by
`CommitAdds`: what was checked long before is true when the tables change); every other statement
is `Refuse` with the reason its guard has just seen, or nothing (`WithoutEffect`).

`ProcessorSchedulingProofs` proves, for every set of instances, jobs and runs, every batch size and
any number of faults and restarts that `SchedulingAssumption` allows:

| Theorem | Statement |
|---|---|
| `TypeCorrect` | `Spec => []TypeOK` |
| `OneLoopAlways` | `Spec => []OneLoop` |
| `RetryTimerIsPendingAlways` | `Spec => []RetryTimerIsPending` |
| `AtMostOneLateClaimAlways` | `Spec => []AtMostOneLateClaim` |
| `SetBackHasTimerAlways` | `Spec => []SetBackHasTimer` |
| `ProcessorLivesAlways` | `Spec => ProcessorLives`, the refinement of `ProcessorLife` in every instance |

`LoopsInv` is `OneLoop` with the states of a run spelled out. `ClosingInv` says why a closing
instance claims once at most: after the late claim its only run is past the search, and a closed
instance does not enter the search again. It needs `LoopsInv`, for there must be no second run that
still searches. `SetBackInv` is what `SetBackHasTimer` says of the instance in `setBackBy`, without
asking what has become of the job: its newest timer is still to come as long as `setBackBy` names
it, because of the timers set for a job the last one outlives the back-off. While nothing has
failed, restarted or closed, `setBackBy` names somebody for every job that waits.
`RetryTimerIsPending` is inductive by itself, given the types, because every assignment to the field
goes with the timer that is set, fires or is cleared. For `LoopsInv` and `ClosingInv` a step moves
one run, starts one, ends one or belongs to a closing (`StepKinds`); for the timers and the
set-backs there are the kinds of `TimerKinds` and `SetBackKinds`.

The refinement of `ProcessorLife` (`LifeNext`) reads the same kinds as what they mean outside. A
step that moves a run inside its loop looks the same (`QuietLife`). A run that ends is the only one,
by `LoopsInv`, so the loop is over (`EndLife`). A run that starts does so in an open instance
without a loop and is assigned to `activeRun` in the same step (`StartLife`); a callback that returns
at its guard may make `activeRun` point elsewhere, which forgets the loop. `ClosingLife` is the
shutdown: closing copies `activeRun` to what is waited for, so the loop looks the same before and
after, and the disconnection waits for that run. What is fixed at the closing is why no late callback
or `finally` can undo it.

`MembershipProofs` proves, for every set of requests, addresses and earlier requests that
`MembershipAssumption` allows:

| Theorem | Statement |
|---|---|
| `TypeCorrect` | `Spec => []TypeOK` |
| `MembersWithinTenantAlways` | `Spec => []MembersWithinTenant` |
| `EveryUserHasHomeAlways` | `Spec => []EveryUserHasHome` |
| `RolesAreUnambiguousAlways` | `Spec => []RolesAreUnambiguous` |
| `GrantedInTenantAlways` | `Spec => []GrantedInTenant` |
| `RefusalsAreTrueAlways` | `Spec => []RefusalsAreTrue` |
| `RequestsAreAtomicAlways` | `Spec => RequestsAreAtomic`, the refinement of `Directory` |
| `NobodyWaitsInACircleAlways` | `Spec => []NobodyWaitsInACircle`, stated with its proof |

The properties are about committed rows; what makes them so is what open transactions may hold.
`Keys` states the unique indexes over uncommitted rows too, as PostgreSQL enforces them.
`ReqInv(k)` says of each request what it has been shown by its guards at each await (`TenantOK`,
`AccessOK`, `InviteOK`), which rows it may have written by then (`RowsOK`), which it must have
written (`HasRows`), and that a refused one has left none (`RefusedOK`). A request touches its own
rows only and nothing that was committed is taken back (`OnlyBy`, `Monotone`), so what is said of
the others stays true (`Others`): one step of the proof per action is about the request that moves,
and the interference of the others is settled once. `MembersWithinTenant` follows because the
membership that an invitation relies on is either its own row or one that is committed.

`NobodyWaitsInACircle` is about the transactions that meet a key of another open one and wait for
it: of any set of requests, one waits for none of the set, so PostgreSQL never has to break a
deadlock among them. `WaitsUpwards` is why: a request that is waited for at the address of a user
is past it and meets no other key, one that is waited for at the membership of a tenant is at the
membership of the project or past it, one that is waited for there is about to commit. The order
is that of the statements in `addMember`; two transactions that inserted the two memberships in
different orders could wait for each other. It has no run of its own.

The refinement needs one more invariant, `WrittenInv`: when a transaction is about to commit, the
rows it has written are exactly those of the abstract effect (`Written`), and the one row it may
lack, the enrolment of somebody who is in the tenant, is there from another request. A commit is
then the whole effect (`CommitEffect`), and so is the one statement that is not in a transaction
(`InsertTaskEffect`). The guards have read long before, in other statements and outside the
transaction. `TenantInReach`, `InvitationRows` and `CommitShows` show that what they have seen still
holds when the effect comes, because a committed row is never taken back; a service that removed
members would need its guards inside the transaction. A refusal is `Refuse` with what the last
statement has just seen (`AnswerShows`); the conflict at the enrolment is that, too, when the user is in
the project, and is `MistakenConflict` when not. Everything else, an insert that is not committed yet
and a rollback, changes nothing that `Directory` sees (`WithoutEffect`).

`ServiceProcessProofs` proves, for every set of requests, shapes, accounts and environments that
`ProcessAssumption` allows:

| Theorem | Statement |
|---|---|
| `TypeCorrect` | `Spec => []TypeOK` |
| `AnswersAgreeAlways` | `Spec => []AnswersAgree` |
| `LoginsAreTrueAlways` | `Spec => []LoginsAreTrue` |
| `PasswordsKeepWorkingAlways` | `Spec => []PasswordsKeepWorking` |
| `LoginUpgradesHashAlways` | `Spec => []LoginUpgradesHash` |

`IdOK` says when a request has its id: not before the interceptor, always after it; the three ways a
request ends (answered by its handler, by the filter with an id, by the filter without one) then
write header, body and log line that agree. `LoginOK` says what a login knows of a hash that others
may replace while it verifies, hashes or signs: not that it is still the stored one, but that both
verify the same password, and that a stored hash which needs no upgrade never comes to need one
(`Improves`). That is why two logins that race to replace one hash, or one that is killed half-way,
harm neither the password nor each other.

*Only model-checked.* Every invariant, every action property and all four refinements of the passing runs
are proved. The liveness properties (`ScanReachesJob`, `EveryLoopEnds`, `EveryRequestIsAnswered`,
`EveryRequestEnds`, `SignalEndsProcess`, `ServiceComesBack`) hold under fairness, which is out of this prover's
reach: they are checked on the instances of the runs. The six counterexamples are TLC's, too.

## Not modelled

`GET /tasks/:id` and the list of tenants as routes of their own (guards and failures are those of the
list of notifications), which rows `listForUser` returns and the conversion of their payloads, what
exactly the validation pipe accepts, OpenAPI, dependency injection, what a migration does, the
arithmetic of password hashes and token signatures, the wording of logs and errors. Deletion: the
schema has cascades, the service has no operation that deletes. The rate limiter keeps its counters
in the library; here it refuses or not. A token's expiry is part of its being good or not.

## Plan

Every module of the plan is written: `NotificationDelivery`, `NotificationLease`, `ProcessorLife`,
`ProcessorScheduling`, `TaskUpdates`, `TaskStatus`, `Directory`, `Membership`, `RequestPipeline`,
`ServiceProcess`, with their proofs. What could be added, in the order of its worth:

1. One composition of `TaskStatus`, `ProcessorScheduling` and `NotificationLease` over one table.
   Today each takes the other's step as given (see *Modules*).
2. The list of notifications and the reads by id as views of `notified` and of the task table,
   with the rows they return.

# FlighSchedulePro: a TLA+ verification project

FlighSchedulePro sits beside Flight Schedule Pro (FSP), the system of record
of a flight school. It watches the FSP schedule, generates *suggestions*
(waitlist fills, reschedules, discovery flights, next lessons), and books a
suggestion in FSP when a scheduler approves it. This directory models the parts
of it where concurrency, failures, retries and boundaries decide whether it is correct.

## The system

Three processes run in one container (`docker-entrypoint.sh`): the NestJS API,
the BullMQ worker and the Next.js frontend. They share PostgreSQL (through
Drizzle; **no statement sequence runs in a transaction**) and Redis (BullMQ
queues). FSP and the language model are external HTTP services.

| component | state it keeps | operations | talks to |
|---|---|---|---|
| suggestion approval (`suggestions.service.ts`) | `suggestions.status`, `reservation_history`, `prospects.status` | approve, decline, bulk variants | FSP validate and create, notifications |
| discovery flights (`discovery.service.ts`) | the same rows, `prospects` | createDiscoveryRequest, bookSlot | solver, notifications; never FSP's reservations |
| schedule solver (`schedule-solver.service.ts`) | the same rows | findTime, batchCreateReservations, optimizeDay | FSP availability |
| AI enrichment and automatic approval (`ai-enrich-suggestion.job.ts`, `auto-approve.service.ts`) | rationale, status | enrich, verify constraints, approve | language model, feature flags |
| expiry job (`expire-suggestions.job.ts`) | status | TTL phase, slot-filled phase | FSP reservation list |
| polling job (`poll-schedule.job.ts`) | `sync_state` hash, time of the last lesson check | poll, detect pending lessons and inactive students | FSP, queue `generate-suggestions` |
| generation job (`generate-suggestions.job.ts`) | inserts suggestions | openings, reschedules, next lessons | FSP, queue `ai-enrich-suggestion` |
| scheduling core (`src/core`) | none (pure functions) | slot search, constraints, ranking, change detection | - |
| FSP client (`fsp.client.ts`, `rate-limiter.ts`) | token bucket and circuit breaker per operator, per process | request, retry on 429 | FSP |
| reservation cancellation (`reservations.controller.ts`) | `reservation_history.status` | cancel, enqueue the opening | queue |
| notifications (`notification.service.ts`, `send-notification.job.ts`, `ask.service.ts`) | `notification_records`, templates, preferences | confirm, refuse, dispatch | mail, SMS, queue |
| login and onboarding, feature flags, policies | their tables | provision, seed, switch, edit | FSP auth |
| disruptions and alerts, simulation and mock triggers, insights | their tables, a timer per operator | scan, resolve; events; refresh | weather |
| console (`src/web`) | the state of a page, requests in flight | queue, policies, templates, discovery pages | API |
| dashboard, directory, weather, activity, health | caches and logs | queries, upserts | weather API |

The components meet at the `suggestions` table: five of them write its status
column, from two processes, with an `await` between every read and write. What
is hard:

* **interleaving**: every SQL statement and every FSP call of one request is a
  point where any other request, the worker's jobs and other operators' users run;
* **partial failure**: a statement after the FSP create can fail, and FSP can
  book without its answer arriving; provisioning can stop half way;
* **crashes**: the lock of an approval is a column value without owner or timeout;
* **at-least-once delivery**: BullMQ starts stalled jobs over and retries failed ones,
  a text message included;
* **checks that are stale when used**: `bookSlot`, the batch and auto-approval
  look at the status once and then write unconditionally; the search of a discovery
  request uses reservations read before; scans, flags and insights read and then insert;
* **boundaries**: search windows that must join, minutes of daylight, rest and notice,
  two clocks (the server's and the operator's), ties in a ranking;
* **answers out of order**: a page has several requests in flight and takes every answer
  for the newest one.

What makes each component correct: an approval books once, and only what it
holds; a decision is final; what is declined or refused is not in FSP; the lock
is released; a change of the schedule leads to a generation job; an enrollment
does not get the same suggestion twice; the FSP client keeps to its rate and
probes carefully after an outage; a freed opening is offered; a search
misses no free slot and offers none that was taken; what is approved automatically has
passed the constraints and the risk level it shows; a text is sent once, and what is
recorded as sent was; a token is for a provisioned operator; duplicates come from
overlaps only; a timer can be stopped; the hours of students add up; a page sends what
its user selected and shows what is stored.

`PROJECT.json` lists every component with its status and every hazard with its
source line and the properties that cover it, or the reason why none does.

## Modules

| module | what it is |
|---|---|
| `SuggestionLifecycle` | abstract specification: the promise about a suggestion, as a state machine with a booking |
| `SuggestionApproval` | every writer of the status column, one action per SQL statement or FSP call |
| `SuggestionApproval_proofs` | its inductive invariant and the theorems; the refinement of `SuggestionLifecycle`, and that decisions, confirmations and grounds of expiry stand |
| `TokenBucket` | abstract specification: a bucket that fills all the time |
| `FspClient`, `FspClient_proofs` | the HTTP client (token bucket, circuit breaker, 429 retries) and its theorems |
| `JobQueue` | a BullMQ queue with one worker, as far as the code relies on it (external) |
| `SchedulePipeline`, `SchedulePipeline_proofs` | poll, `sync_state`, queue, generation and cancellation: from a change of the schedule to suggestions; theorems |
| `NextLessons`, `NextLessons_proofs` | who gets next-lesson suggestions: the checks of the poll job, the queue and `processNextLesson`; a theorem about repeated offers |
| `Constraints` | the four-layer constraint evaluator and its policies, as operators on minutes |
| `Ranking` | the waitlist ranking, as exact arithmetic |
| `SlotSearch` | one generation job at the level of its data: progressive search, ranking, evaluation of proposals |
| `ScheduleSolver` | the search of `findTime`, as operators |
| `DiscoveryRequest` | a discovery request or search for a time, statement by statement, among bookings |
| `AutoApproval` | enrichment and automatic approval by the worker and by the API under a feature flag |
| `Notifications` | confirmations, refusals, the notification job, the assistant's mails |
| `Onboarding` | login, provisioning, feature flags, policy row |
| `Disruptions` | scans for disruptions, flight alerts |
| `Simulation` | the simulation's timers and events, the mock trigger |
| `Insights` | the refresh of the student insights beside the simulation |
| `QueuePage`, `PolicyForm`, `TemplateForm`, `DiscoveryPage` | four pages of the console with their requests in flight |
| `MCSuggestionApproval`, `MCFspClient`, `MCSchedulePipeline`, `MCNextLessons`, `MCOffers`, `MCConsole` | instances for TLC |
| `Offers_proofs` | theorems about `AutoApproval`, `Notifications`, `SlotSearch` and `Ranking`, as composed in `MCOffers` |
| `Discovery_proofs` | theorems about `ScheduleSolver` and `DiscoveryRequest`, as composed in `MCOffers` |
| `ConsoleApi_proofs`, `ConsolePages_proofs` | theorems about `MCConsole`: login, disruptions, simulation and insights; the four pages |

`MCOffers` and `MCConsole` each instantiate several components, one *scene* each. The
variable `scene` says which one a behaviour is about; the variables of the others are `Off`
and never change. Some scenes model columns of one table, and then each has the writers of
what it is about: the flight hours in `student_insights` are in `Simulation`, with the
refresh that deletes and inserts them, and the rest of those rows is in `Insights`, with the
simulation's updates as steps of its own; the status of a suggestion is `optionStatus` in
`DiscoveryPage`, `status` in `AutoApproval` and the subject of `SuggestionApproval`, whose
writers are the actions `OthersWrite` of the first and `Decide` of the second.

### SuggestionApproval

State. `status` is the column, `fsp` counts the reservations FSP holds for a
suggestion, `history` the `reservation_history` rows it produced, `prospects` and
`confirmed` the prospects marked booked and the confirmations mailed. `pc[r]` is
the statement request `r` executes next, or its answer, and `target[r]` its
suggestion id. `expirer` and `victims` are the expiry job's position and the rows
it has read. `lapsed` and `taken` are the world: suggestions past `expiresAt`,
and slots booked in FSP by others. `faulted` records which of the two faults
that excuse a property have happened.

Actions. A request starts with the read of its row (`ReadForApproval`, ...) and
then runs one action per `await`. The statements recur in the handlers, so they
are written once, as operators with the SQL they stand for (`SetStatus`,
`SetStatusIfPending`, `ExpireGroup`, `AddHistory`, ...): the difference between
`SetStatus` and `SetStatusIfPending`, the `WHERE status = 'pending'`, is
what most of the properties turn on. Audit inserts are actions of their own
because they can throw, and where the exception goes (`AfterThrow`) matters.
Validation and creation have all three outcomes the code distinguishes: success,
an answer with errors, a throw. Auto-approval keeps its whole sequence; the constraint
check is a choice between "a hard constraint fails" and "go on", which includes
the `null` the code treats as passed.

Faults, by constant: `crash` (the API or the worker dies at any point; a BullMQ
job may be started over), `db` (any SQL statement throws), `lostAnswer` (FSP books
and the call throws). FSP refusing and calls failing without effect need no
fault: they always can happen.

Abstractions. A request is answered once; a retry is another request. A bulk
call or batch is one request per item, which is one of the interleavings of
separate requests. One operator; all slots lie within the 48 hours the expiry
job looks at; the `auto_approve` flag is on; ids always exist. Rationales,
notification records and audit rows carry no property here.

### FspClient

State. `credit` and `sinceRefill` are the bucket, `failures`, `isOpen` and
`sinceFailure` the circuit; `pc[c]` says where call `c` is suspended: nowhere
(`idle`), in the sleep of the limiter (`waiting`), in `fetch` (`sent`) or in the
back-off after a 429. Points in time are kept as ages that stop growing where
more makes no difference (a full bucket, a reset time that is over), so time goes
on for ever in finitely many states. Tokens are counted in ticks: with the
code's 60 per minute a token is 1000 ticks of a millisecond, and the fractions
of tokens the code computes with are whole numbers here. `late` and `robbed` are
history: they are read by properties only.

Actions. `Request` is the code from the entry of `request` to the first `await`
that suspends: circuit check, refill and either the token (`TakeToken`) or the
computed sleep (`WaitForToken`). `WakeUp` is the second half of `acquire`.
`Answer` is the rest, which touches shared state once, when the answer is
recorded: success, server or network failure, caller error, or a 429 with a retry
left. `Restart` loses all of it, as a crash of the process does.

Abstractions. One operator and one process: buckets and circuits of different
operators are independent, and the API and the worker each have a client (so FSP
sees the sum of both, which no property here bounds). The length of the back-off
has no effect on the state and is left open. `failures` counts up to the
threshold, the only value it is compared with. The mock mode is off. The bucket in
`TokenBucket` may be overdrawn (`Overdraw`): that is what the code does to a
waiter whose token is gone (see "Seen while modelling").

### SchedulePipeline and JobQueue

State. `schedule` is what FSP has: a version stands for a hash of
`hashSchedule`, so what the hash does not cover is no change. `stored` is
`sync_state.lastScheduleHash`; `pollPc` and `seen` are where the poll job is and
what it has fetched. `queue` is `generate-suggestions`, an instance of `JobQueue`;
`stage`, `read`, `todo` and `inserted` are the job at work in the worker: how
far it has come, the schedule it has fetched, the rows it has left and has
inserted. `flight` and `cancelPc` are a reservation and the requests that cancel
it. `served`, `repeated` and `excuses` are history, read by properties only:
`excuses` notes a step after which a change or an opening may be missed without
another step being at fault.

Actions. `Poll`, `StoreBaseline`, `StoreHash`, `Announce` are `pollOperator`; a
poll that finds nothing new changes nothing the model keeps. `Prepare` is
`process` up to its pipelines, including the second fetch of the schedule, and is
the only part that can throw (`PrepareFails`), which the queue answers with another
attempt. After it the pipelines insert their rows in any order (`Promise.all`); one
that throws ends without the others (`PipelineFails`, the `catch` of each promise).
`CancelRead`, `CancelRow`, `EnqueueOpening`, `EnqueueFails` are
`cancelReservation`, whose update has no guard and whose enqueue error is swallowed.
`WorkerCrash` loses the poll and the generation at work; BullMQ starts a stalled job
over once.

Abstractions. One operator, whose FSP token stays. Waiting jobs start in any order (a
job in its back-off lets others pass). Which candidates pass the constraints is open
(`SkipRow`), a reschedule's alternatives are one row, as one statement inserts them. A
row includes the job that enriches it, whose enqueue error is swallowed. Suggestions of
two jobs for the same opening are two suggestions: the code does not compare them.
`FspChange` back to the stored hash is excused: the code keeps one hash, so a
schedule that comes back between two polls is never noticed, even when a generation has
worked with the version in between.

### NextLessons

State. `left` and `booked` are FSP's: the lessons of each active enrollment still to
be flown, and the students with a reservation in the next 28 days. `targeted` are
the students with a pending `next_lesson` suggestion. `due` says that
`lastPendingLessonCheck`, a map in the worker's memory, is unset or half an hour
old. `pollPc`, `toCheck`, `found`, `toReach` are the poll job's position and what it
has read; `queue` is an `INSTANCE` of `JobQueue`, with an enrollment as the id of its
own job (as in the code's `jobId`) and fresh ids for outreach jobs, whose student is
their `addressee`. `stage`, `slots`, `created` are the job in the worker.
`offered`, `repeated` and `broken` are history: the slots an enrollment has got a row for, the
enrollments that have got two rows for one, and those a job of which ended early after a row.

Actions. `BeginCheck` is `checkPendingLessonsIfDue`, which notes the time before it
checks anything. `ReadBookings`, `ReadProgress`, `EnqueueLesson`, `EndCheck` are
`detectPendingLessons`, with an action at each call of FSP and of the queue, and
`CheckFails` and `SkipEnrollment` its three `catch` blocks (the reservations, a
student, an enrollment). `FindInactive`, `EnqueueOutreach`, `EndPoll` are
`checkInactiveStudents`. `Prepare`, `InsertRow`, `SkipSlot`, `CompleteJob` and
`JobFails` are `processNextLesson`, in which every error is thrown to the queue,
also those after the first row is in. `WorkerCrash` forgets the times of the checks too.

Abstractions. One operator, with a token and a policy. The order of the two loops over
students and enrollments is open. Who is inactive comes from `reservation_history` and
a flag that are not in the model, so `FindInactive` takes any students that are not
targeted, and none when a statement fails. Which slots exist and pass the constraints
is open, and so is what FSP answers to an outreach job, which asks for the progress of
the enrollment `''`. The schedule's own jobs (`SchedulePipeline`) share the
worker and only delay these.

### Constraints, Ranking, SlotSearch

`Constraints` has no state. An instant is a number of minutes on the operator's clock;
calendars, reservations and proposals are records, and each of the rules of
`evaluateAllConstraints` is an operator: the fixed limits, the policy, availability and
daylight, in the layers of the code. The server's zone enters as `ahead`, because the
evaluator reads hours with `getHours()` but dates in UTC. `Ranking` computes the
weighted score over one common denominator, so that there is no rounding to model; equal
scores keep their order, as `Array.prototype.sort` does.

`SlotSearch` is one generation job: `SearchWindow`, `SkipWindow`, `EndSearch` are
`findAvailableSlots` with its windows (a fetch that fails skips a window or searches it
without a schedule, noted in `unclear`); `RankCandidates`, `ScanForOpenings` and
`PlanNextLesson` are the pipelines before the evaluation; `EvaluateNext` takes one proposal
after the other. Bookings and calendar edits happen between any two fetches.

Abstractions. Starts lie on the half-hour grid the code uses; two days of calendars and
three calendar shapes (weekly, overridden, closed) stand for all. Custom ranking factors are
left out: no caller passes any. The allowed aircraft of a lesson are left out.

### ScheduleSolver, DiscoveryRequest

`ScheduleSolver` has the operators of `findTime`: the windows of a day *in the order
FSP lists them* (the solver skips every candidate that starts before the end of the last
slot it accepted), the conflict checks, the choice of instructor and aircraft, the scores.
`Scope` is what one search is about and knows, `DayList` the candidates of a day in the order of
the two inner loops, and `SearchDay` and `FindTime` fold `Accept` over them and over the days.
`DiscoveryRequest` is `createDiscoveryRequest` and `POST /solver/find-time`: `Submit`
creates the prospect, `ReadResources`, `LoadReservations` and `Search` are the queries of
one search and are repeated for each range of dates, `Select` filters, deduplicates and caps
(and falls back to the whole window), `InsertOptions` stores, `Answer` responds, `Fail` is
any exception. `Change` books or cancels a reservation at any point; `changed` remembers
which, so that a property can ask only about those that were there all along.

### AutoApproval

State. The rows of the suggestions (`status`, `rationale`), the `auto_approve` row
(`flag`, absent or one record), `reservations`, and for each worker job, API sweep and
flag switch its position and what it has read. `contended` notes suggestions that two
enrichments held at a time. `StartJob` to `AuditApproval` are the worker's job, which reads
the suggestion in any status. `WorkerCrash` ends it anywhere, the first time to be started over
by BullMQ (`startedOver`); the second time it fails. A job started over after it has approved
asks the model again and overwrites the risk the approval was based on: `ApprovedAtShownRisk`
excuses just that (`RedoneSince`).
`StartSweep` to `VerifyInApi` the endpoint, `SelectFlag` and `SetFlag` the switch, `Decide`
a scheduler (who declines, for all these processes ask of a status is whether it is pending).
`Evaluation` calls `Constraints` with the arguments the code passes: no
availabilities, and the operator's policy row as it is at the time, or the default when there
is none (`Policies`). This is the module behind the choice
`SuggestionApproval` leaves open for its auto-approval.

### Notifications

State. `at[r]` is a request's position in the API, `stage[r]` the worker's in its job,
`jobs` the queue `send-notification` (an `INSTANCE` of `JobQueue`). `sent` is what
really left, by request and channel, `rows` the records written about it. A text is the
version of its template. `handler` is what the worker runs for the queue: the
scheduler registers a function that only logs ("For now, just log notification dispatch"),
and the job class that is written to replace it is not constructed anywhere; the model has
both, as the two values `handler` may have, and properties about texts are about the second.
A channel without a provider (`live`) logs and reports success, as the code does.

### Onboarding

`rowsOf` says which of the rows an operator needs exist, `flags` and `policy` what
they hold. A login (`SignIn`, `Mfa`) onboards the operator if `IsOnboarded` finds none,
with one `InsertRow` for each table in the code's order and then `ListFlags` and
`SeedFlags`; `Throw` ends it anywhere. The seeder of mock mode does the same and then
`SwitchOn`. Editors change flags and the policy; the second of two inserts meets a unique
key. `TokenMeansProvisioned` needs both exceptions it names: another provisioning may be
half done, or may have failed and left an operator row that stops every later one.

### Disruptions

A scan (`StartScan`) looks at every location, aircraft, and at the day and the week of
every instructor in any order (`CheckLocation`, ..., run together by `Promise.all`), then reads
the active disruptions (`ReadActive`) and inserts what is not among them (`InsertNew`).
The world changes, users resolve, a simulation inserts rows of its own (`Simulate`).
`together` notes scans that overlapped: duplicates are allowed to come from those only.

### Simulation

`state` is the entry of the API's map, `timers` the intervals that really tick. Ticks and the
first event of a start run beside each other, each the list of statements of its type
(`Program`). What the simulator makes up (names, weather, slots) is a choice. A completion is
modelled statement by statement and keeps its student, because it updates hours others read;
of the other types no event reads what they insert, and what one of their functions inserts and
enqueues is one step (`Cancel`, `OfferSlot`, `GroundAircraft`, ...). `DeleteInsights`,
`SelectStudents`, `InsertInsights`, `FailRefresh` are `refreshInsights` as far as the hours
go: they are selected after the delete and inserted later, so a completion whose two updates
fall between these is lost to the insights (its update finds no row). `landed` notes such
students, and `late` the rows inserted for them, which `HoursAddUp` leaves out until the next
update. Hours are whole numbers: the rounding to a tenth is left out.

### Insights

A refresh asks for each student and instructor (`ReadStudent`, `ReadInstructor`, in any
order), then `DeleteRows`, then `InsertRows`; flights, bookings, days and the simulation's
updates go on meanwhile. Day 0 is a Monday; thresholds are the code's.

### QueuePage, PolicyForm, TemplateForm, DiscoveryPage

The state of these is the React state of a page and the requests in flight, a request
being read or applied at the API at one moment and answered at a later one. A handler is a
closure: it works with the filter and the selection of the rendering it was clicked
in (`view`, `sel` of a POST; `owner` and `current` say which handlers hold one and the same
`Set`, which `Set.delete` mutates). `QueuePage` has the fetches of the effect, of the
refresh timer of a running simulation and of the handlers, single and bulk decisions and
the API's bulk limit; of the filters only status and page. `PolicyForm` and `TemplateForm`
have several tabs over one row. `DiscoveryPage` has search, options, card and `bookSlot` in
the three parts in which it can fail; `OthersWrite` is
whatever else writes an option's status. Layout, previews, validation of fields and toasts are
left out. `picked`, `slipped`, `shown`, `astray`, `decided`, `repeatable`, `repeats`, `touched`, `basis`,
`outdated`, `moved` and `overwritten` are history, read by properties only.

## Runs

| run | instance | shows |
|---|---|---|
| `approval_writers` | 1 suggestion; 2 approvals, 1 decline, 1 auto-approval; faults crash, db | the lock admits one FSP caller; success answers mean a booking; declines are never booked |
| `direct_bookings` | 1 suggestion; 2 approvals, 1 decline, 1 direct booking, 1 batch item; faults crash, lostAnswer | with the writers that ignore the lock at work, two approvals still do not make FSP book twice; refusals leave nothing in FSP |
| `lifecycle` | 2 options of one group; 1 approval, 1 decline; crash; fair | without direct writers and failed statements the system implements `SuggestionLifecycle`; every expiry has its reason, a confirmed suggestion is approved; a lapsed suggestion leaves the queue for good |
| `fsp_calls` | 3 callers; bucket of 1.5 tokens, threshold 2, reset after 2 ticks, 1 retry; outages and restarts; fair | the bucket is exact for a lone waiter, a blocking circuit admits nobody, every call is answered, the circuit closes for good after FSP has recovered |
| `schedule_pipeline` | 2 versions, 2 changes, 2 change jobs, 2 cancellations of one reservation, 1 gap, 1 candidate, 2 faults of any kind; fair | no change of the schedule is forgotten once there is a baseline, no suggestion is inserted twice, a freed slot has a job under way or done and in the end is served, unless a failure lost it, a schedule that stays is served |
| `next_lessons` | 1 student with 1 enrollment of 2 lessons, 1 outreach job, 2 slots, 2 faults of any kind; fair | the first need of a lesson is detected whatever fails, a slot is offered twice only by the retry of an attempt that broke off |
| `offers` | see below | a search misses no free start and the evaluator agrees with it; nobody is passed over in the ranking; a discovery request offers only what was free and `findTime` skips nothing free; the risk shown is the one approved at; a text is sent once, and rows that say sent are right |
| `console` | see below | tokens are for provisioned operators; duplicates of disruptions come from overlaps; timers can be stopped and hours add up; insights describe the flights; pages send what was selected, show what is stored, and name the right booking |
| `booked_but_pending` | 1 approval, fault db | **violated**: a suggestion FSP has booked is offered again |
| `two_options_approved` | 2 approvals, 2 options, no fault | **violated**: two options of one group are approved |
| `auto_approved_unverified` | the `offers` instance | **violated**: an automatic approval whose verification threw |
| `options_misnamed` | the `offers` instance | **violated**: an option shown with another slot's instructor |

### Bounds

Requests are the only unbounded dimension of `SuggestionApproval` and each is finite, so the
number of requests bounds `fsp` and `history`; nothing else is cut. Two
approvals are what the lock is about, and a third writer of each kind gives every
pair of writers; two options make a group, which `lifecycle` and the violations have. In
`direct_bookings` one suggestion is enough: what a booking does to the siblings of its option is
to expire those that are pending, as an approval does in `lifecycle`. One expiry job loops for
ever, since the worker runs it with concurrency 1. Approvals are interchangeable, so
`approval_writers` and `direct_bookings` use symmetry; the run with liveness and the violations
do not.
Requests are optional and finite, so the system may stop: deadlock is not checked.

In `schedule_pipeline` every announcement follows a change of the schedule, so one
id in `ChangeJobs` for each of `MaxChanges` is enough. Two changes let a second
change fall between the poll and the generation of the first. Two faults are what a
stalled job that is lost, a job that fails and is retried, or a change whose enqueue
fails after a failed poll need; a change job has three attempts, of which two can fail,
a cancellation has two and can be given up. The changes, requests
and faults are bounded, so the system stops when all is done: deadlock is not checked.
The bounds on changes and faults are constants the proofs leave open.

In `next_lessons` the lessons, slots, outreach ids and faults are bounded. Two lessons
let a job meet an enrollment that has moved on, or is complete, since it was detected;
two faults are a failed check followed by a failed job, two failed attempts, or a job
that is lost by two deaths of the worker; two slots let an attempt fail between two
rows (so that the retry offers the first one again). A second enrollment only adds a job for the same worker: the detector treats
enrollments one by one, and nothing relates two of them. When no outreach id is left
the poll goes on without. The poll runs for ever, and deadlock is checked.

In `fsp_calls` three callers are two waiters and one that takes their token, the
bucket's size is no multiple of a token so that partial tokens occur, and the
threshold is reached by calls admitted before and after the first failure. The
callers repeat their calls, so nothing is cut. It can never stop, and deadlock is checked.

In `offers` the *search* has two instructors with different calendars, one of them also the
students', out of three (weekly
windows, an override that moves a day's window, an override that closes a day), two aircraft,
three schedules to begin with and one booking meanwhile, a server whose clock is the
operator's or eight hours ahead, and nine jobs: openings with and without activity and
location, candidates that tie and that do not, a gap scan, reschedules whose window grows once
or starts wide, next lessons with several progress states. Two windows of one day each are
what a seam between windows needs. The *discovery* scene has one request at a time (two
requests share nothing but the bookings, which `Change` makes at any time), six questions
(no date, one, two, a past one; times of day; a search for a time), calendars whose windows
are in order and are not, and a reservation that began days before. *Enrichment* has two
suggestions of a group, one worker job, whose worker may die twice, one sweep, one switch of the flag and two
policies: with each other the job and the sweep make every pair that shares a row. *Notification* has one request with two attempts
and one edit; requests share only templates and preferences, which the edit stands for.

In `console` there are two of whatever races (logins and the seeder, scans, starts, events,
refreshes, tabs, GETs and POSTs of a page) and one of what they race for, except where two are
needed to tell them apart: two suggestions on pages of one, two prospects with two options and
one. In the simulation two events, of two students or of one, meet one refresh of the insights;
events and starts are interchangeable, which the run uses as symmetry. `MaxEvents` bounds clicks, decisions of others and expiries on the queue page; a
violation of its properties needs a selection or a decision, a second rendering and an answer.
The insights' two days straddle the fourteen-day threshold of a student's last flight.
Processes of both runs are finite, so they may stop and deadlock is not checked.

### Fairness

`fsp_calls`: time passes, sleeps end, `fetch` resolves or rejects,
and one caller keeps calling, since the schedule is polled every three minutes
(`job-scheduler.ts`). `Recovers` assumes that FSP is up for good from some time on.

`lifecycle`: weak fairness of each started request's next
step and of the expiry job. A SQL statement returns or throws, and so does an FSP
call: Node's `fetch` has a headers timeout and a 429 is retried four times. The
expiry job is repeatable. Starting a request, time passing, FSP bookings by others,
crashes and faults are not fair.

`schedule_pipeline`: the poll is repeated every three minutes and a poll
in progress goes on; the worker takes a waiting job, and the steps of a job and of a
request that has begun go on. Changes, new requests and faults are not fair.

`next_lessons`: the poll job is repeatable and each of its calls returns or
throws, half an hour passes, the worker takes what waits and goes on with what it has.
Bookings, flights, decisions, throwing and faults are not fair.

`offers` and `console` check safety only and assume no fairness.

### Findings

1. The catch block of `approve` treats a failed statement *after* the FSP create like
   an FSP error; the suggestion is offered again and its next approval books twice.
2. Expiring siblings covers pending rows only; two options locked at the same
   time are both booked.
3. The worker approves a suggestion automatically only when the verification of its
   constraints throws: `null` counts as passed, while a verification that succeeds is given no
   availabilities and always refuses. (The API's own automatic approval has the same
   evaluation without the `null`, and never approves.)
4. The options of a discovery request are named by their place in a list from which
   duplicates have since been removed: an option is shown with the instructor and aircraft of
   another slot.

### Seen while modelling

Without a run, because no line of the repository promises otherwise, because it
is a limitation rather than an error, or because a run would only repeat one line of code.
Those a test would hardly reach are in the hazard list.

* Approval: automatic approval writes over a decline, an expiry or a lock that came after its
  read. `bookSlot` and `approve` overwrite each other: `approve` puts back `pending`
  without looking at the row, over a booking `bookSlot` has confirmed by mail.
* FSP client: `acquire` sleeps once and then goes on with or without a token ("Wait until a
  token is available", `rate-limiter.ts:29`), so the limiter does not limit a burst.
  `assertCircuitClosed` says "allow one request through" (`fsp.client.ts:350`) but keeps no
  record of the probe: a half-open circuit lets every call through until the first is answered
  (`Passes`).
* Polling: the job id that keeps a pending next-lesson job from being enqueued twice
  (`poll-schedule.job.ts:505`) keeps it from ever being enqueued again, as ended jobs are never
  removed. Outreach jobs have no id and are enqueued by every poll. A schedule that changes back
  between two polls is not noticed. Upcoming reservations are one page of 500.
* Generation: openings found in gaps carry no activity type, which the evaluator always
  rejects (`Opening` with `NoActivity`); a gap ends at the last event in order of start, even
  when an earlier one is longer; an increment greater than the initial window leaves days
  unsearched, and the part of the last window beyond `maxDays` is never searched; slots on
  the last day may conflict with events that were not fetched; a preferred instructor does not
  come first; reschedule slots are inserted unchecked; a failed availability fetch rejects all
  waitlist candidates; `rationale.constraints` is stored as strings where the enrichment reads
  records.
* `findTime`: an instructor without a record works from seven to six; windows out of order
  lose free slots; two instructors may be offered the same aircraft at the same time.
* Discovery: the cap of ten comes before the filters and the cap on options before the
  deduplication, so fewer are offered than found; alternatives may include the preferred
  date; dates are compared in the server's zone; `bookSlot` answers `emailSent` whatever happened.
* Enrichment: a job that is started over after its approval shows a risk nobody approved at.
* Notifications: the job's handler only logs; its email row says "sent" for a mail that
  FSP was never asked to send (`sendEmailNotification` is set nowhere); the page saves preferences
  under `email` and `sms`, the job reads `emailEnabled` and `smsEnabled`, confirmations and refusals
  ignore both; the job never has a student's telephone number; a text is sent again when the
  audit of its failure throws or the worker dies.
* Onboarding: an operator whose provisioning failed half way stays so; mock mode switches
  `auto_approve` back on at each start; two first switches of a flag race for a unique index.
* Disruptions: overlapping scans duplicate; a disruption that gets worse keeps its old
  severity; a row the simulation inserted hides the real one. Resolving a resolved alert
  overwrites who resolved it.
* Simulation and insights: the handle of the first of two overlapping starts is lost; concurrent
  completions of a student lose hours; a no-show offers a slot that has begun; a refresh erases the
  mark a no-show has set; overlapping refreshes leave two rows per student, one that fails
  after the delete leaves none, and one whose insert comes after a completion it has not read
  leaves old hours.
* Console: answers to old filters replace newer rows; the refetch after an action uses the
  filter of the click; deselected suggestions come back with an old handler and are sent by the
  next bulk action; an error answer may stand for a stored decision. A policies page whose GET
  failed shows defaults and saves them over the policy. Text typed while a template is saved is
  lost. A search for one prospect while another's option is being confirmed puts the new name on
  the old booking's card. The automation page posts to `/feature-flags/toggle`, which the
  controller does not have.

## Proofs

`SuggestionApproval_proofs` proves, for any sets of suggestions and requests, any
groups and slots and any subset of the faults (from `ConstantsAssumption`: the kinds of
requests are disjoint, the functions have their domains):

* `Typing`: `Spec => []TypeOK`;
* `OneCaller`, `AtMostOneBooking`, `OkApprovals`, `DeclinedUnbooked`:
  `OneFspCaller`, `BookedOnce`, `OkMeansBooked` and `DeclinedNeverBooked`,
  all from `Invariance`: `Spec => []IInv`;
* `RefusalsAreUnbooked`: `RefusedIsUnbooked`, for a finite number of approvals. It
  needs no more than the types: every create adds an approval to those that may have
  booked (`OneMoreBooker`), and no step of anyone removes one (`MoreBookers`).

None of the others is inductive. That two approvals never hold one suggestion needs
that a held suggestion is not pending, or a third writer could let another one lock it
(`LockInv`); that a booking is not repeated needs what FSP holds at each
statement before the create (`BookedInv`); that an approved row stays needs that
nobody holds a decided suggestion; and an approval that passed the create call
has its booking under every fault (`AcceptedInv`). Most of the roughly forty
actions neither touch FSP nor make a row pending nor move an approval in or out
of the lock: lemma `OrdinaryStep` does them at once, and the five others (taking
the lock, booking, reverting, approving, declining) have a lemma each. A failed
statement (`ThrowSafe`) leaves only `AcceptedInv` to show.

Its second part assumes `LockedWritersOnly` (no direct booking,
batch or auto-approval, and no fault but crashes) and proves for any number of
suggestions, approvals and declines:

* `Refinement`: `Spec => Lifecycle`, each statement of an approval, a decline or the
  expire job being one move of `SuggestionLifecycle` or a stutter. It needs `IInv`
  (a suggestion that is given back has no booking, one that is approved has) and
  `HeldInv`: the row of an approval that has the lock still says `processing`, since
  every other writer asks for `pending`. The direct writers do not ask, so the
  assumption cannot be dropped: `booked_but_pending` is what a failed
  statement does to it, and a direct booking would go from approved back to pending.
* `DecisionsAreFinal`: `Spec => FinalStaysFinal`, from the refinement, as no move
  of the lifecycle starts at a final status (`NextKeeps`);
* `ConfirmationsHold` and `ExpiryIsGrounded`: `ConfirmedIsApproved` and
  `GroundedExpiry`, from `DInv`. A confirmation is mailed, and siblings are expired,
  only by an approval whose row says approved (`LockInv`), for good (`NextKeeps`). The
  expire job applies what it read some steps ago: `VictimInv` says that the
  slots of its rows are filled, and `WorldGrows` that they stay so.

`FspClient_proofs` proves for any number of callers, bucket, threshold, reset
time and number of retries (`ClientAssumption`: they are natural numbers, and the
bucket holds a token): `Typing`, `CircuitBlocks` (`BlockedAdmitsNobody`; inductive
by itself: a failure is what makes a circuit block, and it empties `late`), `LoneWaiter`
(`LoneWaiterGetsToken`; the level never falls without everybody who waits
being robbed, and a tick that shortens a sleep adds as much to the level) and
`LazyRefill`: `Spec => LazyRefillIsExact`, the refinement of `TokenBucket`.

`NextLessons_proofs` proves, for any enrollments, outreach jobs, slots and faults,
`OnlyRetriesRepeat`: `Spec => []RepeatsAreRetries`. An enrollment is detected again and again
while it needs a lesson, and what keeps its slots from being offered again is the id of its job.
So the invariant `OffersFresh` says that, unless an attempt broke off after a row, a job
still to be done has offered nothing and one at work has not offered what it has yet to offer;
it needs that the worker has one job (`OneActive`) and that `created` speaks of that one
(`CreatedByActive`).

`SchedulePipeline_proofs` proves, for any versions of the schedule, any number of
jobs, requests, gaps and candidates and any number of changes and faults (from
`PipelineAssumption`: a hash is never absent, and job ids are used for one thing):

* `Typing`: `Spec => []TypeOK`, which includes that the worker has one job at a time.
  The lemmas before it say what each operation of `JobQueue` does to the states of the
  jobs (`Moved`), and are what the other theorems use of it;
* `FreedOffered`: `Spec => []FreedIsOffered`: the opening has a request or a job that cares for
  it, or a job that has gone through all its candidates; a step that takes that away, a failed
  enqueue, a job given up, a failed pipeline, notes an excuse;
* `NothingForgotten`: `Spec => []NoChangeForgotten`, which is not inductive: a job that
  completes makes its schedule the served one, and if that is an old one the present
  one must be covered. `ReadCovered` says so, and `Baseline` that no job exists before
  the first hash, since `StoreBaseline` covers nothing. `CoveredStep`: every
  step keeps what is covered or the generator has just caught up;
* `RowsOfferedOnce`: `Spec => []OfferedOnce`, with `RowsOnce`: a job that has inserted
  rows is past the part that can throw, and has none of them left to insert.

The four modules that follow prove about `MCOffers` and `MCConsole`. `SceneStays`
says that a behaviour keeps its scene and a lemma per component that a step in it is one
of that component or a stutter, so each invariant has the form `scene = "..." => Inv`
and each theorem is about the `Spec` the runs `offers` and `console` check.

`Offers_proofs`, for any suggestions, jobs, sweeps, switches, requests, calendars, aircraft,
bookings and candidates:

* `ApprovalShowsItsRisk` (`ApprovedAtShownRisk`). A sweep lists rows long before it
  writes one, so the invariant speaks of what a sweep holds: a job at work on a suggestion
  that is not contended, or that has approved it, is the only one to hold it (`JobIsAlone`),
  and the rationale is then what it wrote (`RationaleIsOfJob`) until its worker dies and it is
  started over. `EnrichmentAssumption` says
  that a job enriches one suggestion and a suggestion has one job, as in the code: every
  call that enqueues one comes right after the insert of its suggestion.
* `RetriesTextOnce` (`TextedOnce`): a job that has texted is past the text or completed
  (`TextsAreOver`), so what BullMQ starts again has not, unless it is excused.
* `RowsAreOfSentTexts` (`SentRowsWereSent`): for each request, live channel and text, the
  rows plus the one still `Owed` by a request or a job between sending and recording are no
  more than the messages that left (`Accounted`). `SendAccount`, `RecordAccount` and
  `QuietAccount` are the three ways a step can move that account.
* `SearchesAreExhaustive` (`SearchIsExhaustive`). The invariant `Exhausted` says that every
  start up to the end of the last window is found, or was taken when it was looked at and is
  still taken, since FSP's events only grow. A window adds the whole days from its first to
  its last, so the argument needs that the increment is no longer than the initial window:
  this is the hypothesis the property has, and the hazard behind it. What one window adds is a
  fold of `AddCandidate` over the flattened lists of the instructors (`Folded`,
  `CandidatesListed`): an entry stays once it is there, and a candidate that is not added is
  there, is taken or finds the maximum reached.
* `FinderAndEvaluatorAgreed` (`FinderAndEvaluatorAgree`): every slot found, queued or rejected is
  in a window of the calendar of its instructor (`FitSlots`), and what an evaluation knows of
  the calendars is that calendar or nothing (`Rejections`).
* `NobodyIsPassedOver` (`NobodyPassedOver`). That who outranks another has the higher score
  (`OutrankersScoreHigher`) holds although the factors are normalised by minima and maxima of the
  list, because the normalisation is monotone in each factor and strictly so in the two that
  decide (`Normalized`). The sort puts the higher score first (`RankedInOrder`), a prefix of
  it keeps who outranks its members (`TopRanked`), and the loop only moves proposals from
  the queue to the offered or the rejected (`RankingInv`).

  `SearchAssumption` says what jobs and calendars are: durations and increments are
  positive, windows lie within a day, every instructor has a calendar, there are finitely many
  of them, and a waitlist has one entry per student with natural numbers of hours (the job
  builds it from FSP's list of students). TLC evaluates it in the run `offers`.

  The results of folds, of `FlattenSeq`, of filters (`KeptOf`) and of the stable sort are lemmas
  of the section "Data". The library's induction theorems take an operator as a parameter,
  which the provers cannot instantiate; `SetInduction` states induction over a *set* of numbers
  and follows from the well-foundedness of the naturals, and the lemmas apply it to the set of
  lengths for which their claim holds.

`Discovery_proofs`, for any requests, questions, calendars, instructors, aircraft and bookings; it
uses the lemmas about data of `Offers_proofs`:

* `SolverSkipsNothingFree` (`NothingFreeIsSkipped`). The solver skips a candidate that starts
  before the end of the last slot it accepted for the instructor, and nothing else that is free:
  harmless only if no candidate of an instructor comes after one that ends later, within a day
  because the windows are in order (the hypothesis of the property), and across days because
  windows end by midnight. The lemmas follow the code outwards: what a day offers, in which order
  (`DayCandidatesOf`, `DayListOf`); what one candidate does (`Accepted`: it is then `Settled`,
  that is not in daylight, taken, or overlapped by a slot found, and stays so); the states before
  each candidate (`AcceptsInTurn`, `DaySearched`) and before each day (`SearchesInTurn`,
  `DaysSearched`); the best of them, which are all of them when fewer than the maximum
  (`BestFound`); the answer (`FindTimeOf`, `ResultOf`). A day the loop does not begin
  (`DaySearchedOrNot`) needs that the maximum was reached.
* `OfferedSlotsWereFree` (`OptionsWereFree`). Both theorems follow from `DiscoveryInv`. A
  request that is about to search knows every reservation of its range that was there all along
  (`Knows`), whatever was booked and cancelled since it read them; so what the solver accepts
  overlaps none of these (`Offerable`), and the selections, deduplications and fallbacks after
  it only keep (`KeptSlots`, `OnePerTimeOf`). A reservation that overlaps a slot of the range
  is in the range, even when it began before: the mutant `InRangeByStart` breaks this step.

  `DiscoveryAssumption`: questions have a positive duration and finitely many dates, staff
  and fleet are lists, no instructor is listed twice, windows lie within a day, bookings have
  times, and the present, the horizon and the limits are natural numbers. TLC evaluates it in
  the run `offers`.

`ConsoleApi_proofs`, for any users, editors, callers, timers, students, flights and scans:

* `TokenIsForAProvisioned` (`TokenMeansProvisioned`): rows and flags are never deleted, and
  what a process has done follows from where it is (`DoneBy`);
* `ScansAloneAddNoDuplicates` (`DuplicatesNeedOverlap`): a scan that is alone inserts what
  was not active when it read, and nobody else inserts meanwhile;
* `StopFindsTheTimer` (`TimersCanBeStopped`): between the check of the map and the entry a
  start holds a timer that the map does not know, and only one start does;
* `HoursOfLoneCompletions` (`HoursAddUp`): what a completion has read, and which of its
  updates are done, by its place in the program (`HoursInv`), and what a refresh has read and
  inserted (`RowsInv`): a row is right, noted as late, or of a student whose completion is
  between its two updates (`Between`). `SimulationAssumption`: hours are natural numbers;
* `RowsAreOnePerStudent` (`RowsDescribeFlights`): a refresh carries what it read of each
  student; a flight since then makes the student one of those the property leaves out.
  `InsightAssumption`: days are natural numbers and a history is a sequence of flights.

`ConsolePages_proofs`, for any rows, fields, templates, tabs, handlers and options:

* `SavedTextIsStored` (`CleanMeansStored`), `CardIsAboutTheBooking`
  (`CardTellsTheBooking`), `SelectionIsFromClicks` (`SelectionWasMeant`), `RowsFollowFilter`
  (`RowsMatchFilter`) and `DecidedIsNotSentAgain` (`NotDecidedTwice`): each invariant
  gives, for every request in flight, what is known of its answer, because the page will
  take it whenever it comes. `OptionsAssumption`: an option is stored for one prospect.
  `QueueAssumption`: a page has requests to fetch with, and its timer is none of its POSTs.
* `UneditedFieldsStay`: the action property `SaveKeepsUnedited`, from an invariant about
  the form every open tab holds.

Only model-checked: the liveness properties (`LapsedLeavesQueue`, `EveryCallAnswered`,
`Recovers`, `ScheduleIsServed`, `OpeningIsServed`, `NeedIsDetected`), which are outside what
the prover supports. Every invariant of a passing run is proved. The type invariants of
`SuggestionApproval`, `FspClient` and `SchedulePipeline` are proved and not repeated in
the runs; in the modules behind `offers` and `console` types are a part of each inductive
invariant (`LoginTypes`, `EnrichmentTypes`, `NotificationTypes`, ...).

## Not modelled

* `optimizeDay` of the solver (a reading of a day and a log row), `detectOpenings` and the
  cancellation detector of the core, `seedAlerts`, `tryAcquire`: nothing calls them, or
  nothing follows from them.
* The mock FSP and the demo data: a development stand-in for FSP. Only the seeder's effect on
  the feature flags is in `Onboarding`.
* Rationale texts, prompts and their parsing, mail templates, formatting.
* Dashboard, directory, weather, activity, health: single queries, upserts and caches without a
  protocol of their own. Guards and interceptors keep no state between two awaits.
* The other pages of the console, which show what the API answers and send single requests.
* Several operators: every table, queue entry, bucket and timer is keyed by operator.
* Token refresh (a lost session ends a poll) and graceful shutdown.

## Plan

Later work, in this order.

1. An abstract specification of a page (what its user last asked for is what it shows), which
   `QueuePage` implements while one request is in flight.
2. Composition: `SchedulePipeline` feeding suggestions into the lifecycle, so that
   what the pipeline inserts twice and the approval books twice are seen together; several
   requests of `Notifications` from the approvals of `SuggestionApproval`.

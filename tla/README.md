# A verification of the WhatsApp task bot

TLA+ models of the stateful parts of the bot, TLC runs that check them on small
instances, and TLAPS proofs of every safety property they check, for any instance:
who may change a due date, who owns a queued message, whose trip a customer
watches and what his page shows of it, what workers and managers are asked and
what their answers do, what is sent, to whom and how often, and which calendar
subscriptions stay alive. Paths below are relative to the repository; the code is
under `src/` of the repository, migrations under `src/db/migrations/`.

Contents: 1 the system · 2 the modules · 3 the runs · 4 fairness · 5 the proofs
· 6 where code and documents disagree · 7 what is not modelled · 8 the plan.

## 1. The system

One Node.js process serves webhooks and runs cron jobs; everything that has to
survive is in PostgreSQL, in the bot's own tables beside those of a CRM that
writes to the same database. JavaScript runs to the next `await`: between two
queries or sends of one handler any other handler or job may run. Hence the
grain of all modules: **one step per query or send**, any of which may fail,
and a crash between any two.

| component | state | operations | talks to |
|---|---|---|---|
| inbound queue (`routes/webhook.ts`, `routes/greenapiWebhook.ts`, `services/inboundQueue.ts`) | table `WhatsappInboundQueue`; `fallbackSeen` in memory | receive, enqueue, ACK, process, mark done / failed, claim | router (the handler of a message), scheduler and start-up (recovery sweep) |
| pending actions (`routes/tasks.ts`, `services/pendingActions.ts`, `jobs/expireActions.ts`) | table `WhatsappPendingAction`; the CRM's `Task` | create, confirm, cancel, approve, reject, expire | router (over HTTP, `utils/internalApi.ts`), task service, senders |
| lead notifications (`jobs/leadAssignmentNotifier.ts`, `services/leadNotificationLog.ts`, `services/incomingLeads.ts`, `routes/supabaseLeadWebhook.ts`) | table `WhatsappLeadNotification`; the CRM's `IncomingLead` | claim, fetch, send, mark, release, escalate; assign a lead | database webhook, scheduler, senders |
| live tracking (`services/tracking.ts`, `services/trackingLink.ts`, `services/inspections.ts`, `services/customerNotifications.ts`) | `TaskField.fieldStatus`, `TrackingSession`, `WhatsappCustomerNotification` | confirm, depart, arrive, finish, decline; notify the customer | router, agent loop, voice assistant, tracking page |
| visits: scheduling and corrections (`services/taskFieldScheduling.ts`, `services/taskFieldCorrections.ts`, `services/voiceTools.ts`, `services/inspectionAssignment.ts`) | `Task.ownerId`, `TaskField` with its stamps, `TrackingSession` | schedule, move, retype, reassign, report, send the card | managers' menus, voice tools, the card poll |
| conversation router (`ai/router.ts`, `services/conversationContext.ts`, `services/messageRefs.ts`) | `WhatsappConversationContext` (what the bot is waiting for, the visit the worker is on), message references | about 60 awaiting states, menus, quotes, pivots | everything above |
| agent loop (`ai/agent`) | the context row, chat history | tool calls, a confirmation for destructive ones | services |
| digests, reminders, alerts, cards (`jobs/digestDispatcher.ts`, `jobs/dueDateReminder.ts`, `services/preInspectionReminder.ts`, `jobs/completionNotifier.ts`, ...) | ledgers and stamps, one row per thing sent | due?, sent already?, send, record | scheduler, senders |
| Green API transport and health (`whatsapp/providers/greenapi.ts`, `httpDelivery.ts`, `services/greenapiPreflight.ts`, `services/greenapiHealth.ts`) | snapshot of the instance; last state and last alert, in memory; dead letters | preflight, attempt, back off; observe a state, alert | all senders, webhook, scheduler |
| numbered choices (`services/pendingChoice.ts`) | the mapping of the last menu per phone | store, resolve once | Green API transport and webhook |
| Microsoft calendar (`services/microsoftAuth.ts`, `services/graphSubscriptions.ts`, `jobs/graphSubscriptionRenewal.ts`) | tokens, subscriptions | link, refresh, create, renew, delete, be notified | Graph, scheduler, webhook |
| scheduler (`scheduler/index.ts`) | advisory locks | run a job unless it is running | all jobs |
| OwnTracks (`routes/owntracksPoc.ts`, `services/workerLocation.ts`, `services/owntracksProvisioning.ts`) | `WorkerLiveLocation`, one row per worker; device identities | ping; provision, activate, revoke | worker's phone, tracking page |
| tracking page (`routes/tracking.ts`, `routes/trackingPage.ts`, `routes/trackingPage.template.ts`) | in the browser: what is shown, `pollTimer` | poll, show, pause, back off | live tracking, locations, ETA |
| ETA and routes (`services/conservativeEta.ts`, `services/progressDetector.ts`, `services/workerCalibration.ts`, `services/routeProvider.ts`, ...) | in memory, by session or visit: samples, ratio, last route, last number; geocodes in `TaskField` | estimate | tracking page |
| task service, permissions, users | none of their own | queries, predicates | routes |

What is hard, and what makes each modelled component correct:

* **Inbound queue.** Meta and Green API redeliver; the row is inserted before
  the ACK but never marked as taken by the POST that works on it, and two
  sweeps claim rows. A message has to be handled, once, whatever is repeated;
  each further time has to be some failure's fault.
* **Pending actions.** A row is read, checked, and updated later; several
  users and the expiry job race for it. Task writes come *before* the row is
  resolved for most actions and *after* it for due dates, so that one kind can
  be written twice and the other not at all. The outcome has to be final, a
  due date needs a manager, and nothing may wait forever.
* **Lead notifications.** Two senders and a ledger in which a claim is
  respected for five minutes. The right person has to be told, once, and
  always in the end, even if no webhook arrives.
* **Live tracking.** A visit and its session are written by separate
  statements, some of them fire-and-forget, from four channels. The customer
  must never watch somebody else's trip, nor a trip that is over.
* **Visits.** A tool checks its visit and then calls one service after the
  other; the check is not part of any, and one that fails leaves the rest
  undone. What the office has closed should stay as it is, and whoever a visit
  is given to should hear of it, although the poll that tells him stamps the
  row in a statement of its own.
* **Conversations.** What the bot is waiting for is one row per phone,
  replaced as a whole by each handler, while messages are served concurrently,
  old cards and menus stay on the phone, and the office changes what the row is
  about. An answer has to reach the visit it was meant for, what is written has
  to be what was shown, and a text the bot cannot use must not go round in
  circles.
* **Scheduled jobs.** Record after the send, before it, or by a stamp; sends
  that the transport drops without an error; several instances that fire the
  same tick; queues of which a tick takes the first fifty rows. Nobody should
  hear twice without a failure, and who is not dealt with at a tick should have
  a failure of his own, a longer run or a full queue before him to blame.
* **Green API.** The options of a prompt are stored before it goes out and
  consumed before the answer is enqueued, so numbers can meet the wrong menu;
  deliveries are attempted again on the strength of one preflight. The monitor
  sees states late and out of order, and forgets on a restart.
* **Tracking page.** Fixes are sent again when the phone gives up on a request
  that still arrives, the row keeps whichever comes last, polls overlap when
  the customer comes back, and a time-out that is set twice fires twice. The
  worker must not seem to drive backwards, nor the page ask ever more often,
  nor a trip that is over go on. The minutes come from four sources and three
  memories that a restart empties; they must not count down by themselves.
* **Microsoft calendar.** Subscriptions live at Graph and in a table, written
  one after the other; the refresh token rotates with every use and is read
  and written in different steps.

## 2. The modules

`MC...` modules add values, symmetry and, where a run covers components that
share no variable, a `side`: a behaviour of `MCSending`, `MCVisits` or
`MCTrackingPage` follows one of them while the others stay as they begin.
`MCMicrosoftCalendar` has a bound of its own, `FewAtOnce`. Every module states
a type invariant; the runs list it where nothing stronger implies it. The
comment at the head of a module says how its state corresponds to the code;
`PROJECT.json` maps each definition to its lines. Definitions marked *Mutant*
are deliberately wrong variants of the next definition, used to check that the
properties have teeth; no specification refers to them.

### InboundQueue

A **worker** is a POST request or one of the two sweeps. `status` is the table;
`old` are the rows older than the 60 seconds `claimPending` asks for (`Age` is
the passage of time, `old` outlives a crash as `receivedAt` does); `seen` is
`fallbackSeen`; `todo` and `item` are what a worker holds in memory.
`Enqueue`/`EnqueueFails` are the INSERT, `Ack` the reply, `Handle`, `MarkDone`,
`MarkFailed` and their failures are `processInbound`, `Claim` is the single
UPDATE of `claimPending`. Meta messages may come several in a request; a Green
API request carries one, has no `fallbackSeen`, and one that is too old is
acknowledged and ignored. `Crash` empties everything in memory.
`PromptHandlers` says whether a POST is done with its rows within 60 seconds;
nothing in the code guarantees it, so `TRUE` is an assumption of the run and of
the theorem about `SingleOwner` (section 6 says what happens without it).

### PendingAction and DueDateChange

A **slot** is a request in progress: it has read and checked its row
(`StartConfirm`, `StartCancel`, `StartApproval`) and then takes the steps of
its branch. `Transition` is `transitionState`: an UPDATE with the expected
state in its WHERE. `BeginCreate` and `CommitCreate` are the two statements of
the transaction in `createPendingAction` under READ COMMITTED: the UPDATE sees
the rows committed when it starts (`snapshot`), and the requester's rows which
appear afterwards are not touched. `applied` counts how often the write of a
row reached the task. `Fail` is a query that throws, at any point; a crash is
the same for every slot. An FKError of `createTask` leaves the row waiting,
as the code does.

`getFieldEditPermission` never returns `REQUIRES_MANAGER_APPROVAL`
(`auth/permissions.ts:19-29`), so that at this commit no `EDIT_DUEDATE` row is
created although routes and README provide for it. `ActionType` says which
rows exist; the runs include due dates because that flow is what the routes
implement.

`DueDateChange` is the promise without routes, races and failures: a request
is asked for, granted once by an elevated user or refused, and changed at most
once afterwards. `PendingAction` maps `state` to `verdict`, `approver` to
`grantor`, `applied` to `changed`; `KeepsPromise` is the refinement.

### LeadNotification

A **process** is a webhook request or the poller. `ledger` and `stale` are the
row `(lead, ASSIGNED_TO_WORKER)` and whether it is more than five minutes old.
`TryClaim` is the `INSERT ... ON CONFLICT DO UPDATE ... WHERE` of
`tryClaimLeadNotification`; mark and release act on the PENDING row whoever
claimed it, as in the code. The poller works on a `batch` it has read before,
with the owners it has read then; a webhook fetches the lead after its claim.
Escalations are check, send, record. A send may also be dropped by the
transport without an error, as the preflight does (`dropped`). The lead itself
is an environment: `AssignLead` is the code's guarded UPDATE (and the CRM's
claim), and the CRM may also write owner and status of a lead apart (`DraftOwner`, `Activate`,
`SetOwner`), which is what `findAssignedLeadById`, the transition test and
migration 023 are written for. A CRM that takes an ACTIVE lead away from its
owner is not described anywhere and not modelled.

### LiveTracking

A **handler** serves one message (`op`, worker, field, by the agent or not).
`OpenUpdate`/`OpenCommit` are the transaction of `openTrackingSession`, again
READ COMMITTED, with the two partial unique indexes of migration 016 (`Clash`).
`WriteStatus` is `advanceFieldStatus` or the decline; `Track` is what follows
it for the session, `Claim` and `Send` the en-route notification. The errors
of the session and of the notification are absorbed, that of the status write
is not. A message may be about any field in any status, because cards and
menus stay on the phone; only the agent validates the field in every case
(`Usable`).

### WorkerConversation

The conversation of one field worker. `row` is his row of
`WhatsappConversationContext`: `awaiting`, the visit in question (`about`), the
offered `list` with the `pending` move, and `activeInspection` (`pointer`, with
`live` for its own window). A **handler** serves one message in at most three
kinds of step: it reads the row and the visits and decides (`Decide`, from one
of the actions below), it writes the visit (`WriteVisit`), it replaces, deletes
or leaves the row (`Settle`), and goes on where `then` says: nowhere, from the
start again, in the menu, in the interpretation of a pivot, or in the agent.

| actions | code in `ai/router.ts` |
|---|---|
| `EquipmentTap`, `CardTap`, `PreReminderTap`, `MenuTap` | buttons, served before everything else |
| `FastPath` | a status verb with a quote or a live pointer, if the visit is valid |
| `FreshMenu`, `StartAgent`, `CallTool`, `EndAgent`, `AgentConfirm` | no question is open |
| `Correction`, `PickerEscape`, `PickerReply`, `CaptureMenu`, `Pivot`, `MissingInfoNote` ... `OfficeNote`, `DisambigReply`, `EtaVerb`, `EtaTime`, `EtaOther` | `continueConversation` |
| `ProblemDirect`, `AdvanceNamed`, `AdvanceCurrent`, `AdvanceOpen` | `runProblemDirect` and `runAdvanceStatusDirect`, after a pivot |
| `Break`, `Reassign`, `Cancel`, `Expire` | a query that throws; the office; time |

The reads of a decision are one step: they come in a row, and what is stale is
the decision when it is written, which the model allows at any later time.
Free choices are what a language model says (pivot or note, which visit a tool
is for, whether a text is a yes), which numbers a menu has, and which visits
are too old for `InProgress`. Texts are kinds; only buttons, names and quotes
carry a visit. `his`, `moved`, `ended`, `on`, `entered` and `disturbed` are
history, read by no action: which visits he has ever had, which ones the
router has written as started or finished, the one he is on, how often a
message was started again, and whether messages overlapped or broke off.

### ManagerConversation

The conversation of a manager, in the same steps as the worker's: a handler
reads row and text and decides (`Serve`, from the actions below), carries out
the changes of its plan one by one (`WriteOne`, `Refuse`), and replaces or
deletes the row and sends the next prompt (`Settle`, or `LosePrompt` when it
does not come through). `screen` is the last prompt that reached the phone: a
message is an answer to what was on the screen when it was sent. `choice` is
his `PendingChoice`, which may be older. A *change* is (operation, item,
value): give a lead to a worker, schedule, correct, reassign or move a visit,
delete an event, enable tracking, assign a lead, report on a visit. What a
language model makes of a sentence is any request the code can get; the values `a` and `b` stand for
two workers, types or times, of which one is wrong.

The groups of actions follow `ai/router.ts`: the menus and their lists, the
pickers by number, the confirmations with their merges (a sentence that amends
what is being confirmed), the pivots that are taken back, the clarifications
of the AI, the multi-action message, the calendar deletion, and reports on a
visit (`inlineStatus`, `performTransition`): these leave a prompt for the travel
time, for a problem, a follow-up or a note, or a row that only remembers the
visit (`EtaReply`, `NoteReply`, `FollowUpReply`), and the clarification that asks
for one action loses the task it was about (`TaskOf`). Most changes are caught
one by one (`Do`); the fields of a site, of which one sentence may fill several,
and what a prompt of a report asks for are not (`Each`, `Uncaught`): a refusal
ends the handler there, with the earlier ones written and the row as it was
(`Refuse`).

`carried`, `acting`, `repeated`, `overlaps` and `broken` are history: a message
is a repetition when it makes its first change for a prompt that another message
has changed something for. `broken` counts lost prompts, handlers that break
off, and refusals of a later change that nobody catches.

### Visits

A **call** is a tool at work: a voice tool of a worker, a correction or
reassignment of a manager, or one card of the poll. `Steps` lists what each
does, one step per service: the check, the write, the session. `status`,
`task`, `stamped`, `trip` are the columns of `TaskField` and the open session;
`owner` and `open` are `Task`. `OfficeCancels` and `OfficeClosesTask` are the
CRM. `knows`, `crossed`, `disturbed`, `late` and `excused` are history.

### ScheduledJobs

One job of ten on several instances: `Tick` arms every instance,
`WithJobLock` is the advisory lock and the selection, `RowStep` takes the next
step of the job's `Program` for one subject, `Finish` releases the lock. The
programs say in which order each job looks into its ledger, builds, sends and
records; jobs that treat their rows in parallel, one after the other or in one
batch (`Parallel`, `Batched`) differ in the guard `At`. A step may fail for the
row (`QueryFails`, `SendFails`) or for the run, a send may be dropped in
silence. `Reassign`, `ChangePreference` and `Reschedule` move a subject to another
worker or minute; `Delete` removes a task under the run that is to remind of it.

The jobs in `Filtered` read a queue: `Due` is the WHERE of their queries, `Ahead`
the ORDER BY (oldest first; for the completion notice the newest), `limit` the
LIMIT, and `Selected` whatever the query may return. `reach` says about whom there
is somebody to write to: a worker has a phone, managers exist, the task is still
there. Without, the row is skipped in silence (`Skip`), unstamped unless the job
records first, and stands in the queue again at the next tick. A tick that finds
the lock with an earlier run does nothing (`SkipTick`). `hit`, `turns` and `late`
are history: the ticks at which a fault met a subject, at which a run took it
up, and which came too early.

### Outbound and GreenApiHealth

`Outbound` follows numbered prompts to one phone: the options are saved
(`SendNumbered`), the preflight decides from its snapshot or a live check
shared by all senders, up to three attempts are made (`Post`, `PostFails`),
what is given up is logged, unless the INSERT of the log fails in its turn, of
which nobody hears (`Reject`). Green API queues a message and delivers it when
the phone's socket is up. The user answers the last prompt he sees; the
webhook resolves the number (`Resolve`), enqueues the text (`Enqueue`) and may
be delivered again or interrupted between the two.

`GreenApiHealth` is the monitor: `Change` is the instance, `StateHook` and
`Poll` bring what it was or is, `Reason` is the decision of
`handleGreenApiStateChange`, `CoolDown` the thirty minutes, `Restart` the loss
of the memory.

### MicrosoftCalendar

The calendar of one user. An **operation** has the steps it has left in `todo`:
`Steps` and the programs `Creation`, `Replacement`, `Deletion`, `Renewal`,
`EventCall`. `getAccessToken` is two of them: `ReadToken` (the row, and the
token endpoint) and `Persist`. `rows` and `until` are the table, `watched` and
`left` what Graph has; time passes in periods of the job (`Advance`), whose
run renews what expires within the look-ahead. A request may fail before or
after Graph acted (`Fails`, `PostUnanswered`). `strays`, `removed`,
`overlapped`, `switched` and `mixed` are history.

### TrackingPage

What the customer sees of a trip. The phone numbers its fixes as it takes them
and keeps them in `outbox`; `Post` sends the first, `GiveUp` is the time-out
after which it is sent again while the first request is still under way,
`UpsertLiveLocation` and `FanOutFails` are how `POST /owntracks` ends, both with
an acknowledgement. `live` is the fix in the row, whatever its own time. A poll
of the page goes from `Fetch` through `ReadSession` (one query for session,
visit and position; a session past its lifetime is shown as expired and not
written) to `ApplyState` or `Catch`, and may be lost on the way. `page.timer`
is `pollTimer`, `orphans` are time-outs whose handle has been overwritten: they
fire all the same. A timer is the time it is due and its handle, the least that
no timer has (`SetTimer`), so that two of one time stay two. `Hide` and `Show` are `visibilitychange`.

### TrackingEta and ConservativeEta

`ConservativeEta` is the arithmetic of `computeConservativeEta`, in fractions
of seconds, so that rounding happens where the code rounds. `TrackingEta` is
one trip: polls read the row (`ReadRow`), resolve the destination
(`ResolveDestination`, `Geocode`, with the marker of an address that has
none), take a route from the movement cache or ask for one (`Estimate`,
`RouteAnswers`), and compose the number in one turn (`Compose`) from what they
read and what `memory` holds by then: the ring of samples, the calibrated
ratio, the last route, the number shown last. `Reboot` empties it. `quote` is
the last number with what it came from.

## 3. The runs

| run | what it shows |
|---|---|
| `InboundQueue` | no row in two hands; each repetition paid for by a crash or a refused query; one failure strands nothing; what is pending gets a verdict |
| `PendingAction` | due dates are written by the approval of a manager; a written row is not open to a second confirmation; the routes refine `DueDateChange`; no request waits forever |
| `LeadNotification` | further alerts and escalations are paid for by a failure; SENT means that the owner was told (or the transport dropped it); every assigned lead is dealt with |
| `LiveTrackingAgent` | *violation*: the agent finishes a visit and leaves its session open |
| `WorkerConversation` | served one by one, messages never bring back an earlier visit as the current one; no answer moves a visit that was never the worker's; a message starts again at most once |
| `ManagerConversation` | what an answer carries out is what the prompt on the screen was about or what the manager spelled out; no prompt is answered by changes twice without an overlap or a failure, of which a site field refused after others is one; a lead keeps its owner |
| `ManagerConversationYes` | *violation*: a Hebrew yes does not delete the event |
| `Visits` | tools (Visits): what is closed is written to only by calls that checked it before; an owner knows of his visit; a trip ends with its visit, unless tools overlap or break off. Messages (LiveTracking): one open session per worker and per field; sessions disagree with their visits only on account of a failure or the agent; the customer is told once, with a link of the right visit |
| `Sending` | each job (ScheduledJobs): repetitions paid for; who can be written to was dealt with, or each tick of his window met a fault, came during an earlier run or went to a full batch of rows before his; what is on record was sent. Transport (Outbound): copies paid for, a number is never the command of an older prompt and no command is carried out twice. Monitor (GreenApiHealth): an outage is announced before its end, and one that lasts is told |
| `TrackingPage` | page: it goes back to an earlier position only on account of a time-out, while it stays on the screen; it polls no more often than the customer comes to it; who looks at it after the end is told. Minutes (TrackingEta): they fall only for a reason, never because time went by |
| `TrackingPageProgress` | *violation*: the ring of samples is full and still does not reach back a progress window |
| `MicrosoftCalendar` | what Graph keeps is in the table or some failure's fault; two rows only from overlapping creations or a failure; what the table has is alive at Graph; the token is that of the linked account |

"Paid for" is how several properties are put: a system of this kind cannot
promise "exactly once", but it can promise that *k* failures cost at most *k*
repetitions. A bound that grew with redeliveries, sweeps or concurrent
requests would be a defect, and the mutants show that it does with one.

**Bounds.** `MaxPosts`, `MaxCrashes`, `MaxFaults`, `MaxFailures`, `MaxMessages`,
`MaxEvents`, `MaxCalls`, `MaxDrops`, `MaxLinks` and the like bound counters;
`FallbackCap` and `ClaimLimit` are the code's own limits made small enough to
be reached (1 instead of 10,000 and 50).

* InboundQueue: two POST slots and both sweeps are all pairs of actors that can
  meet on a row; two requests allow a redelivery that overlaps the first or
  comes after a crash; three messages allow a batch, a full `fallbackSeen`
  and a backlog beyond the claim limit. `OneFailureIsRecovered` speaks of two
  failures, and three are available.
* PendingAction: two slots are every race of two requests, and the expiry is a
  third actor; two rows let one be cancelled by the creation of the other.
* LeadNotification (`PromptSenders`: a live sender marks its claim within the
  five minutes): two webhooks and the poller; a user without a phone; two
  leads, so that a batch is more than one row.
* Visits, messages: two workers and two fields are what the two unique indexes
  tell apart; four messages are two trips, or a trip with every report.
* WorkerConversation: two visits tell the current one from an earlier or a
  foreign one, and one of them only becomes the worker's on the way; with two
  handlers each message can meet another one; three messages open a prompt,
  leave it and answer what came instead, and all actions fire. `MaxEvents`
  bounds what others do, one event being enough for each way in which a row
  gets stale.
* ManagerConversation: one item of each kind and two values, since what can be
  confused is the value, the operation or the prompt; three messages open a
  flow, amend or leave it, and answer. One event is an overlap, an expiry, a
  lost prompt, a refusal, a break or a colleague's assignment.
* Visits, tools: two visits of one task and two workers make a reassignment
  reach a visit that another call is about; four calls, two at a time.
* Sending, jobs: three ticks are before, in and after the window of a digest;
  two subjects are a row and the other one a failure must not harm, or, with a
  LIMIT of one, a queue that is longer than a batch; two instances fire the same
  tick.
* Sending, transport: two prompts can overtake each other; three faults use up
  the attempts of one delivery.
* TrackingPage, page: two fixes and one time-out are an older fix that comes
  after a newer one; two polls at once and one return are an answer that comes
  late, or a second timer; the lifetime ends within the run. Minutes: three
  places, of which the second is slow progress and the third the last mile,
  and a load of the hour that falls, at two polls at once, with one error and
  one restart. The times are ticks of the page; a window of two ticks is
  shorter than the code's ten, so that progress is seen at all.
* TrackingPageProgress: one tick is the page's 12 seconds, and window, ring and
  ages are the code's.
* MicrosoftCalendar: two operations at a time and two subscriptions are every
  overlap of two creations, or a replacement beside a renewal; two consents
  are a relink. Three failures are those the look-ahead of the job outlives;
  a fourth would refute `RenewedInTime`. After the second one `FewAtOnce` lets
  only renewals come, one at a time.

Where several slots, visits or values are interchangeable, the configuration
says so (symmetry), except where liveness is checked of them: in `Sending` the
liveness is the monitor's, whose behaviours leave the symmetric sets alone.
The largest runs have about 4.6 million (`ManagerConversation`), 4.5 million
(`Visits`) and 4.0 million distinct states (`Sending`). Deadlock is checked
where the system cannot stop (`LeadNotification`: the poller goes on forever;
`MicrosoftCalendar`: time does). Elsewhere a state in which everybody is idle
and the bounds are used up is legitimate, and the configuration says so.

## 4. Fairness

* InboundQueue: weak fairness of what a live process has begun, of the claim
  of each sweep (start-up; cron every five minutes) and of time. Not of
  reception: nobody has to redeliver.
* PendingAction: weak fairness of the steps of a request and, per row, of an
  expiry that includes it: a row that stays pending passes its `expiresAt`
  (nothing ever moves it) and the job, which runs every five minutes, finds
  it. Not of users or managers.
* LeadNotification: weak fairness of the poller, of begun work and of a claim
  getting stale. Not of webhooks, which may be lost.
* GreenApiHealth: weak fairness of the poll (every five minutes), of the
  delivery of webhooks that are under way, and of the cool-down passing. Not of
  the instance, which may stay as it is.
* TrackingPage: weak fairness of the clock and of what one poll after the other
  does: a timer that is due fires, a request is served, an answer is applied
  or caught. Not of the phone, the worker or the customer; how often an answer
  is lost is bounded.

Crashes and faults are bounded and never fair. The other modules state no
liveness and assume no fairness; that nobody is forgotten by the scheduled jobs
is put as a safety property of the moments when the scheduler is at rest
(`NothingLost`).

## 5. The proofs

What TLC checks on a few users, rows or messages, the proofs establish for any
number of them. They rest on the named assumptions of the modules (`...Assumption`)
and nothing else; those say that sets do not contain the marks used for "none",
that limits are natural numbers, that there is an instance, a task and an
employee, and that callers and the handlers of messages are finitely many. Two concern the code:
`PromptHandlers` of InboundQueue (a POST is done with its rows within 60 seconds)
and `PromptSenders` of LeadNotification (a claim is marked or released within five
minutes). They are hypotheses of the theorems that need them, and the runs state
the same bound.

In each proof the step from the invariant to itself is one lemma per action, and the facts that
several actions need are lemmas of their own. Three forms recur:

* **What an actor knows.** Properties relate a handler to a row, and the row can
  change between the query that read it and the one that writes it. The
  invariants hold what a handler knows *and nobody else can take away*; what
  goes stale is deliberately left out.
* **What is left of a program.** Jobs, tools and calendar operations are
  sequences of steps. Their invariants speak of the sequence still ahead: which
  step comes first, what must stand before what.
* **Accounts.** "At most once more for each failure" is not inductive: what is
  still to come must be in the account. Each such invariant adds what was done
  and what somebody is about to do; a step moves one from the second to the
  first, and only a counted failure raises the sum.

### ChangesProofs

*PendingAction.* For any numbers of users, rows, slots and failures:

| theorem | states |
|---|---|
| `Invariant` | `Spec => []IInv`, which the others rest on |
| `TypeCorrect` | `Spec => []TypeOK` |
| `WrittenOnce` | `Spec => []DueDateWrittenOnce` |
| `TwoPersons` | `Spec => []TwoPersonApproval` |
| `NotConfirmableAgain` | `Spec => []WrittenIsNotConfirmable` |
| `ResolvedOnce` | `Spec => ResolutionIsFinal` |
| `Refinement` | `Spec => KeepsPromise`, that is `Spec => Promise!Spec` |

`IInv == TypeOK /\ RowInv /\ SlotInv /\ OneWriter` (for every row and slot). None
of the properties is inductive alone: that a date is written once depends on
*which request* is to write it.

* `RowInv` says what a row looks like in each state: it has no requester or
  kind before it exists; a due date that is not EXECUTED has not been written;
  one that is EXECUTED names an elevated approver.
* `SlotInv` says what a slot knows of its row from what it has checked: a slot at
  `updating` holds an EXECUTED due date that has not been written; one at
  `approving` or `selfApproving` has an elevated caller; one at `writing` or
  `marking` is not about a due date. What a slot has *read* of the state is not
  in it.
* `OneWriter`: no two slots are to write the same due date. This is what the
  `WHERE state = ...` of `transitionState` buys, and the reason why
  `DueDateWrittenOnce` holds.

The refinement maps every step to one of `Ask`, `Refuse`, `Grant`, `Change` or a
stutter: `CommitCreate` is an `Ask` that turns the cancelled due dates down when
the new row is a due date and a `Refuse` otherwise, expiry is a `Refuse` of
several requests at once, the UPDATE of an approval is the `Grant`, and
`UpdateDueDate` the `Change`. `WrittenIsNotConfirmable` is inductive relative to
`IInv`: only `Write` makes it need a slot at `marking`, and only the step of that
slot, a failure or another confirmation that marked the row first takes the slot
away.

*Visits.* For any numbers of visits, tasks, workers and calls at once:

| theorem | states |
|---|---|
| `VisitsTypeCorrect` | `VisitsSpec => []VType`, from which `VisitsTypeOK` follows |
| `TripsEnd` | `VisitsSpec => []TripEndsWithVisit` |
| `OwnersKnow` | `VisitsSpec => []OwnerKnows` |
| `ClosedStaysClosed` | `VisitsSpec => []ClosedIsLeftAlone` |

* `VType` adds to the types what is left of each tool (`Rest`) and that a call
  has what its tool is about. `Follows` derives from `Rest` what comes after the
  step that is taken.
* `TripInv` is about the visits that are not `disturbed`, so no two tools ran
  past their check together and none broke off: one tool at a time is past its
  check (`OneAtATime`), and once the visit is finished or declined all that is
  left is a check, which will refuse, or the end of the trip
  (`OnlyTheEndIsLeft`).
* `KnowInv` is about the visits that are not `crossed`: whoever works on one is
  its owner (`ByTheOwner`), a card past its read goes to the owner and, when it
  is about to stamp, has reached him (`ToTheOwner`), hence what is stamped was
  told (`Told`). Resetting the stamp in the middle of a correction is what makes
  the second part hold through a reassignment.
* `LateInv` is an account: the late writes so far and the calls that have passed
  a check of what is closed by now (`Overdue`) are at most what was excused when
  it closed. The closing step excuses exactly the calls that become overdue; a
  late write leaves the set and raises `late`. The proof counts finite sets.

PendingAction and Visits are proved in one module; it calls the rows of Visits
`vrows` and its "none" `Unset` since both are in scope.

### InboundQueueProofs

`TypeCorrect`, and `OneOwner`: `Spec => []SingleOwner` under `PromptHandlers`.
`SingleOwner` says nothing about *why* two workers cannot meet on a row; the
invariant `OInv` adds what a holder knows (`Owned`): a POST holds a row only
while it is pending and young, a sweep only while it is processing, and what a
worker is processing is no longer on its list. Hence an INSERT that creates a
row finds it in no hand, and a claim, which takes old pending rows, finds
neither a POST (the rows would be young) nor a sweep (they would be
processing) on them. The assumption enters in one step, `Age`.

`RunsArePaidFor`: `Spec => []RepetitionsArePaidFor` under `PromptHandlers`. For
each message `Runs` adds up the runs so far, one if its row is due (not inserted
yet, pending with no worker that has run it and awaits the verdict, or claimed
and on a list), and the workers that are to run it without a row (`Copies`);
that sum is at most one more than the crashes and refused queries (`Counted`). A
handler moves one from "to come" to "so far": for a row this needs that no other
worker has it (`OneOwner`). A crash or a refused verdict makes a row due again
and a refused INSERT adds a copy; each is counted by the failure itself.

`OneFailureCostsNone`: `Spec => []OneFailureIsRecovered` under `PromptHandlers`. A lost
message took two failures, so the invariant (`Recovered`) says of each message
which failures there were and who still attends to it. `Left`: a pending row in
nobody's hands was left by a failure, and so was one that a sweep has claimed;
claimed and in nobody's hands takes two. `Unwritten`: a message whose INSERT was
refused was run, is to be run without a row, or took two failures. A step either
keeps the one who attends to the message or is itself the second failure.

### TrackingProofs

*LiveTracking.* `TypeCorrect` (every link and snapshot refers to a session that
exists), `OneTripAtATime` (`[]OneOpenSession`) and `ToldOnce`
(`[]CustomerToldOnce`). The first needs to know that the sessions a transaction
has found are the worker's (`Serving`): a session of the field that is not among
them is what makes the INSERT fail. The last rests on `Claimed`: who is about to
tell the customer has claimed the row alone, and nobody is told without a row.

`DisagreementsArePaidFor` (`[]DisagreementsPaidFor`) is an account: the visits whose
session disagrees with the status and that no handler is to settle (`Unsettled`)
are at most as many as the statements lost. `Settles` says who does: a handler
before the status write (what it will write makes the present disagreement
void) or between the write and the session, an arrival only while the visit is
still ARRIVED. So a transaction that opens a session on a finished visit leaves
none behind, since its handler writes EN_ROUTE next; an arrival whose visit was
finished meanwhile was never to settle anything; and the agent's write, which
nothing follows, counts itself. A crash takes the visits of all handlers at
once, one each, which is the product in `Losses`. The finite sets of the proof
are why handlers are assumed to be finitely many.

*TrackingPage.* `NeverMore` (`[]PollsPaidFor`) and `BackIsPaidFor`
(`[]BacksPaidFor`), for any numbers of fixes, requests, polls, time-outs and
failures. Both count, and the proofs are about finite sets and their
cardinalities.

* `Budget`: polls under way and timers, `pollTimer` and orphans together, are at
  most one more than the returns. Every step turns one into the other, ends
  one, or is a return; five lemmas (`Within`, `TimerToPoll`, `PollToTimer`,
  `NewPoll`, `TimerSet`) say so of sets, and each action is one of these.
* Hence a page nobody returned to has one poll at a time (`OnePoll`). Its
  position goes back when the row did, and the row does when a request the
  phone had given up (`Abandoned`) is served after a newer fix. `PaidInv` follows
  such a request: it is counted among the abandoned, then as a row behind what
  is shown or read (`Down`), then as a view behind what is shown, then in
  `backs`, and never in two of these places. `PhoneInv` is why the request the
  phone waits for is no way back: it carries `Front`, the oldest fix that is
  not acknowledged, beyond which nothing has been stored.

*TrackingEta.* `NeverByTime` (`EtaFallsExplained`), for any way, speed, declared
times, loads of the hours, cadences and capacities. It is an action property that
needs an invariant, `EInv`: the number shown is at least `Uncapped` of what it
came from, and equal to it unless the worker was slow or the cap held the number
up. Two numbers with the same source then differ only by these. `NumberShown`
is the arithmetic behind it: rounding up to a multiple keeps the order
(`CeilMonotone`), and slow progress and the cap only add seconds before.

### SendingProofs

*ScheduledJobs.* For any number of instances, subjects, ticks, crashes and
failures, and whatever the program of the job: `JobsTypeCorrect`,
`SendsArePaidFor` (`[]SendsPaidFor`), `NoTurnIsLost` (`[]NothingLost`) and
`LedgerIsTrue` (`[]RecordedWasSent`), all from one invariant, `JobsInv`:

* `OneRun`: one instance runs, and the rows of the others are idle. This is the
  lock; a crash releases it and forgets the run in the same step.
* `Row` says what a row at each step of its program knows: what is about to be
  recorded was sent or dropped, what is on record is past its send, except that
  the completion notice is recorded first. `InStep`: a batch is sent at once, so
  none of its rows is ahead of the send while another is behind it.
* `Account`: the sends of a subject and one if another may come (`MaySend`) are
  at most one more than the crashes, the failures and, for a card, the moves.
  Without the second term a crash between send and record could not be charged.
* `NoTickLost`: each due tick of a subject that can be written to and is not
  settled is `Covered`: it met a fault or found an earlier run at work, went to a
  full batch of rows before the subject (`PassedOver`), has not been taken up, or
  its run still has to turn to the subject.
* `Queue`: each turn a row has had is `Served`: it met a fault, lies before a
  change of the row, put the row on record, or is not over. A row that is
  selected is not on record and in no run, so its earlier turns are excused,
  which is `TurnTakenOnce`. Where the query returned a full batch without a
  subject, the turns of that very batch are the witness of `PassedOver`; they stay
  one, since `turns` only grows and what is moved later was taken up before.

The programs differ, and the proof does not treat them one by one: a lemma gives
each its *shape* (what follows what, what it begins with), and `Pays` says of a
turn what it does to the account of each row; both are shown once and used for
all jobs.

*Outbound.* For any number of prompts and deliveries at once: `OutboundTypeCorrect`,
`CopiesArePaidFor` (`[]CopiesPaidFor`) and `AnswersDoResolve`
(`[]AnswersResolve`), from `OutInv`:

* `Sending`: copies queued and on the screen, one more until the caller was told
  of success, and one if he was told of a failure the log does not show, are at
  most one more than the faults.
* `Choices`: the row of numbered choices holds the options saved last; an answer
  taken for a command of a prompt (`Token`) is a token of that prompt or of one
  saved after it, the row no longer has those options, and no command has two
  tokens. The DELETE that returns what it deleted is what makes this hold.
* `Digits`: while nothing went wrong, the options of a saved prompt are in the
  row, in the answer to it, or `Away` with another prompt; a number that stayed
  a number means the last.

*GreenApiHealth.* `HealthTypeCorrect`, and `NewsInOrder`: `AnnouncedBeforeRecovered`
for any number of changes, webhooks in any order, polls, misses and restarts, from
the invariant that a state remembered as bad was announced by the last alert.

### LeadNotificationProofs

`TypeCorrect` and `OwnerWasTold` (`[]SentWasSent`). Knowing that SENT rows were
told of is not enough: between the read of the owner and the mark, other
processes may claim the row, release it, or assign the lead. The invariant
says what a process knows at each step (`Knows`): once it has read an owner the
lead is assigned, and `Settled` shows that no channel changes the owner of an
assigned lead or takes an alert back. The rows of the poller's batch are aimed
in the same way (`BatchAimed`), until the batch is one of escalations.

`AlertsArePaidFor`: `Spec => []AlertsPaidFor` under `PromptSenders`. `PaidInv` has
two accounts, of alerts and of escalations. In each one send is free of charge
once the row is marked or somebody is about to mark it (`AlertPaid`,
`EscalationPaid`). That the one about to mark is alone is `Exclusive`: a row is
held by one process, and its claim is fresh while it is held. The assumption
enters in the step that ages claims.

### WorkerConversationProofs

For any number of visits, handlers at once, messages and events:
`ConversationTypeCorrect`, `PointerIsCurrent` (`[]CurrentPointer`), `EachEntersOnce`
(`[]EntersOnce`), and `OnlyHisAreWritten`: `Spec => OnlyHisVisits`.

The module decides in some forty ways, one operator each, and a decision is a
*plan* for the steps after it. The proof first shows of each way that its plan
is good (`Decides`), and the invariant needs only that: `PlanNames` (it names only
visits that were the worker's, and one that starts over leaves a row without a
prompt) and `PlanPoints` (the pointer it leaves is the visit departed for or
arrived at, none after a finish, or the one it found).

* `OnlyHisVisits` holds of concurrent handlers too: it needs types alone,
  `WType`, which carry `RowNames`, `TextNames` and `PlanNames`.
* The other two are about messages that come one by one. `WInv == WType /\
  (disturbed \/ InTurn)`: one handler at work; a message that was served again
  finds no prompt, and so cannot start over; the plan points to where the
  worker is.

### ManagerConversationProofs

`ManagerTypeCorrect`, `AsOffered` (`WrittenAsOffered`), `AssignedOnce`
(`LeadAssignedOnce`) and `AnsweredOnce` (`[]RepetitionsPaidFor`), for any numbers of leads, visits, values, handlers and
messages. Each of the twenty-four ways to serve a message is shown to decide on
what the row offers or the message itself asks for (`Serves`), given that rows and
plans fit their prompts (`RowFits`, `PlanFits`: a confirmation has its operation
and item, a pivot the prompt it goes back to). `MInv == MType /\ Occupied /\
Bounded /\ (overlaps = 0 /\ broken = 0 => OneByOne)`: messages that come one by
one are served one by one, and the row is the prompt on the screen or gone. So
what the row offered was on the screen. `LeadAssignedOnce` needs no invariant
but the type: the UPDATE has its own condition.

`AnsweredOnce`: `Spec => []RepetitionsPaidFor`, from `Numbered` and `Balanced`. The
account is of the repetitions so far and the handlers that have changed nothing
yet and still may (`ToAct`), those included whose message is about to be served
again. A message sent while nobody is served adds one to it for nothing, one sent
during another adds one that its overlap pays. So the account exceeds what was
paid by one at most, and not even that once somebody has acted or the prompt of
one who may act was answered. What has to be known besides: a prompt that is
still on the screen after its answer was left there by a handler that broke
off, since who has changed something settles with a new prompt, whose number
nobody has answered (`Numbered`), or was refused the next of several changes that
nobody catches, which counts as a break as well.

### MicrosoftCalendarProofs

`TypeCorrect` (every request has a token, and the subscription it is about
exists at Graph) and `TokenIsOfTheAccount` (`[]TokenOfItsAccount`). Operations
are programs, so the invariant `Inv` speaks of what is left of one: `InOrder` says
that a request follows `persist`, which follows `token`; `Concerns` that some
step ahead is about the subscription of the operation; `Ready` what its next
step needs. `TailOfProgram` and `Concatenation` carry this through a step and
through a replacement, `Programs` shows it of each program of the module.

The three properties of subscriptions rest on a second invariant, `Held`, of six
parts; its proof takes `Inv` for granted, and `Invariance` joins the two.

* `Kept`, for `OrphansArePaidFor` (`[]OrphansPaidFor`): what is alive at Graph and
  neither in the table nor counted as a stray is about to be inserted (`Found`),
  and a row is removed only when its subscription has gone or is counted
  (`Departs`). What stands before what in a program is `Orderly`: nothing is
  posted that is not inserted next, nothing is unrowed that was not removed
  just before.
* `Single`, for `SecondRowsOverlap` (`[]DuplicatesOverlap`): without failure or
  overlap one creation is past its look at the table, there is one row, and it
  is the one the creation will remove.
* `OneAccount`, `Newborn`, `Clocked` and `Renewed`, for `RenewalsAreInTime`
  (`[]RenewedInTime`). Until an account is replaced everything is of one account,
  so no renewal is refused. What is about to be inserted is known to nobody
  else and has its whole life (`Newborn`). A row promises no more than Graph
  keeps (`Clocked`): the job, which looks at rows, does not miss a subscription
  that runs out. And (`Renewed`) the hours left and twelve for each failure are
  at least 46 in sum, at least 58 once the period's renewal is over. This is
  the arithmetic of a life of 70 hours, a look-ahead of 48 and a job every 12:
  three failures leave ten hours.

### Only model-checked

The liveness properties: `PendingSettles`, `PendingResolves`, `AssignedIsSettled`,
`LastingOutageIsTold` and `EndIsShown`. TLAPS does not prove liveness under
fairness here, nor ENABLED. All the invariants and action properties of the
passing runs are theorems.

## 6. Where code and documents disagree

Three runs expect a violation; each states a sentence of a comment and shows the
behaviour that refutes it (details in `PROJECT.json`, "findings"):

1. "closed on ..." (`services/tracking.ts:6-7`): not by the agent's tool.
2. "yes -> delete" (`ai/router.ts:3833-3834`): not in Hebrew, since `\b` does
   not hold behind a Hebrew letter.
3. Eight samples are "well over what a 2-min window needs"
   (`services/progressDetector.ts:33`): at the page's 12 seconds they span 96,
   no sample is ever old enough, and slow progress is never seen.

Behaviours of the models at odds with a comment that no run is spent on; the
property in parentheses says what does hold:

* "a crash mid-processing never loses it" (`routes/webhook.ts:10-11`): rows
  claimed by a sweep that crashes stay `processing`. One failure is survived,
  two are not (`OneFailureIsRecovered`).
* "avoids racing in-flight messages" (`services/inboundQueue.ts:48-49`): only
  while a POST takes less than 60 seconds for all its messages (`SingleOwner`
  under `PromptHandlers`).
* "PENDING_EMPLOYEE_CONFIRM rows never pile up"
  (`services/pendingActions.ts:22-23`): two overlapping creations do.
* "at-most-one delivery" (`jobs/leadAssignmentNotifier.ts:12`): at most one
  more per failure (`AlertsPaidFor`).
* "Pointer's TF closed / not owned / missing -> fall through"
  (`ai/router.ts:510`, and a test with the row idle): at a travel time prompt
  it falls through to a handler that writes the same visit (`EtaVerb`).
* "rows inserted only after a successful send" (`services/digestSendLog.ts:22`):
  a send the preflight blocks resolves with `null` and counts as one
  (`RecordedWasSent`, with `dropped`).
* A prompt's numbers die with the next prompt (`services/pendingChoice.ts:12`):
  a plain list writes no choice, so the numbers of an older prompt answer it.
* `createEventsSubscription` promises not to duplicate: overlapping creations
  do (`DuplicatesOverlap`).
* Comments on the view (`services/tracking.ts:541-552`) and on the calibration
  (`services/workerCalibration.ts:100`) name a countdown from
  `expectedArrivalAt` as a source of the minutes; `computeConservativeEta` has
  no such source, and `EtaFallsExplained` is what its absence buys.
* A comment of the numeric pickers excludes `correct_site_pick_field`
  (`ai/router.ts:192-196`), the set contains it.

Seen while modelling: the two-person flow for due dates that README describes
cannot be entered (see PendingAction above); migration 022:24-26 says that
ESCALATED_1H "reuses the same claim/mark/release helpers", while
`processEscalations` checks, sends and records; an outage that ends over
yellowCard is never reported as over (`greenapiHealth.ts:137`). In the worker's
conversation: taps of an assignment card write their visit without asking whose
it is (`CardTap`), and a travel time, a note or a menu choice that comes late is
written to a visit that may be closed by then; a bare "cancel" at a note prompt
is recorded as the note (`Captured`); a verb that names another visit still
moves the current one (`FastPath`); the agent's departure leaves the pointer
where it was (`CallTool`); an old list shows numbers that a newer menu reads
its own way (`PickerReply`). In the manager's: a lead whose assignment is
refused leaves the confirmation open; the clarification of the AI loses the
visit the sentence was about; a reassignment that meets several tasks asks again
with the same list. On the tracking page: a fix counts as fresh by when it
was received, so that one from a backlog does too; the number may fall without
the worker moving, when the load of the hour does; a second departure to the
same visit supersedes the session whose link the customer holds; a return to
the page while a poll is under way starts a second chain of polls
(`PollsPaidFor`).

## 7. What is not modelled, and why

`PROJECT.json` lists every component with its reason. In short: what a
language model answers (for a model, any answer); wording, templates and
formatting; read-only queries; HTTP clients (a send succeeds or fails); request
authentication; floating-point geometry. Components that have state of their
own and are not modelled *yet* are in the plan.

Abstractions inside the models: payloads, texts, phone numbers and the audit
log are left out; which rows of the inbound queue or of the lead poller are the
oldest, which requests are overdue and which rows a lock hides is left open, so
that the properties hold for every choice (the queues of ScheduledJobs have
their order).
One process is modelled, except in ScheduledJobs. The keys, locks and guarded
UPDATEs that the properties rest on are in the database and would serve a
second process alike; `fallbackSeen` would not be shared.

Some hazards are in the models and not excluded by the properties, because the
code is open to them; the properties bound or exempt what happens:

* A confirmation between the write of a task and the mark of its row writes
  again (`WrittenIsNotConfirmable` exempts that moment), and a due date whose write
  fails after its approval stays as it was (`DueDateChange` promises at most one
  change).
* A redelivery of an id that `fallbackSeen` has forgotten, and a verdict of
  failure over what was done, come after a failure, which pays for the
  repetition (`RepetitionsArePaidFor`); the wrong apology itself is in no property.
* Two tools on one visit, or one that breaks off between status and session, may
  leave a trip open (`disturbed` in `TripEndsWithVisit`); a poll that stamps what it
  read before a reassignment hides the visit from its new worker (`crossed` in
  `OwnerKnows`); a call that had checked a visit before it was closed writes it
  once (`excused` in `ClosedIsLeftAlone`).
* An answer may reach a visit that was the worker's and is no longer
  (`OnlyHisVisits`); a field refused after others makes the same answer write
  those again (`broken` in `RepetitionsPaidFor`).
* A refresh under way when the account is replaced stores the token of the old
  one (`mixed` in `TokenOfItsAccount`).
* Rows at the head of a queue that fail at every tick, or whose worker has no
  phone, keep their place: fifty such visits would keep the assignment cards of
  all later ones from being sent (`services/inspectionAssignment.ts:101`).
  `NothingLost` lets a full batch of earlier rows take a turn, and says that
  healthy ones take it once.

Two hazards are seen in the code and in no model: the window of a digest that
is set close to midnight is cut off at 24:00, because the minutes of the day
wrap (`jobs/digestDispatcher.ts:62`); and whether the requester may edit a task
is checked when he asks for it and not again when he confirms
(`routes/tasks.ts:442`).
Of the components listed as partly modelled the rest is this: of OwnTracks the
provisioning of devices; of the routes the HTTP clients with their short
caches; of the digests their contents and the commands that set them; of the
router the digest settings and the legacy intent parser; of the voice assistant
the queries it answers; of the senders the second provider, which keeps no
state.

## 8. The plan

In the order of importance:

1. **Composition**: InboundQueue (handlers in any order) with the conversations
   and PendingAction (the internal routes with their 15-second timeout, after
   which a router repeats what a route has done).
2. **One ledger specification**: record after, record before, claim and mark,
   and stamp as instances of one abstract at-most/at-least-once promise, which
   LeadNotification and the programs of ScheduledJobs implement.
3. **Device provisioning** of OwnTracks: identities that are activated, revoked
   and cached.
4. **Algorithms**: the permission table and date ranges as operators, against
   reference definitions over bounded inputs.

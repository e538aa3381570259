# Verification of the FreightX workflow backend

TLA+ models, TLC runs and TLAPS proofs of the core of the backend in `src/`: a
FastAPI and Celery service that runs LangGraph workflows for freight carriers
(load tendering, ratecons, driver assignment, proof of delivery, appointment
scheduling). `PROJECT.json` lists the components, the runs, the theorems, the
hazards, and, definition by definition, the source lines each one models.

## 1. The system

A webhook, an inbound email, a reminder or another graph asks for a workflow
run. The request is resolved to a row of `workflow_lifecycles` (one per
shipment or tender and workflow), put on that lifecycle's run queue, and run by
a Celery worker as a graph; the graph's nodes call the TMS, send mail, schedule
reminders and move the lifecycle through `LifecycleTransitionService`, which
writes `activity_logs`.

| Component | State | Operations | Interacts through | Hard because |
|---|---|---|---|---|
| Serialized run queue | Redis list per key, broker | admit, complete, peek, publish | Redis, Celery | many callers, many workers, lost processes |
| Lifecycle transitions | one `workflow_lifecycles` row, `activity_logs` | record action / exception / info / status / sub-status / sequence | Postgres row lock | callers decide on what they read before the lock |
| Recorders of each workflow | none | about sixty, one sequence each | the two above | stale reads, resumed reviews, pauses |
| Lifecycle resolution | `workflow_lifecycles` | find, insert, link | Postgres, no unique index | find-then-insert; what is found depends on what was updated last |
| Reminders | Celery tasks with a countdown, `metadata.pending_reminder_tasks` | schedule, register, cancel, fire | Celery, Postgres without lock | cancel racing register racing fire |
| Cancellation and supersession | none | cancel by shipment | transitions, reminders | several steps, each may fail alone |
| Driver assignment | lifecycle, metadata | start, remind, escalate, assign in TMS | graph runs, ratecons, mail | a cycle cancelled while its run is under way |
| POD lifecycle | lifecycle, documents | request, upload, score, upload to TMS | graph runs, portal | manual and automatic uploads race |
| POD pages and score | staged files, merged PDF, extraction row, object, score | stage, merge, label, trim, store, score, rescore | S3, LLM, Turvo, Postgres | each step can fail alone; a rescore reads what a run writes |
| Tender import | imports, locations, tenders | record a workbook, project, group, start | mail queue, Excel files | retried webhooks, a worker that dies half way |
| Ratecon ingress | shipments, lifecycles, documents | supersede, resolve, enqueue, file, hand over | webhooks, graph runs | every step is a transaction of its own |
| Load tendering | tender, lifecycle, routing guide attempt | send, remind, acknowledge, advance | mail, reminders | carrier waterfall against late answers |
| Appointment scheduling | lifecycle, draft | draft, claim, send, reply | portal, mail | claim against publication |
| Email ingress, communications | messages, threads, second run queue | dedupe, link, tell what a thread is about, build the text of a thread | webhooks | several hands link the same rows |
| Runs, graphs, routers | `workflow_runs`, checkpoints | start, finish, route | graph | terminal status of a run that raises |
| OAuth, alerts | tokens, retried tasks | refresh, deliver | TMS, mail | refresh under concurrency |
| Adapters, storage, API | none of interest | requests, upserts | outside services | pure input and output |

What makes each correct, in short: a key runs one attempt at a time, in order,
each once (queue); the audit trail ends where the row is, a pause is there
exactly while the last word was a failure (transitions); one live lifecycle
per shipment and workflow (resolution); no reminder after an answer, no live
task that nobody can revoke (reminders); a cancelled cycle stays cancelled
(driver assignment); at most one tender in force per load (load tendering); a
draft is sent once, and what the customer was told stands in both vendors'
systems (appointments); nobody is asked for a POD that is on file, and no point
of its score lacks evidence (POD); the sheet, its tenders and their runs agree
(import); a reply goes to what its thread is about and is decided on its own
words (communications).

## 2. Modules

| Module | Kind | Models |
|---|---|---|
| `SerialExecution` | abstract specification | what the queue promises: one at a time, in order, at most once; a key may halt |
| `RunQueue` | detailed specification | `LifecycleRunQueueService`, `LifecycleRunSerializerService`, `run_workflow_async`; the email ingress queue is the same code shape over its own keys |
| `MCRunQueue` | TLC | symmetry |
| `LifecycleTransition` | pure operators | `LifecycleTransitionService`, command by command |
| `LifecycleRequests` | pure operators | what each caller in each workflow sends, given what it read |
| `LifecycleRequestsProofs` | proofs | what a sequence of commands makes of a row, for any sub-statuses: of any length its type, of one to three commands the row itself |
| `LifecycleLog` | detailed specification | one row, its log, its lock, and the callers |
| `QueueAndLogProofs` | proofs | of `RunQueue` its invariants and refinement, of `LifecycleLog` the trail, the review property and the pause, for all constants |
| `MCLifecycleLog` | TLC | the sub-statuses and the requests of the program |
| `DriverContacts` | state and operators | the TMS's driver contacts, their search, choice and creation |
| `DriverAssignment` | detailed specification | one shipment's driver assignment: gates, runs, reminder tasks, replies, cancellation, the TMS; uses `DriverContacts` |
| `DriverAssignmentProofs` | proofs | schedule, ladder, late reminders, the driver in the TMS, the contact chosen |
| `MCDriverAssignment` | TLC | reminder plans, directories of contacts, what replies name |
| `LoadTendering` | detailed specification | the tender of one load: ingress of mails, runs, timers, the carrier waterfall |
| `LoadTenderingProofs` | proofs | no carrier skipped, escalation, reminders per attempt, late timers |
| `MCLoadTendering` | TLC | kinds of loads, symmetry of threads |
| `TenderIntake` | detailed specification | from a mail with workbooks to the run of each tender |
| `TenderIntakeProofs` | proofs | one import and one start, stranded tenders, own locations, what is cut from a sheet |
| `MCTenderIntake` | TLC | mails, workbooks row by row |
| `AppointmentScheduling` | detailed specification | the delivery appointment of one shipment |
| `AppointmentSchedulingProofs` | proofs | types, one draft to the customer, what the row tells, what stays settled |
| `PodLifecycle`, `MCPodLifecycle` | detailed specification | the POD of one shipment, run by run |
| `PodLifecycleProofs` | proofs | types, each reminder once, what the row tells, late reminders |
| `PodPages`, `MCPodPages` | detailed specification | the pages of its packets, from the attachment to the score |
| `LifecycleStore` | state and operators | the rows of `workflow_lifecycles`, how one is found or inserted |
| `Communications` | state and operators | the rows of `communications`, their links, threads, and their text |
| `RateconIntake`, `MCRateconIntake` | detailed specification | the mails of a ratecon tenant, from the webhook to the driver request; uses the two above |
| `RateconIntakeProofs` | proofs | the tables agree, the ratecon that stands, links made once, the request a reply goes to, what it is decided on |

### RunQueue

`inbox[k]` is the Redis list; `starting` are callers between their RPUSH and
their `apply_async`; `broker[k]` are messages; `wpc`, `wkey`, `witem` are the
workers. Each Redis command is one action, because each is atomic in Redis and
anything may happen between two of them: `Admit` (RPUSH and the length it
returns), `PublishHead`, `Take` (acknowledged on delivery, as `celery_app.py`
sets), `Run`, `Record` (the except branch), `Complete` (the MULTI of LPOP and
LLEN), `Peek`, `Drop` (the LPOP of an entry that does not decode) and
`PublishNext`. `CallerLost` and `WorkerLost` are a process that dies or an
exception where the code has no handler; `ForeignPush` puts an undecodable
entry on a list, which the program itself never does but `peek_head` handles.
`arrivals` and `log` are history variables and no action reads them but to
give each item one arrival.

### LifecycleTransition, LifecycleRequests, LifecycleLog

A caller reads the row in one transaction (`Read`), decides, and sends a
command sequence in another that locks the row (`Begin`), applies each command
(`StepCommand`) and commits or rolls back. `view[c]` is what the caller read, possibly
long ago. The requests are those of the source: `LifecycleRequests` has one
operator per recorder, which maps the view to the sequences it may send. Where
a recorder depends on data outside the row (what the mail said, what the TMS
answered) it returns every sequence it could send.

### DriverAssignment

`row` is the lifecycle as committed, `queue` and `run` the head of its run
queue, which `RunQueue` allows to be one run at a time in arrival order. A run
is at the node named by `run.at`; a node that reads the row and one that writes
it are two actions (`record` to `write`), since a cancellation, the portal or
the TMS may act in between. Row writes go through the command operators of
`LifecycleTransition` and the requests of `LifecycleRequests`, so that a write
decided on an old read does here what it does in the code.

| Action | Code |
|---|---|
| `RateconPasses`, `RateconEnqueues` | `try_enqueue_from_ratecon_state`, before and after the gates |
| `Prepare`, `CheckStart` | the same gates asked by the run, without and with its own `workflow_runs` row |
| `Schedule`, `RecordStarted` | `WorkflowReminderService.schedule` with its roll-back, `record_started` |
| `Fire`, `Fetch`, `CheckReminder`, `CheckEscalation` | a delayed task, `get_shipment`, the two eligibility checks |
| `SendReminder`, `SendFollowUp`, `RecordReminder`, `AppendSent` | the reminder mail, or one that failed, the partial follow-up, the ladder, the sent steps |
| `Post`, `RecordEscalation`, `EndGraph` | Teams message and its record, or the graph's end after a failed one |
| `ReplyArrives`, `Classify`, `ResolveDriver`, `CreateContact`, `Put` | a carrier's mail, the LLM's verdict (any), contact search, the POST of a contact, the PUT of the driver |
| `RecordSuccess`, `CompleteFromTms`, `Confirm`, `Finish` | success, driver already there, confirmation mail, completion |
| `OutsideDecides`, `OutsideWrites` | tendered and superseded cancellation, portal resolution: read, then write |
| `Dispatch` | a dispatcher's edit in the TMS: the driver, the pickup being executed, the mode, status or carrier |
| `Raise` | an exception no node catches, or a lost worker |

`Failing` is the set of calls that may fail; a call fails in every way the code
tells apart (refused, timed out and not carried out, timed out and carried out).
The pickup appointment, mail texts and settings are abstracted away: they decide
which branch a run takes, and every branch is possible.

Of a shipment (`tms`, and `run.seen` as a run has read it) the model keeps the
drivers, whether it was picked up, and `eligible`:
`driver_request_eligible_from_payload` asks for a covered truckload of a carrier
that is not excluded. A delayed task asks `Assigned` first, then `Eligible`, then
the row's gates; a shipment that could not be fetched is a stub
(`NoShipment`), neither assigned nor eligible, which ends the run.

What a reply names is a `Block`: a set of name tokens, a phone, an e-mail.
`DriverContacts` has the TMS's contacts, with `Directory` those at the start, and
follows `ResolveDriver` from the search by phone, or by name, through the
contacts tab and the paginated list (`TabLimit` and `ListLimit` stand for their
page caps) to one contact, an ambiguity, or a creation, which may time out and
be carried out all the same (`CreateContact`). A contact whose own GET fails is
missing from the result without an error; `hydrate` in `Failing` allows it.

### LoadTendering

The same shape for the tender of one load, with the mail ingress in front of
the run queue. `attempt` and `marked` are the routing guide attempt and the
attempt whose reminders have been scheduled, both in the lifecycle's metadata;
`pending` is the metadata list of timers that can be revoked and `tasks` those
that Celery holds, which differ when a registration or a revocation fails.
`mails` are the inbound communications in the order of `created_at`, each with
the event of the run it is linked to, since everything the code knows of a
thread (`thread_attempt_for_lifecycle`, `is_retired_carrier_thread`,
`is_thread_linked_to_lifecycle`) is computed from those links. A mail passes
the guards (`ReadMail`), is enqueued (`EnqueueMail`) and linked (`LinkMail`) in
three steps, and other mails, runs and timers act in between. An event carries
the attempt that was live when it was enqueued.

| Action | Code |
|---|---|
| `Arrive`, `ReadMail`, `EnqueueMail`, `LinkMail` | an inbound mail, `_try_ack_received` and `_carrier_email_received` with their guards, `enqueue_gelita_load_tendering_and_link` |
| `RecordCreated`, `Read`, `SafeNodeFails`, `SkipTender` | `record_tender_created_activity`, `read_tender_row` with `post_read_tender_router`, a failing node, the international and pack code skips |
| `SendTender`, `RecordWarnings`, `LogTender` | the tender mail, its warnings, `record_tenant_sent` |
| `RecordCarrier`, `Schedule`, `Mark` | a carrier's first mail, `schedule_tender_reminders`, `mark_reminders_scheduled_for_attempt` |
| `Fire`, `Remind`, `UpdateReminder` | a delayed task, the reminder mail, its record |
| `Guard`, `Classify`, `RecordAck` | automatic replies and retired threads, the LLM's verdict (any), `record_ack_received` |
| `Route`, `Advance`, `Bump` | refusal or timeout: the next carrier, an escalation, or a final refusal; `cancel_for_attempt`, then `set_routing_guide_attempt` |
| `Escalate`, `Notify`, `RecordEscalation` | `escalate_tender`, which looks at the row before and after its mail |
| `Portal`, `Raise` | a resolution by a user, an exception no node catches or a lost worker |

### TenderIntake

`inbox[m]` is the length of the queue of a mail, `broker` the mails that Celery
holds, `work[w]` the worker and its position; `failed` the list of failed items,
`imports` the `data_imports` of orders, `places` those of locations, `tenders`
the tenders with their lines, `started` the runs each got. Cells of a workbook
are pairs of the type the reader gave them and their text, since identifiers,
positions and quantities are normalised by type (`10.0` and `"10"` are one
position). The pure part (`Kept`, `Usable`, `Headers`, `Lines`, `Inserted`)
follows `dedupe_projected_rows_by_order_and_position` and
`persist_from_projected_rows`.

| Action | Code |
|---|---|
| `Deliver`, `Take`, `Complete` | the webhook, its admission and publication, the task of the mail's queue |
| `FetchPlaces`, `FindPlaces`, `WritePlaces` | the workbook of delivery locations, fetched with retries, looked up and recorded |
| `Seek`, `Fetch`, `Record` | the look-up of an import by mail and attachment, the workbook of orders, its row |
| `Project`, `Index`, `Persist` | the projection of its rows, the newest locations, tenders and lines in one transaction |
| `Start`, `Queue` | for each new tender its lifecycle, then its RPUSH and publication |
| `Fail`, `Die` | the except branch that records the failure; a worker that is lost |

### AppointmentScheduling

`row` and `meta` are the lifecycle and its metadata, `rowId` whether its id came
from the shipment number or was drawn, `hooks` pickup updates past the gates but
not enqueued, `claims` drafts claimed but not published, `replies` how far the
ingress is with each reply; `tms` has the delivery time in Ascend and in Turvo,
`mailed` and `confirmed` what the customer was told.

| Action | Code |
|---|---|
| `CheckHook`, `EnqueueHook` | the pickup webhook, its gates, its admission |
| `PrepareLinked`, `PrepareSkipped`, `PrepareCreated`, `RunStray` | `prepare_pickup_changed` for a shipment that is linked or not, a run without its row |
| `RecordStarted`, `Intake`, `Decide`, `Persist`, `PersistFacts`, `FinalizeIntake` | facts and contact, the LLM's slot (any), the draft and the shipment's facts, the review |
| `Claim`, `Publish` | `claim_appointment_draft_send_queued` and the admission that follows |
| `Hydrate`, `WeekendPickup`, `SendDraft`, `SendFails`, `ApplyPlaceholder`, `FinalizeAwaiting` | the send, its record, the placeholder in Turvo, the sub-status |
| `ReplyArrives`, `ResolveReply`, `EnqueueReply` | a reply, the lifecycle that awaits it, its admission |
| `Classify`, `ApplyAscend`, `ApplyAscendSkipped`, `ApplyTurvo`, `Confirm`, `ApplyTender`, `RecordCompleted`, `RecordRejected` | the reply's run; every vendor call may be refused, or time out and be carried out |
| `Portal`, `Raise`, `WriteRow` | a resolution by a user, a lost run, the next command of a sequence |

### PodLifecycle and PodPages

`PodLifecycle` has the lifecycle: webhooks past the gates (`RouteCompleted`,
`EnqueueRoute`), mails (`PacketMailed`, `EnqueuePacket`), uploads by hand, two
reminder steps, and runs that assess, merge, read, store, score and push what
came (`Reading`, `Finishing`). `stored` is whether a documents row names a POD,
`inTms` whether Turvo lists one, which dispatchers may bring about themselves
(`AttachInTurvo`).

`PodPages` has the content. A page is a label, the order numbers on it, blocks
with a printed label, a name and an address, times, and proofs of receipt; a
text is its set of tokens, and two texts match if they share one. A packet's
files are judged, staged (a file that cannot be written is silently left out),
merged, read by the LLM (any label lost, any number wrong, as far as `Failing`
allows), trimmed of rate confirmations by page number, stored, and scored
against one of three shipments; a rescoring task reads the stored object or
the stored extraction beside the next run. Points are the code's own, with its
prorations and its rounding.

### RateconIntake, LifecycleStore, Communications

The process that serves webhooks (`api`) takes one mail at a time and gives way
only while it waits for the TMS (`waiting`); two workers run what it queues, each
lifecycle one run at a time and in order (`items`). The rows of
`workflow_lifecycles` are in `LifecycleStore`, in the order of their last update
(`recent`), because every look-up takes the newest; `Communications` has the rows of mails and drafts
and the run ids they carry.

| Action | Code |
|---|---|
| `Deliver`, `TryPod`, `TryAppointment`, `RecordReply`, `TryDriver` | the order in which a t3ra mail is offered to the workflows |
| `Fetch`, `Upsert`, `FindRatecon`, `CancelRatecon`, `FindDriver`, `CancelDriver` | a ratecon's shipment, then superseding the cycles before it, look-up and write apart |
| `Resolution`, `Push`, `LinkReply` | find or insert the lifecycle, enqueue, link the reply to its run |
| `RecordMail`, `StartRun`, `RecordRun`, `LinkRun` | the run records the mail, itself, and the link of the thread's rows |
| `Locate`, `InsertPlaces`, `RecordReceived`, `Upload`, `RecordUpload` | locations found then inserted, received, each attachment to S3 and documents |
| `Gate`, `LookUpDriver`, `InsertDriver`, `PushDriver` | the tail that opens a driver request: look-up and insert apart |
| `PrepareStart`, `CheckStart`, `RecordStarted`, `Remind`, `SendReminder`, `RecordReminder` | the driver request's own run and its reminder on the thread |
| `ReadDetails`, `ReadReply`, `DecideDetails`, `DecideReply` | the text of the thread, oldest first and up to `Limit`, cut as `_mapper.py` cuts it; then any verdict |

A mail's body is a sequence of parts: the sender's own words, quoted words, and
the marks mail programs leave (`hr`, `div`, `quote`, `wrote`, ...);
`StripQuotedHtml`, `StripQuotedPlain` and their neighbours work on the marks as
the code's regular expressions do on the text. `HeaderDivs` are the parts that
`_OUTLOOK_FWD_HEADER_DIV_RE` takes out: from the first division after its last
match up to the end of the next From/Sent/Subject header, whatever is in between. A header
that is left is text, an `inline` mark once it is on one line with the rest.

## 3. Runs

| Run | Bounds | Shows |
|---|---|---|
| `RunQueueSafety` | 2 keys, 4 items (1 blank), 2 workers, 2 faults | at most one task in flight, completion of its own item, no key orphaned before the first fault, refinement of `SerialExecution` (arrival order, nothing twice, a halted key stays so) |
| `RunQueueLive` | 2 keys, 3 items (1 undecodable), 2 workers, 1 fault | every admitted item is attempted unless its own key was orphaned; what is dropped never runs |
| `LogPrograms` | 5 workflows, 2 callers, 3 transactions | trail, pause and review consistent under all interleavings |
| `DriverSafety` | 2 ratecons, 2 steps and the escalation, 1 contact known and 1 to be created, 1 reply, 1 outside write, 1 TMS edit, everything may fail | one schedule per open cycle, one rung at a time, late reminders do nothing |
| `DriverLive` | 1 ratecon, any part of 1 step and the escalation, 1 driver entered twice, 4 kinds of reply, 2 replies, a cancellation or a resolution, 1 TMS edit; TMS, POST, PUT, mail, Teams, registration and revocation may fail | the contact assigned is the one named, none is made twice, one driver left in the TMS and success recorded only of a shipment with a driver until a dispatcher edits; a cycle leaves processing, unless nothing was planned or its last task came to nothing |
| `TenderSafety` | LTL with 1 carrier, FTL with 2 and with 3; 2 threads, 2 mails, 1 reminder step and the escalation, 1 resolution; `read`, `mail`, `enqueue`, `register`, `revoke`, `link`, `raise` may fail | one decision passes over one carrier, only the last carrier's silence or refusal escalates, reminders once per attempt and recorded only while it is live, late timers do nothing |
| `AppointmentSafety` | 2 pickup updates, 2 replies, 1 portal write, linked shipment or not, Ascend written or not, every operation may fail | the draft mailed once; waiting means mailed with a placeholder, scheduled means confirmed and in both systems; what is settled stays |
| `PodSafety` | 2 webhooks, 2 packets, 2 reminder steps, 1 outside write, few or many stops, every operation may fail | each reminder once, none undoes a POD; in Turvo if so recorded; a POD on file is reviewed, done or failed |
| `PodPagesSafety` | 2 packets of up to 2 files of 4, 1 rescore, 5 kinds of page, 3 shipments, page cap 4, every operation may fail | stored is the packet less its rate confirmations; points have evidence, buckets do not overflow, no pass without receipt |
| `TenderIntakeSafety` | 3 mails (2 workbooks, delivered twice; new locations; no account), 10 rows, 2 without an order, in 2 orders, 2 workers, 1 lost, every operation may fail | tenders and lines match the sheet, one import and one start each, stranded tenders accounted for, own locations first |
| `RateconIntakeSafety` | 9 mails in 8 orders on 5 threads, 2 loads that share a place, 2 workers, 1 reminder, failures spread over the mails | the newest ratecon stands, links are never changed and lead to the right load, documents behind the status, replies decided on their own words, but those that go with a header |

Properties whose names end in `Inv` join several invariants of one module, the
type invariant among them, and are stated part by part in the module.

Two workers and two callers are what a race needs; three or four items give a
running head, a waiting one and one that arrives in between; faults beyond the
number of keys only repeat. Three transactions allow a start, a change, and a
change by a caller that read before it. In the driver runs the second ratecon
races the first or restarts its cycle, the second reply meets the driver of the
first and the contact it may have created, and one outside write is enough to
fall between any read and its write; two steps of the schedule and a follow-up
make three rungs out of order, and a step mailed but not marked makes a fourth.
Deadlock checking is off for the queue, driver assignment and load tendering,
which stop when all requests have been dealt with; so do the later modules, for
the same reason.

In the two driver runs the tab of contacts is wide enough and the
list is not (`TabLimit` 9, `ListLimit` 1): a contact beyond both caps is created
again, which is the code's behaviour. `NamedDriver` and `OneContactPerPhone` are
checked without `hydrate` in `Failing`, since a contact whose GET fails is
dropped without an error and then made again.

`TmsInv` says that one driver is left until a dispatcher edits: one who adds
a driver between a run's fetch and its PUT leaves two on the shipment.

`DriverLive` asks of a cycle that stays in processing what kept it there.
`ProcessingEnds` excepts two situations: at `started` no task waits
(`NothingPlanned`: the pickup is near or past and `plan_before_pickup_reminders`
left nothing), or no task waits and the last one came to nothing (`LastGivenUp`).
A task comes to nothing when the shipment it reads shows no driver and is not
eligible (a covered truckload with an allowed carrier no more, or a stub after a
failed fetch), when its mail fails, or when its post to Teams fails: in each case the code
ends the run without a record, nothing is scheduled again, and the row stays in
processing. Everything else must not keep it there: a task that fails with
another still to come, a reply that assigns nobody, a PUT that is refused or
times out, a revocation that missed, a rolled-back registration, a driver
assigned and taken off again. `raise` is not in `Failing`: a run that dies leaves
the row where it is, and after success was recorded no task is left to go on.

`AppointmentSafety` needs two pickup updates because the second rewrites a
draft that may be claimed or sent already, and two replies because the second
is enqueued while the first is under way. `PodSafety` needs two of each for the
same race, and a dispatcher who attaches a POD in Turvo meanwhile. In
`PodPagesSafety` two packets let a rescore read one and store over the other;
the five pages are one of each kind that scoring tells apart.
`TenderIntakeSafety` delivers one mail twice; the rows of its sheet hold each
case of grouping once (a position repeated, a line repeated under another
position, a row completed by a later one, no position, and a complete row without
an order, of which no tender is made). Of the
locations, `OwnLocations` says that the newest row is the mail's own, or later,
where there is one row or are two workers, as in the run. Two runs that both
insert the first row, and a third that began before the second wrote and writes
after it, can leave the older row the newer by its `updated_at`; what holds of
any number of workers is proved besides. `RateconIntakeSafety` bounds mails by
`Streams`, the orders in which they may come, and gives each mail the failures
of its own steps: with all failures for all mails it is beyond reach (it has
1.4 million states so). `Limit` is 2 messages of a thread, of the code's 50.

In `TenderSafety` two mails race each other through the ingress, refuse two
attempts in a row, or bind a thread and answer on it, beside as many timers as
two scheduled attempts leave; three carriers make an attempt that is neither
the first nor the last. Three mails are out of reach (1.8 million states with
two). `Failing` leaves out two operations. With `mark`, or with an exception at
that node, `RemindersOnce` fails: the tasks are out before the attempt is
marked. With `cancel` and `revoke` together, `RecordedAreLive` fails: the
timers stay on the lifecycle of which `advance` could neither revoke the tasks
nor clear the list. Both are the code's behaviour, and TLC shows either with
one word added to the configuration; nothing the code says promises otherwise.
`LateTimersLost` allows a timer the record of its own failure: a late timer
whose `read_tender_row` fails reopens an accepted tender to pending_review.

One run is expected to fail, on a sentence of the code about itself
(`PROJECT.json`, findings, has the quotation):

| Run | Property | What happens |
|---|---|---|
| `TenderRetired` | `LiveThreadNotRetired` | a refusal on a thread with no carrier run advances the attempt; the next carrier's thread is first in rank and its reply is dropped as retired |

Disagreements of the code with what it says, and behaviour nobody states, met
while modelling and without a run of their own:

*Queue and lifecycle.* `peek_head` drops an undecodable head in a second
command, and an admission in between lets two attempts of a key run
(lifecycle_run_queue_service.py:64 "at most one in-flight Celery task per key").
`enqueue` answers "buffered", documented as "another run is already in flight",
also after a lost process. A business failure pauses the row as a system error
(error_handler.py:78 "Business gaps are audited in activity logs, not via
lifecycle pause"): the recorder passes no pause and `_resolve_pause_context`
puts one. A second tender reminder, which carries no status, ends the review
that the first asked for. `record_exception`, documented as "no lifecycle
update", pauses the row. A snapshot that follows a transition logs the state
before it.

*Driver assignment.* A ratecon that restarts a cancelled cycle is enqueued on the
cancelled row: its reminders are scheduled and skipped one by one. A cancellation
decided before a driver was recorded is written over `uploaded_to_tms`. A reply
enqueued before a cancellation is processed after it. A single contact with the
reply's phone is taken whatever its name (a test says so); beside one whose GET
failed, so is one of several. `shipments.driver_details` is merged field by field
over replies and may name half of one driver and half of another.

*Load tendering.* A second reply enqueued before the first was recorded overwrites
the acceptance, or refuses it and tenders the load to the next carrier.
`schedule_tender_reminders`, documented as idempotent, is not for LTL loads. A
carrier mail read at attempt 1 whose run starts after an advance is recorded as
`tender_sent_to_carrier_2`.

*Tender import.* A worker that dies, or a start that fails, strands the tenders not yet
started; a second delivery of the mail inserts every tender again and starts a
second run per order, which the graph then ends as stale. Failures of projection
and of persisting are logged, the mail is accepted and is on no failed list. Two
workers that record locations at once insert two rows. Lines are deduplicated
before they are judged valid, so a good row goes when a bad one of its position
came first. The second workbook of orders in a mail is ignored. Lines equal in product,
quantity and pack collapse.

*Ratecons.* A run of a superseded ratecon that was under way writes `received` and
un-cancels it (ratecon_cancel_service.py: "Cancel active ratecon lifecycles
superseded by a new inbound ratecon email."). Superseding is committed before the
new one is enqueued: a failure leaves the load with none. Two tails open two
driver requests. Two runs that insert one location: the loser's IntegrityError
is caught inside the transaction that it aborted, although the docstring of
`insert_location_tx` says "return id, or ``None`` on unique-key conflict", and
the run fails. A webhook delivered twice supersedes its own lifecycle. A reply is
decided without words under a quotation, or after the word "on" where a line
ends in "wrote:" (`_ON_WROTE_RE`). In a mail without an `<hr>` the pattern for a
forward header begins at the first division, so the sender's words in a division
above the header go with it (_mapper.py:92: "Remove forward/reply noise from HTML
while keeping substantive body text."); `ReplyRead` excepts such mails
(`Swallowed`; `outlook` in `MCRateconIntake` is one, and breaks it without the
exception). `list_email_thread` takes the oldest 50, so
a long thread is decided without its newest mail.

*Appointments.* The run that sends a weekend-shifted draft has no `ascend_context`, so
`plan_ascend_pickup_update` plans nothing and the pickup is moved nowhere; the
fetch of the appointments a few lines further is never reached
(weekend_pickup_service.py: "Weekend-shifted pickup TMS writes for appointment
scheduling confirm."). A shipment that is linked already bypasses the gates of
`prepare_pickup_changed`. `mark_failed` and `mark_restartable_skip` have no
callers, so a failure's reason is never on the lifecycle; `email_sent` is never reset.

*POD.* A mail that comes after `uploaded_to_tms`, or before a manual upload has
finished, reopens the lifecycle: the done set of the upload lacks what the set
for several stops has. `trim` fails a packet that `pod_analysis` documents as a
soft failure. A POD of a shipment with several stops stays at
`document_uploaded`, which reminders do not skip. A failed insert of the documents
row counts as success. A `route_completed` run is on record before it has
scheduled: if it dies, later webhooks are duplicates. A failure of the manual
pipeline is logged nowhere. `POD_LIFECYCLE_CANCEL_POLICY` is registered nowhere,
and the escalation node is in no graph. A push that timed out and is
tried again may attach the POD twice.

*POD pages.* An order number that Turvo lists at two stops is scored at both by
what confirms one of them: matches are kept by number (stop_matching.py:18 "Match page
evidence to the one Turvo stop that owns each extracted PO."). A file that could
not be staged is listed as merged. Scores read the untrimmed pages, rate
confirmations included. The extraction row is overwritten before the object is,
so a rescore may score one packet and show another. One object per shipment: a
later packet replaces an earlier one.

### Fairness

`RunQueueLive` assumes that a caller that has pushed publishes
(`PublishHead`), that some worker takes a waiting message, and that a worker
that runs keeps stepping. The first and last are sequential code; the second is
Celery with a worker alive. Nothing is assumed of faults or of new admissions.
The third includes that a graph attempt ends: nothing bounds it in the code,
but its waits are on database and HTTP clients with timeouts.

`DriverLive` assumes that a tail past the gates enqueues, that each delayed
task fires some time after it is due, that the queue takes its next item
(`RunQueueLive` shows this of a key with no lost process), and that a run goes
from node to node: `GoesOn` is what `Node` does to `run`, without the row a
write leaves, and is enabled exactly when `Node` is. Nothing is assumed of
replies, outsiders or dispatchers.

## 4. Proofs

| Theorem | Establishes |
|---|---|
| `QueueAndLogProofs!TypeCorrect` | `TypeOK`, faults and undecodable entries included |
| `QueueAndLogProofs!Invariance`, `OneInFlight`, `OneAttempt`, `OwnItem` | one task and one attempt per key, each completion pops its own item |
| `QueueAndLogProofs!Refinement` | `RunQueue` implements `SerialExecution` |
| `QueueAndLogProofs!NobodyOrphaned`, `CorruptDropped` | until the first fault no entry waits with nobody responsible; what does not decode is never run |
| `QueueAndLogProofs!LogTypeCorrect`, `TrailCorrect`, `ReviewCorrect`, `PauseCorrect` | typing; the trail ends where the row is; a change of sub-status leaves pending_review unless a review or a failure says otherwise; a pause exactly while the last word was a failure |
| `LifecycleRequestsProofs!AfterSequenceTyped` | a whole sequence of commands takes a row to a row |
| `DriverAssignmentProofs!TypeCorrect`, `SchedulesOnce`, `ClimbsOneRung`, `LateRemindersHarmless` | typing; one schedule for an open cycle; one rung at a time; nothing is mailed for a cycle that is past it |
| `DriverAssignmentProofs!OneDriverDelivered`, `PutsTheNamedDriver`, `CreatesNobodyTwice` | one driver in the TMS, and success told only of it; the contact is whom the reply named; none is made twice |
| `LoadTenderingProofs!TypeCorrect`, `NoneSkipped`, `LastCarrierEscalates`, `LateTimersHarmless` | typing; one decision passes over one carrier; only the last carrier's run escalates; late timers do nothing |
| `LoadTenderingProofs!OneBatch`, `LiveOnRecord`, `RemindersOfTheLiveAttempt` | one batch of reminders for an attempt, recorded only while it is live |
| `TenderIntakeProofs!TypeCorrect`, `ImportsCorrect`, `NoneStranded`, `OwnLocationsUsed` | typing; one import and one start; a tender without a run is accounted for; own locations are on record before they are used, and with one row or two workers no older ones are |
| `TenderIntakeProofs!LinesOfItsPositions`, `OrdersOnce` | of any sheet, a tender's lines are those that the positions of its order complete, and a batch has one tender for each such order |
| `AppointmentSchedulingProofs!TypeCorrect`, `OneDraft`, `ProgressTold`, `SettledOnce` | typing; the customer gets one draft at most; waiting means mailed and scheduled means agreed; what is settled stays |
| `PodLifecycleProofs!TypeCorrect`, `OneReminder`, `StatusTold`, `LateReminders` | typing; each reminder is sent once at most; uploaded_to_tms means that Turvo has it; a late reminder leaves what was received |
| `RateconIntakeProofs!Invariance`, `TypeCorrect` | the tables are typed and agree with each other: what a run, a record, a mail row, a scheduled reminder or the webhook names exists and is of its kind, load and thread; a completed ratecon has its document |
| `RateconIntakeProofs!NewestStands`, `Bound` | the ratecon last queued for a load is not superseded; a mail row keeps its thread, and its run once it has one |
| `RateconIntakeProofs!RepliesOfTheirThread`, `WhatIsDecidedOn` | a driver reply goes to a load its thread was about before any reply; it is decided on its sender's own words, but those that go with a header (`Swallowed`), and an appointment reply on a text with our draft |

**Run queue.** `AtMostOneInFlight` counts the processes responsible for a key
and does not hold by itself from step to step: a completion that popped
somebody else's item would leave the list non-empty with nobody responsible, or
empty with somebody. `HolderHasHead` adds what ties each holder to the list:
the caller about to publish, the message in the broker and the worker that runs
all hold the item at the head, and a worker about to peek sees a list that is
not empty. With it a completion pops its own item, an RPUSH that finds the list
empty has no holder to compete with, and `IInv` (`TypeOK`, `AtMostOneInFlight`,
`HolderHasHead`) is inductive. The refinement maps a key's pending sequence to
its list, less what a run has finished with; every action is shown to be a step
of `SerialExecution` or a stutter.

For `NobodyOrphaned`, `Answered` says that until a fault each list is empty, or
has somebody in flight, or has had a blank payload pushed, which
`complete_and_start_next` leaves at the head for a person to look at. The
responsibility for a list passes from the RPUSH that finds it empty to the
message, the worker and the LPOP that leaves something; `Pushed` (what is on a
list has been pushed) lets the worker that stops at a blank payload name it.

These theorems assume `Corrupt = {}`: no list entry is undecodable. The program
never pushes one; where somebody else does, the LPOP of `Drop` may take a good
item from under its holder. `TypeCorrect` and `CorruptDropped` assume nothing.

**Lifecycle log.** The queue and the log share no variable, and their proofs
only a module; names of the log's start with `Log` where both have one. `LogInv` speaks of the open transaction: `Good(tx, row)` says
that the commands sent so far and those left make up a request, that the log
written so far tells how the row got from `row` to `tx.row`, that an unwritten
row is untouched, and that a pause which was written is the one of its request.
Each command preserves it (`SnapshotGood`, `TransitionGood`), a commit turns it
into `Tells(trail, row)`, and a rollback drops it. `CarefulAssumption` asks that
no request has a transition after a snapshot after a transition; the service
accepts such sequences and the trail would be wrong then, but no caller sends
one, which `LogPrograms` checks of all requests of the program when TLC
evaluates the assumption.

For the pause, `Followed` ties the row to the numbers of the log: an entry's
number is that of its transaction and the greatest so far, the open transaction
has logged one entry per command under its own number, and has written with its
first transition. A commit then either logged a snapshot only, which decides
nothing, or is the last to decide, and `Pauses` says that its pause is there
exactly if it recorded an exception. `NamesAssumption` asks of the callers that
a transition names a column, since one that names neither would leave the pause
as it was; all do, and TLC evaluates it of all requests too.

**A sequence of commands.** The modules of the workflows commit a sequence in
one step, `AfterSequence`, whose definition chooses the function that holds the
transaction before each command. `CourseExists` shows there is one for every
length and `CourseTyped` that every transaction along it is well typed, both by
the least length, or the least position, that would be wrong (`LeastOf`): the
library's induction theorems are not needed. For sequences of one to three
commands, of which `Spliced1` and `Spliced2` unroll the choice, the lemmas give
the row that results; the workflows' proofs rest on these.

**Driver assignment.** A run decides at one node and writes at another, with
cancellations, the portal and dispatchers in between. `Decided` says of the
sequence a run is about to write what it does to any row: keep the sub-status,
start, report success, escalate, or set rung `n`, and the last only of a row
whose rung is `n - 1` or whose cycle is over (`Climbs`). It survives the
outsiders because theirs only close the row (`Outer`), and is why
`OneRungAtATime` holds though the rung was read earlier. `Counted` says that
each batch was scheduled by a run on record and a run at the gates has its own
record, so that a second batch needs a completed row (`Granted`). `Shown`
relates what a run has seen of the shipment to what is there; it holds until
somebody else edits the shipment (`Undisturbed`), as `OneDriverDelivered` says.
`Fetching` has it hold of a stub too. The last two theorems follow `Chosen`: the search is about the contacts as
they are, since no step comes between the search and the POST that could add
one. They assume that a contact's GET does not fail (`hydrate`) and that at all
times the tab of contacts shows the carrier's contacts, up to its limit: beyond
either the code makes a contact again, as section 3 tells. The constants of
`DriverLive` satisfy these hypotheses, so no theorem holds for want of a state.

**Load tendering.** Every number is that of an attempt, so the invariant says
where the attempts are. `Past`: none is ahead of the lifecycle's. `Aimed`: a
run that may advance, remind or schedule is about the live attempt, which it
compared after it began, and only runs change it. A second refusal of a past
attempt therefore never gets to `bump`. `Patient`: before the last attempt
neither the row nor the sequence about to be written escalates. `Unanswered`: a
timer that got past its look at the row saw no answer, and answers are written
by runs, one at a time. `Marked` and `Live` say that a batch is marked before
its run ends, and that what is on the lifecycle is revoked before the attempt
moves; they assume that the marking does not fail, and that the revocation and
the clearing of the list do not both fail, as `TenderSafety` does, for the
reasons given there.

**Tender import.** The look-up of an import and its insertion are two
transactions with no index between; what keeps them apart is the queue of the
mail. `Turns` says that a mail's item is in the broker or with one worker, and
`Recorded` that from the look-up to the insertion that worker's mail has no
import. `Tally` counts: an item is recorded as failed once at most, so failures
and items never outnumber deliveries by more than the one that has failed and
is still at the head. `Batches` says that the ids a worker starts are tenders
of its own mail, disjoint from those of every other worker, and that those to
come have no run. For stranded tenders, `Cause` is the disjunction of the
property; the proof follows it along each action: the worker's death makes the
list stuck, its failure counts, the start of the last tender ends the need.
What the proof needs of the sheets is that they are rows (`RowsAssumption`):
that `TenderIds` names the new rows, one for each header, is shown of any rows
by `Cardinality` and a least element, not by recursion.

`OwnLocationsUsed` follows the clock of the locations: a mail's worker begins
with them, `since` is when it began, and its write makes a row whose `done` is
later; rows are only overwritten by later ones (`AllBrought`, for any number of
workers). Which row is the newest goes by `since`, not by `done`, and of it two
workers know more (`Settled`). Of two that are about to write, the one that
began later has found what is still the newest row (`Fresh`): what it writes
moves no second row past the other's transaction. So, if the row a worker is
about to overwrite was written by one that began later, no other row was
(`Alone`), and once overwritten it is still the newest. Hence the newest row was
always complete after either began to record its own (`Leading`). A third worker
breaks `Fresh`; that there are two at most is a hypothesis of the property, and
that `Workers` is finite an assumption of the module (a pool has so many
processes).

What is cut from a sheet is a matter of any rows:
`PositionsMean` and `LinesMean` say that of an order with a number the first
rows of its positions are its usable rows, and that its first header's lines are
one for each key of theirs; `BatchCovers` numbers the headers. `Covered` is the
invariant that carries this to the tables: each tender is one that was cut for
the mail of its import, and neither changes afterwards.

**One draft.** `DraftMailedOnce` bounds the mails and says nothing of who may
still send one. `OneSend` says where the claim on the draft is: with the portal
that made it, in the queue, in the run that is to send, or in a mail, in one of
them only; `meta.sent` is never taken back, so no second claim is made. A
failed publication may lose the claim and a failed send may mail it all the
same; neither makes a second. `Known` (a lifecycle without a row knows nothing
but pickup updates) is what makes the step from no row to a row harmless, and
`Errand` ties the node of a run to the item it took. `IInv` is these with
`TypeOK`. Most steps of a run move no claim: `Calm` says so once for all of
them, and four lemmas treat the rest.

**What the row tells of an appointment.** `AwaitingMeansMailed` and
`ScheduledMeansAgreed` are about a row that is written at the end of a run.
`Pen` says that of a run about to write what they say of the row; `OnRow`,
which run may be where on a row in which state (a reply's run goes on only
while the row awaits one, and no other run writes then but the portal's);
`Halfway`, what the run has done by each node: mailed, put a placeholder,
written in Ascend, in Turvo, told the customer. A vendor call that timed out
and was carried out has changed the TMS without the run knowing; it leads to no
node of `Halfway`.

**Each reminder.** The same argument with one token per step of the plan:
`OnePlace` says that a step is with Celery, in the queue, in a run that is
about to mail, or mailed, in one of them only and once. The tokens are made by
`Schedule`, and `Planned` says why that happens once: until then no reminder
exists, and of the webhooks that passed the gates together only one gets past
the gate of its run, because the first to begin is on record by then and runs
do not overlap. `Known` (what is queued or running has its row) is what lets
the gate see that record. The proof needs of the plan only that its steps are
distinct (`StepsAssumption`).

**What the row tells of a POD.** `Kept` is a second invariant over the first.
`Pen` is about the sequence a run is to write: it reports uploaded_to_tms only
if the POD is in Turvo, and otherwise keeps the row, settles it, or opens it
for a POD that is still to be stored. `Told` says what holds between: a stored
POD that is not settled is owed something by a run under way, unless an
exception cut a run short (`raised`). `Late` says that a reminder's run is at
no node but a few, that it mails only where nothing was received, and writes
over what was received only what is done.

**The mails of a ratecon tenant.** The properties are about tables that name
each other's rows, written by the webhook and by any number of workers. `Base`
says of every table what its rows may name: `ItemRight` of the queue (a run's
lifecycle is of its event's flow, its mail row of its mail, and past the first
nodes it is on record as what it was queued for), `RunRight` of the records of
runs, `RowRight` of the mail rows, `TasksRight` of the reminders, `ApiRight` of
what the webhook carries from one of its requests to the next. `Grown` is
the other half: rows are added and none is taken away, a lifecycle keeps its flow and load,
a record its contents, a mail row its thread and its run. The proof of a step
is therefore the same for every action: `StepRight` takes what the step does to
each table (`StoreStep`, `RowsStep`, `RunsStep`, `ItemsStep`, `WorkStep`), asks
`RowRight` or `ItemRight` only of rows that changed, and the others keep theirs
because `Grown` keeps what they name (`ItemsStay`, `RowsStay`). `Bound` is `Grown`
of the mail table.

`Accepted` says why the newest ratecon stands: the only step that cancels one is
`CancelRatecon`, which is of the load that the webhook is at; from there to
`Push` the last one accepted may be cancelled and a new one is on its way, and
`Resolution` takes none that is cancelled, nor does a run make one so
(`StoreQuiet`). Superseding and resolving are four transactions, and the proof
needs that no other webhook comes between them: the process gives way at no
await there.

A driver reply's own run links the rows of its thread too, so that a thread
once led astray would lead astray all that follow. `Told` excludes it: when the
reply is about to be queued, and ever after, its thread has a row linked to a
run that is no reply's, of the load the request is of. `RowRight` closes the
circle: a reply's run is linked to rows of its own thread only, which says
something of the load that was there already (`FoundContext`, `DetailsGo`).

For `WhatIsDecidedOn`, `Drafts` keeps the row of each draft tied to the run that
sent it, so that `MergeDraft` finds it. Of a reply, the row is among the first
`Limit` of its thread when the rows before it are fewer, by `Cardinality`
(`DetailsRead`), and rows added after it do not change that. That the cutting of
quotes leaves the first words is shown function by function, of words that nothing
but divisions precede (`Leads`): `CutAt` keeps what is before its least mark
(`CutTyped`); what `Remaining` leaves of a sequence is in order, so that words no
part before which is kept come first again (`KeptTyped`, `LeftTyped`); and
`StripHtml`, `CollapseWs` and `ProcessForward` are made of these (`CleanedTyped`,
`ForwardTyped`). `OwnWordsStay` puts them together under the hypothesis that the
mail does not begin with a division, has no forward header, or has a rule, which
is the negation of `Swallowed`: without it the header takes the words along (section
3), and neither the property nor the theorem says anything of such a mail. Nor do they of a mail that begins with what it quotes, which is not
`TopPosted`: there the cut may take everything, as Runs tells.

The hypotheses are the assumptions on the constants in `Communications` and
`RateconIntake`: what a mail may be, that the appointments mailed before are of
known loads, that `Limit` is at least one. TLC evaluates them with the constants
of `RateconIntakeSafety`.

**Only model-checked.** Liveness (`AdmittedEventuallyRuns`, `ProcessingEnds`) rests on
fairness and on ENABLED, and stays with TLC. All of `PodPages`: what it stores
and scores is selected from, flattened or folded over pages and stops, with the
recursive operators of the community modules (`SelectSeq`, `FlattenSeq`,
`FoldLeft`), whose definitions the provers do not expand, and what they return
for every input needs an induction that cannot be instantiated. So
`StoredWithoutRatecons` and `ScoreInv` are checked on the packets listed under
Runs. `LiveThreadNotRetired` is refuted by its run.

## 5. Plan

Done, in this order: `SerialExecution` and `RunQueue` with their proofs;
`LifecycleTransition`, `LifecycleRequests` and `LifecycleLog` with theirs;
`DriverAssignment` and `DriverContacts`; `LoadTendering`; `TenderIntake`;
`AppointmentScheduling`; `PodLifecycle` and `PodPages`; `LifecycleStore`,
`Communications` and `RateconIntake`, which hold lifecycle resolution, the email
ingress of the ratecon tenant and the communications.

The proofs came after the models: of the queue, the log and the sequences of
commands, then of `AppointmentScheduling`, `PodLifecycle`, `LoadTendering`,
`DriverAssignment`, `TenderIntake` and `RateconIntake`.

One proof may come yet: `StoredWithoutRatecons` of `PodPages`, once what is kept is
written as a function on the pages instead of with `SelectSeq`.

Models to come: the reminder list in `metadata` with two registrations and a
cancellation interleaved (no row lock; a task that is live and unlisted);
OAuth refresh under concurrent 401s; the compiler of configurations into graphs
as pure operators, with every edge leading to a node of its graph.

## 6. Not modelled, and why

- The final statuses of `workflow_runs` and the LangGraph checkpoints: nothing
  resumes one and no gate reads a final status.
- Graph compilation: the four graphs are fixed by their configurations, and the
  modules follow the compiled routes.
- OAuth tokens and error alerts: a call without a token fails as any other
  call; no component reads an alert.
- The read-modify-write of `metadata.pending_reminder_tasks`: the modules take
  registration as one step that may fail.
- Shadow mode, in which mails and TMS calls are replaced by log lines: it only
  removes effects.
- Redelivery by the broker: tasks are acknowledged before they run, and the
  visibility timeout is computed above every countdown.
- Columns of shipments, locations and documents that no decision reads; OCR, LLM, image,
  PDF and mail adapters: upserts and calls whose callers take any answer.
- Parsing of Excel files and of HTML: workbooks are tables, bodies sequences of
  parts. Names, addresses and order numbers are tokens; the similarity of two
  strings is the sharing of a token.
- Portal listings and searches, API parsing, authentication, settings,
  migrations, prompts, scripts: no behaviour between steps.

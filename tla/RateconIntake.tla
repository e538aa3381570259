----------------------------- MODULE RateconIntake -----------------------------
(***************************************************************************)
(* The mails of a t3ra tenant from the webhook on: a rate confirmation      *)
(* supersedes the one before it and is filed, and then asks the carrier for *)
(* a driver; a reply goes to the appointment or to the driver request that  *)
(* its thread is about.                                                     *)
(*                                                                         *)
(* The webhooks are handled by one process, which gives way only where it   *)
(* waits for the TMS; the runs of the lifecycles by the workers, one run of *)
(* a lifecycle at a time and in order (RunQueue).  Writes that nothing can  *)
(* come between to any effect are one step.  Left out: what POD makes of a  *)
(* mail (PodLifecycle), the ladder of reminders and the driver's details    *)
(* (DriverAssignment), workers that die (RunQueue).                         *)
(***************************************************************************)
EXTENDS Communications

CONSTANTS Workers,       \* Celery workers
          Places,        \* the places of a load's route, a function of the load
          Asking,        \* the loads for which the TMS says that a driver is wanted
          Awaiting,      \* appointments mailed before the start: a load and a thread each
          Failing,       \* the operations that may fail for a mail, a function of its id
          Streams,       \* the orders in which mails may arrive, as sequences of mails
          MaxReminders   \* reminders that come due

Loads == DOMAIN Places

ASSUME LoadsAssumption == Unset \notin Loads
ASSUME MailAssumption ==
  \A m \in Mails :
    /\ Mail[m].subject \in {"ratecon", "appointment", "other"}
    /\ Mail[m].attachments \in Nat
    /\ Mail[m].reply \in {"header", "subject", "none"}
    /\ {Mail[m].load, Mail[m].token} \subseteq Loads \cup {Unset}
ASSUME AwaitingAssumption ==
  /\ Len(Awaiting) \in Nat /\ DOMAIN Awaiting = 1..Len(Awaiting)
  /\ \A i \in DOMAIN Awaiting : Awaiting[i].load \in Loads
ASSUME FailingAssumption ==
  \A m \in Mails :
    Failing[m] \subseteq {"fetch", "upsert", "mail", "locations", "document", "outbound"}
ASSUME AskingAssumption == Asking \subseteq Loads
ASSUME StreamsAssumption == \A s \in Streams : s \in Seq(Mails)
ASSUME BoundsAssumption == {Workers, MaxReminders} \subseteq Nat

VARIABLES delivered, \* the mails received, in order
          waiting,   \* requests that wait for the TMS: for a ratecon, or for POD, by mail
          api,       \* what the process that serves webhooks is at
          shipments, \* the loads with a shipments row
          located,   \* the places in locations
          items,     \* the runs queued for the lifecycles, in the order of arrival
          documents, \* the ratecon cycles with a documents row
          tasks,     \* the reminders scheduled: the cycle and the mail whose thread they use
          reminded,  \* reminders that came due
          accepted   \* the cycle that the last ratecon of a load was queued for, or 0

vars == <<delivered, waiting, api, shipments, located, lifecycles, recent, items, documents, tasks,
          reminded, accepted, rows, runs>>

-----------------------------------------------------------------------------
(* Which mail is it.                                                       *)

\* is_unipile_email_reply.
IsReply(m) == Mail[m].reply # "none"

\* has_rate_confirmation_subject.
RateSubject(m) == Mail[m].subject = "ratecon"

\* classify_t3ra_inbound_email.
Classified(m) ==
  IF ~RateSubject(m) \/ Mail[m].attachments = 0 THEN Unset
  ELSE IF Mail[m].reply = "header" THEN "pod_lifecycle"
  ELSE IF Mail[m].load = Unset THEN Unset
  ELSE "ratecon"

\* _lifecycle_is_terminal.
AppointmentDone(c) ==
  \/ Status(c) \in {"completed", "failed"}
  \/ Sub(c) \in {"resolved_manually", "rejected", "appointment_scheduled"}

Undecided(c) == IF c = 0 \/ AppointmentDone(c) THEN 0 ELSE c

\* resolve_active_reply_lifecycle_id: by the thread, by the load of the thread,
\* by the token in the subject.
ActiveReply(m) ==
  LET onThread == FindActive("appointment_scheduling", Mail[m].thread)
      ofLoad == Undecided(AwaitingReply(ContextLoad(Mail[m].thread)))
  IN IF onThread # 0
       THEN IF Sub(onThread) = "awaiting_customer_reply" THEN Undecided(onThread) ELSE 0
     ELSE IF ofLoad # 0 THEN ofLoad
     ELSE IF Mail[m].subject = "appointment" THEN Undecided(AwaitingToken(Mail[m].token))
     ELSE 0

\* Faulty variant, used as a mutant.
AnyDriver(m) ==
  Newest({c \in Cycles : lifecycles[c].flow = "driver_assignment" /\ Sub(c) # "cancelled"})

\* resolve_active_driver_details_lifecycle_id.
ActiveDetails(m) ==
  LET onThread == FindActive("driver_assignment", Mail[m].thread)
      ofLoad == ActiveDriver(ContextLoad(Mail[m].thread))
  IN IF onThread # 0 THEN onThread
     ELSE IF ofLoad # 0 /\ Sub(ofLoad) \notin {"uploaded_to_tms", "cancelled"} THEN ofLoad
     ELSE 0

\* build_driver_details_workflow_payload returns something.
DetailsPayload(c) ==
  Correlation(c) \in shipments /\ CheckExists("ratecon", Correlation(c)) # 0

-----------------------------------------------------------------------------
(* State.                                                                  *)

ApiIdle == [at |-> "idle", mail |-> Unset, cycle |-> 0, event |-> Unset, row |-> 0]

ApiStages == {"idle", "appointment", "inbound", "driver", "upsert", "findRatecon", "cancelRatecon",
              "findDriver", "cancelDriver", "resolve", "push", "link"}
Stages == {"queued", "record", "link", "locate", "place", "received", "upload", "uploaded", "gate",
           "findDriver", "insertDriver", "pushDriver", "check", "started", "send", "remind",
           "read", "decide", "done"}
Events == {"draft", "ratecon", "start", "reminder", "details", "reply"}

\* An item: what the payload says, what the run has found and seen so far.
Item(event, cycle, mail) ==
  [event |-> event, cycle |-> cycle, mail |-> mail, row |-> 0, from |-> 0, at |-> "queued",
   found |-> 0, seen |-> {}]

\* Of an item that is done nothing is used but its cycle and event.
DoneItem(i) == [Item(i.event, i.cycle, i.mail) EXCEPT !.at = "done"]

LoadOf(n) == Correlation(items[n].cycle)

TypeOK ==
  /\ delivered \in Seq(Mails) /\ reminded \in 0..MaxReminders
  /\ \A m \in Mails : waiting[m].ratecon \in Nat /\ waiting[m].pod \in Nat
  /\ api.at \in ApiStages /\ api.mail \in Mails \cup {Unset} /\ api.row \in 0..Len(rows)
  /\ api.cycle \in 0..Len(lifecycles) /\ api.event \in Events \cup {Unset}
  /\ shipments \subseteq Loads /\ located \subseteq UNION {Places[l] : l \in Loads}
  /\ \A c \in Cycles :
       /\ lifecycles[c].flow \in Flows /\ lifecycles[c].load \in Loads
       /\ Status(c) \in Statuses
  /\ Len(recent) = Len(lifecycles) /\ ToSet(recent) = Cycles
  /\ \A n \in DOMAIN items :
       /\ items[n].event \in Events /\ items[n].at \in Stages /\ items[n].cycle \in Cycles
       /\ items[n].mail \in Mails \cup {Unset} /\ items[n].row \in 0..Len(rows)
       /\ {items[n].from, items[n].found} \subseteq 0..Len(lifecycles)
  /\ documents \subseteq Cycles /\ \A t \in tasks : t.cycle \in Cycles
  /\ accepted \in [Loads -> 0..Len(lifecycles)]
  /\ DOMAIN runs \subseteq DOMAIN items

\* The appointments whose draft has been mailed: each with its row and its run.
Init ==
  /\ delivered = <<>> /\ reminded = 0
  /\ waiting = [m \in Mails |-> [ratecon |-> 0, pod |-> 0]]
  /\ api = ApiIdle
  /\ shipments = {Awaiting[i].load : i \in DOMAIN Awaiting}
  /\ located = {}
  /\ lifecycles =
       [i \in DOMAIN Awaiting |->
          [flow |-> "appointment_scheduling", load |-> Awaiting[i].load,
           row |-> [status |-> "pending_review", sub |-> "awaiting_customer_reply",
                    pause |-> Unset]]]
  /\ recent = [i \in DOMAIN Awaiting |-> i]
  /\ items = [i \in DOMAIN Awaiting |-> [Item("draft", i, Unset) EXCEPT !.at = "done"]]
  /\ runs = [i \in DOMAIN Awaiting |-> [cycle |-> i, event |-> "draft"]]
  /\ rows = [i \in DOMAIN Awaiting |-> OutboundRow(Awaiting[i].thread, i, "draft")]
  /\ documents = {} /\ tasks = {}
  /\ accepted = [l \in Loads |-> 0]

Can(failure, m) == failure \in Failing[m]

inVars == <<delivered, waiting>>
storeVars == <<lifecycles, recent>>
commVars == <<rows, runs>>
workVars == <<documents, tasks, reminded>>
fileVars == <<shipments, located>>

ApiGoto(at) == api' = [api EXCEPT !.at = at]

-----------------------------------------------------------------------------
(* The webhook.                                                            *)

\* POST /email: a mail that POD may want waits for the TMS first.
Deliver(m) ==
  /\ api.at = "idle"
  /\ delivered' = Append(delivered, m)
  /\ \E s \in Streams : IsPrefix(delivered', s)
  /\ IF Classified(m) = "pod_lifecycle"
       THEN waiting' = [waiting EXCEPT ![m].pod = @ + 1] /\ UNCHANGED api
       ELSE api' = [ApiIdle EXCEPT !.at = "appointment", !.mail = m] /\ UNCHANGED waiting
  /\ UNCHANGED <<fileVars, storeVars, items, workVars, accepted, commVars>>

\* POD takes the mail, or finds that the load is not there yet and lets it go on.
TryPod(m) ==
  /\ api.at = "idle" /\ waiting[m].pod > 0
  /\ waiting' = [waiting EXCEPT ![m].pod = @ - 1]
  /\ api' \in {ApiIdle, [ApiIdle EXCEPT !.at = "appointment", !.mail = m]}
  /\ UNCHANGED <<delivered, fileVars, storeVars, items, workVars, accepted, commVars>>

\* try_customer_reply_received.
TryAppointment ==
  /\ api.at = "appointment"
  /\ LET c == IF IsReply(api.mail) THEN ActiveReply(api.mail) ELSE 0 IN
     api' = IF c # 0 THEN [api EXCEPT !.at = "inbound", !.cycle = c, !.event = "reply"]
            ELSE [api EXCEPT !.at = "driver"]
  /\ UNCHANGED <<inVars, fileVars, storeVars, items, workVars, accepted, commVars>>

\* Its mail is recorded here, the run does not get what it takes.
RecordReply ==
  /\ api.at = "inbound"
  /\ \/ /\ rows' = WithInbound(api.mail)
        /\ api' = [api EXCEPT !.at = "push", !.row = InboundId(api.mail)]
     \/ /\ Can("mail", api.mail) /\ FindInbound(api.mail) = 0
        /\ ApiGoto("push") /\ UNCHANGED rows
  /\ UNCHANGED <<inVars, fileVars, storeVars, items, workVars, accepted, runs>>

\* try_driver_details_email_received; then the ratecon, which waits for the TMS.
TryDriver ==
  /\ api.at = "driver"
  /\ LET c == IF IsReply(api.mail) THEN ActiveDetails(api.mail) ELSE 0 IN
     IF c # 0 /\ DetailsPayload(c)
       THEN /\ api' = [api EXCEPT !.at = "push", !.cycle = c, !.event = "details"]
            /\ UNCHANGED waiting
       ELSE /\ api' = ApiIdle
            /\ waiting' = IF Classified(api.mail) = "ratecon"
                            THEN [waiting EXCEPT ![api.mail].ratecon = @ + 1] ELSE waiting
  /\ UNCHANGED <<delivered, fileVars, storeVars, items, workVars, accepted, commVars>>

\* _fetch_turvo_shipment returns or raises.
Fetch(m) ==
  /\ api.at = "idle" /\ waiting[m].ratecon > 0
  /\ waiting' = [waiting EXCEPT ![m].ratecon = @ - 1]
  /\ \/ api' = [ApiIdle EXCEPT !.at = "upsert", !.mail = m, !.event = "ratecon"]
     \/ Can("fetch", m) /\ UNCHANGED api
  /\ UNCHANGED <<delivered, fileVars, storeVars, items, workVars, accepted, commVars>>

\* upsert_from_turvo; a failure is the webhook's 500.
Upsert ==
  /\ api.at = "upsert"
  /\ \/ shipments' = shipments \cup {Mail[api.mail].load} /\ ApiGoto("findRatecon")
     \/ Can("upsert", api.mail) /\ api' = ApiIdle /\ UNCHANGED shipments
  /\ UNCHANGED <<inVars, located, storeVars, items, workVars, accepted, commVars>>

\* supersede_by_shipment looks for the cycle in one transaction ...
FindRatecon ==
  /\ api.at = "findRatecon"
  /\ LET c == FindLatest("ratecon", Mail[api.mail].load) IN
     api' = [api EXCEPT !.at = IF c = 0 THEN "findDriver" ELSE "cancelRatecon", !.cycle = c]
  /\ UNCHANGED <<inVars, fileVars, storeVars, items, workVars, accepted, commVars>>

\* ... and cancels it in another, if its status allows that by then.
CancelRatecon ==
  /\ api.at = "cancelRatecon"
  /\ \E commands \in RateconSuperseded(View(lifecycles[api.cycle].row)) \cup {<<>>} :
       /\ commands = <<>> => RateconSuperseded(View(lifecycles[api.cycle].row)) = {}
       /\ Transition(api.cycle, commands)
  /\ api' = [api EXCEPT !.at = "findDriver", !.cycle = 0]
  /\ UNCHANGED <<inVars, fileVars, items, workVars, accepted, commVars>>

FindDriver ==
  /\ api.at = "findDriver"
  /\ LET c == FindLatest("driver_assignment", Mail[api.mail].load) IN
     api' = [api EXCEPT !.at = IF c = 0 THEN "resolve" ELSE "cancelDriver", !.cycle = c]
  /\ UNCHANGED <<inVars, fileVars, storeVars, items, workVars, accepted, commVars>>

\* DRIVER_ASSIGNMENT_SUPERSEDE_POLICY: a finished request is cancelled as well.
SupersedeDriver(v) == Cancel(v, {"processing", "pending_review", "completed"}, {})

CancelDriver ==
  /\ api.at = "cancelDriver"
  /\ \E commands \in SupersedeDriver(View(lifecycles[api.cycle].row)) \cup {<<>>} :
       /\ commands = <<>> => SupersedeDriver(View(lifecycles[api.cycle].row)) = {}
       /\ Transition(api.cycle, commands)
  /\ api' = [api EXCEPT !.at = "resolve", !.cycle = 0]
  /\ UNCHANGED <<inVars, fileVars, items, workVars, accepted, commVars>>

\* resolve_then_enqueue, as far as the lifecycle goes.
Resolution ==
  /\ api.at = "resolve"
  /\ ResolveOrCreate("ratecon", Mail[api.mail].load)
  /\ api' = [api EXCEPT !.at = "push", !.cycle = ResolvedTo("ratecon", Mail[api.mail].load)]
  /\ UNCHANGED <<inVars, fileVars, items, workVars, accepted, commVars>>

\* The run is queued; a reply's is recorded as well, by the webhook.
Push ==
  /\ api.at = "push"
  /\ items' = Append(items, [Item(api.event, api.cycle, api.mail) EXCEPT !.row = api.row])
  /\ IF api.event = "ratecon"
       THEN /\ accepted' = [accepted EXCEPT ![Mail[api.mail].load] = api.cycle]
            /\ api' = ApiIdle /\ UNCHANGED runs
       ELSE /\ runs' = RunRecorded(Len(items) + 1, api.cycle, api.event)
            /\ ApiGoto("link") /\ UNCHANGED accepted
  /\ UNCHANGED <<inVars, fileVars, storeVars, workVars, rows>>

\* The run of a reply's request: the last that was queued for the mail.
OwnRun == CHOOSE n \in DOMAIN items :
            /\ items[n].mail = api.mail /\ items[n].event = api.event
            /\ \A k \in DOMAIN items :
                 (items[k].mail = api.mail /\ items[k].event = api.event) => k <= n

\* The mail and its thread are linked to the run, for an appointment to the
\* cycle too.
LinkReply ==
  /\ api.at = "link"
  /\ LET cycle == IF api.event = "reply" THEN api.cycle ELSE 0 IN
     rows' = ThreadLinked(Linked(rows, api.row, OwnRun, cycle), Mail[api.mail].thread, OwnRun, cycle)
  /\ api' = ApiIdle
  /\ UNCHANGED <<inVars, fileVars, storeVars, items, workVars, accepted, runs>>

-----------------------------------------------------------------------------
(* A run: the same first steps for all.                                    *)

Running == {n \in DOMAIN items : items[n].at \notin {"queued", "done"}}

\* It is the head of its lifecycle's queue and a worker is free.
CanStart(n) ==
  /\ items[n].at = "queued" /\ Cardinality(Running) < Workers
  /\ \A k \in 1..(n - 1) : items[k].cycle = items[n].cycle => items[k].at = "done"

Goto(n, at) == items' = [items EXCEPT ![n].at = at]
End(n) == items' = [items EXCEPT ![n] = DoneItem(@)]

\* _email_graph_task_prep: a mail's own run records it, unless the webhook did.
RecordMail(n) ==
  /\ CanStart(n) /\ items[n].event \in {"ratecon", "details"}
  /\ \/ /\ rows' = WithInbound(items[n].mail)
        /\ items' = [items EXCEPT ![n].at = "record", ![n].row = InboundId(items[n].mail)]
     \/ /\ Can("mail", items[n].mail) /\ FindInbound(items[n].mail) = 0
        /\ Goto(n, "record") /\ UNCHANGED rows
  /\ UNCHANGED <<inVars, api, fileVars, storeVars, workVars, accepted, runs>>

\* A run that brings its mail's row along, or has no mail.
StartRun(n) ==
  /\ CanStart(n) /\ items[n].event \in {"reply", "reminder"}
  /\ Goto(n, "record")
  /\ UNCHANGED <<inVars, api, fileVars, storeVars, workVars, accepted, commVars>>

RecordRun(n) ==
  /\ items[n].at = "record"
  /\ runs' = RunRecorded(n, items[n].cycle, items[n].event)
  /\ Goto(n, "link")
  /\ UNCHANGED <<inVars, api, fileVars, storeVars, workVars, accepted, rows>>

First(event) ==
  CASE event = "ratecon" -> "locate" [] event = "start" -> "check" [] event = "reminder" -> "send"
    [] OTHER -> "read"

\* execute: with a communication, its row and then its thread.
LinkRun(n) ==
  /\ items[n].at = "link"
  /\ rows' = IF items[n].row = 0 THEN rows
             ELSE ThreadLinked(Linked(rows, items[n].row, n, items[n].cycle),
                               Mail[items[n].mail].thread, n, items[n].cycle)
  /\ Goto(n, First(items[n].event))
  /\ UNCHANGED <<inVars, api, fileVars, storeVars, workVars, accepted, runs>>

-----------------------------------------------------------------------------
(* The ratecon graph.                                                      *)

\* The ends of the route that the table lacks.
Missing(load) == Places[load] \ located

\* link_shipment_locations looks for both ends; it may raise.
Locate(n) ==
  /\ items[n].at = "locate"
  /\ \/ items' = [items EXCEPT ![n].at = IF Missing(LoadOf(n)) = {} THEN "received" ELSE "place",
                               ![n].seen = Missing(LoadOf(n))]
     \/ Can("locations", items[n].mail) /\ End(n)
  /\ UNCHANGED <<inVars, api, fileVars, storeVars, workVars, accepted, commVars>>

\* A place that came in between breaks the transaction, and the run.
InsertPlaces(n) ==
  /\ items[n].at = "place"
  /\ IF items[n].seen \cap located = {}
       THEN /\ located' = located \cup items[n].seen
            /\ items' = [items EXCEPT ![n].at = "received", ![n].seen = {}]
       ELSE End(n) /\ UNCHANGED located
  /\ UNCHANGED <<inVars, api, shipments, storeVars, workVars, accepted, commVars>>

RecordReceived(n) ==
  /\ items[n].at = "received"
  /\ \E commands \in RateconReceived(View(lifecycles[items[n].cycle].row)) :
       Transition(items[n].cycle, commands)
  /\ Goto(n, "upload")
  /\ UNCHANGED <<inVars, api, fileVars, workVars, accepted, commVars>>

\* What becomes of the attachments: all of them stored or not, a row made for
\* one that is stored or for none.
Outcomes(m) ==
  IF ~Can("document", m) THEN {{"stored", "row"}}
  ELSE IF Mail[m].attachments > 1 THEN SUBSET {"stored", "row"}
  ELSE {{"stored", "row"}, {"stored"}, {}}

Upload(n) ==
  /\ items[n].at = "upload"
  /\ \E outcome \in Outcomes(items[n].mail) :
       /\ items' = [items EXCEPT ![n].at = "uploaded", ![n].seen = outcome]
       /\ documents' = IF "row" \in outcome THEN documents \cup {items[n].cycle} ELSE documents
  /\ UNCHANGED <<inVars, api, fileVars, storeVars, tasks, reminded, accepted, commVars>>

\* upload_success.
UploadSuccess(outcome) == outcome = {"stored", "row"}

\* record_upload: completed either way.
RecordUpload(n) ==
  /\ items[n].at = "uploaded"
  /\ \E commands \in RateconUploaded(View(lifecycles[items[n].cycle].row)) :
       /\ (Head(commands) = Action) = UploadSuccess(items[n].seen)
       /\ Transition(items[n].cycle, commands)
  /\ items' = [items EXCEPT ![n].at = "gate", ![n].seen = {}]
  /\ UNCHANGED <<inVars, api, fileVars, workVars, accepted, commVars>>

\* _blocks_restart_for_shipment.
BlocksRestart(load) == ActiveDriver(load) # 0 \/ HasSuccess(load)

\* is_ratecon_completed_blocked_for_shipment.
Duplicate(load, exclude) ==
  \E r \in DOMAIN runs \ {exclude} :
    /\ runs[r].event = "start"
    /\ lifecycles[runs[r].cycle].flow = "driver_assignment"
    /\ Correlation(runs[r].cycle) = load
    /\ View(lifecycles[runs[r].cycle].row) # [status |-> "completed", sub |-> "cancelled"]

\* _evaluate_start_gates; a cancelled ratecon is completed too.
StartGates(load, ratecon, exclude) ==
  /\ Status(ratecon) = "completed"
  /\ load \in shipments
  /\ ~BlocksRestart(load)
  /\ ~Duplicate(load, exclude)

\* try_enqueue_from_ratecon_state, with what the TMS said when the mail came.
Gate(n) ==
  /\ items[n].at = "gate"
  /\ IF LoadOf(n) \in Asking /\ StartGates(LoadOf(n), items[n].cycle, 0)
       THEN Goto(n, "findDriver") ELSE End(n)
  /\ UNCHANGED <<inVars, api, fileVars, storeVars, workVars, accepted, commVars>>

\* The look-up and the insertion are one transaction, but take no lock.
LookUpDriver(n) ==
  /\ items[n].at = "findDriver"
  /\ LET c == FindExisting("driver_assignment", LoadOf(n)) IN
     items' = [items EXCEPT ![n].at = IF c = 0 THEN "insertDriver" ELSE "pushDriver", ![n].found = c]
  /\ UNCHANGED <<inVars, api, fileVars, storeVars, workVars, accepted, commVars>>

InsertDriver(n) ==
  /\ items[n].at = "insertDriver"
  /\ InsertLifecycle("driver_assignment", LoadOf(n))
  /\ items' = [items EXCEPT ![n].at = "pushDriver", ![n].found = Len(lifecycles) + 1]
  /\ UNCHANGED <<inVars, api, fileVars, workVars, accepted, commVars>>

\* The run that asks for a driver is queued with this mail's row.
PushDriver(n) ==
  /\ items[n].at = "pushDriver"
  /\ items' = Append([items EXCEPT ![n] = DoneItem(@)],
                     [Item("start", items[n].found, items[n].mail) EXCEPT
                        !.row = items[n].row, !.from = items[n].cycle])
  /\ UNCHANGED <<inVars, api, fileVars, storeVars, workVars, accepted, commVars>>

-----------------------------------------------------------------------------
(* The driver request.                                                     *)

\* prepare_ratecon_completed_payload, before the run is recorded.
PrepareStart(n) ==
  /\ CanStart(n) /\ items[n].event = "start"
  /\ IF StartGates(LoadOf(n), items[n].from, 0) THEN Goto(n, "record") ELSE End(n)
  /\ UNCHANGED <<inVars, api, fileVars, storeVars, workVars, accepted, commVars>>

\* check_start_eligibility in the graph, and the reminders.
CheckStart(n) ==
  /\ items[n].at = "check"
  /\ IF StartGates(LoadOf(n), items[n].from, n)
       THEN /\ Goto(n, "started")
            /\ tasks' = tasks \cup {[cycle |-> items[n].cycle, mail |-> items[n].mail]}
       ELSE End(n) /\ UNCHANGED tasks
  /\ UNCHANGED <<inVars, api, fileVars, storeVars, documents, reminded, accepted, commVars>>

RecordStarted(n) ==
  /\ items[n].at = "started"
  /\ \E commands \in DriverStarted(View(lifecycles[items[n].cycle].row)) \cup {<<>>} :
       /\ commands = <<>> => DriverStarted(View(lifecycles[items[n].cycle].row)) = {}
       /\ Transition(items[n].cycle, commands)
  /\ End(n)
  /\ UNCHANGED <<inVars, api, fileVars, workVars, accepted, commVars>>

\* run_delayed_workflow_reminder puts a reminder in the queue.
Remind(t) ==
  /\ t \in tasks /\ reminded < MaxReminders
  /\ tasks' = tasks \ {t} /\ reminded' = reminded + 1
  /\ items' = Append(items, Item("reminder", t.cycle, t.mail))
  /\ UNCHANGED <<inVars, api, fileVars, storeVars, documents, accepted, commVars>>

\* blocks_driver_assignment_reminder.
BlocksReminder(v) ==
  IF v.status = "pending_review"
    THEN v.sub \notin {"reminder_1_sent", "reminder_2_sent", "reminder_3_sent"}
  ELSE v.status # "processing" \/ v.sub \in {"cancelled", "uploaded_to_tms"}

\* send_driver_reminder: to the thread of the ratecon's mail.
SendReminder(n) ==
  /\ items[n].at = "send"
  /\ IF BlocksReminder(View(lifecycles[items[n].cycle].row))
       THEN End(n) /\ UNCHANGED rows
       ELSE /\ Goto(n, "remind")
            /\ rows' \in ThreadReply(Mail[items[n].mail].thread, n, Can("outbound", items[n].mail))
  /\ UNCHANGED <<inVars, api, fileVars, storeVars, workVars, accepted, runs>>

\* DriverAssignment has the rest of the ladder.
RecordReminder(n) ==
  /\ items[n].at = "remind"
  /\ \E commands \in DriverReminder(View(lifecycles[items[n].cycle].row)) \cup {<<Action>>} :
       Transition(items[n].cycle, commands)
  /\ End(n)
  /\ UNCHANGED <<inVars, api, fileVars, workVars, accepted, commVars>>

-----------------------------------------------------------------------------
(* The replies.                                                            *)

\* The text for the language model: for a driver reply with the mail's own
\* body to fall back on.
ReadDetails(n) ==
  /\ items[n].at = "read" /\ items[n].event = "details"
  /\ LET text == ThreadText(Mail[items[n].mail].thread, {items[n].mail}) IN
     IF text = {} THEN End(n)
     ELSE items' = [items EXCEPT ![n].at = "decide", ![n].seen = text]
  /\ UNCHANGED <<inVars, api, fileVars, storeVars, workVars, accepted, commVars>>

ReadReply(n) ==
  /\ items[n].at = "read" /\ items[n].event = "reply"
  /\ LET text == ReplyText(Mail[items[n].mail].thread, items[n].cycle) IN
     IF text = {} THEN End(n)
     ELSE items' = [items EXCEPT ![n].at = "decide", ![n].seen = text]
  /\ UNCHANGED <<inVars, api, fileVars, storeVars, workVars, accepted, commVars>>

\* The driver is assigned in the TMS, or the reply names none.
DecideDetails(n) ==
  /\ items[n].at = "decide" /\ items[n].event = "details"
  /\ \E commands \in DriverAssigned(View(lifecycles[items[n].cycle].row)) \cup {<<>>} :
       Transition(items[n].cycle, commands)
  /\ End(n)
  /\ UNCHANGED <<inVars, api, fileVars, workVars, accepted, commVars>>

\* The appointment is agreed on or turned down, or the reply says neither.
DecideReply(n) ==
  /\ items[n].at = "decide" /\ items[n].event = "reply"
  /\ \E commands \in AppointmentReplied(View(lifecycles[items[n].cycle].row)) \cup {<<>>} :
       Transition(items[n].cycle, commands)
  /\ End(n)
  /\ UNCHANGED <<inVars, api, fileVars, workVars, accepted, commVars>>

-----------------------------------------------------------------------------

Webhook ==
  \/ \E m \in Mails : Deliver(m) \/ TryPod(m) \/ Fetch(m)
  \/ TryAppointment \/ RecordReply \/ TryDriver \/ Upsert \/ FindRatecon \/ CancelRatecon
  \/ FindDriver \/ CancelDriver \/ Resolution \/ Push \/ LinkReply

Run(n) ==
  \/ RecordMail(n) \/ StartRun(n) \/ RecordRun(n) \/ LinkRun(n)
  \/ Locate(n) \/ InsertPlaces(n) \/ RecordReceived(n) \/ Upload(n) \/ RecordUpload(n)
  \/ Gate(n) \/ LookUpDriver(n) \/ InsertDriver(n) \/ PushDriver(n)
  \/ PrepareStart(n) \/ CheckStart(n) \/ RecordStarted(n)
  \/ SendReminder(n) \/ RecordReminder(n)
  \/ ReadDetails(n) \/ ReadReply(n) \/ DecideDetails(n) \/ DecideReply(n)

Next == Webhook \/ (\E n \in DOMAIN items : Run(n)) \/ (\E t \in tasks : Remind(t))

Spec == Init /\ [][Next]_vars

-----------------------------------------------------------------------------
(* Properties.                                                             *)

(* A ratecon at document_uploaded has a documents row: upload_success asks  *)
(* for one, and two runs may share the cycle.                               *)
DocumentedMeansStored ==
  \A c \in Cycles :
    (lifecycles[c].flow = "ratecon" /\ Sub(c) = "document_uploaded") => c \in documents

(* With the rows of the mail table told apart by run (Communications), of a *)
(* well-typed state.                                                        *)
RecordInv == TypeOK /\ RowsTellRuns /\ DocumentedMeansStored

(* The ratecon that a load's last mail was queued for is not cancelled      *)
(* while no webhook is at work: superseding is over before the new ratecon  *)
(* is looked for, and a cancelled one is not found again.                   *)
NewestRateconStands ==
  api.at = "idle" => \A l \in Loads : accepted[l] # 0 => Sub(accepted[l]) # "cancelled"

(* A driver reply is given to a driver request of a load that the reply's   *)
(* thread was about before any reply came: rows are linked to runs by       *)
(* several hands, and the links are the only way from a thread to a load.   *)
OwnThread ==
  \A n \in DOMAIN items : items[n].event = "details" =>
    \E i \in InThread(Mail[items[n].mail].thread) :
      /\ rows[i].run \in DOMAIN runs /\ runs[rows[i].run].event # "details"
      /\ Correlation(runs[rows[i].run].cycle) = LoadOf(n)

\* The first words of a mail are the sender's own, within divisions or in none.
TopPosted(m) ==
  \E k \in DOMAIN Mail[m].body :
    Mail[m].body[k] = "own" /\ \A j \in 1..(k - 1) : Mail[m].body[j] = "div"

\* The removal of a header takes a division above it along, the sender's words included.
Swallowed(m) ==
  /\ Mail[m].body # <<>> /\ Mail[m].body[1] = "div"
  /\ Has(Mail[m].body, "fwdHeader") /\ ~Has(Mail[m].body, "hr")

\* The driver replies that are decided on, recorded and among the oldest
\* messages of their thread, which are read.
RepliesRead ==
  {n \in DOMAIN items :
     /\ items[n].at = "decide" /\ items[n].event = "details" /\ items[n].row # 0
     /\ Cardinality({i \in InThread(Mail[items[n].mail].thread) : i < items[n].row}) < Limit}

OwnSeen(n) == <<items[n].mail, "own">> \in items[n].seen

(* A driver reply is decided on a text with the reply's own words, if these *)
(* were written above what it quotes.  The code does not have it of a mail   *)
(* without a rule whose words are in a division above a forward header: the  *)
(* pattern for the header begins at the first division.                      *)
ReplyRead ==
  \A n \in RepliesRead :
    TopPosted(items[n].mail) /\ ~Swallowed(items[n].mail) => OwnSeen(n)

(* An appointment reply is decided on a text with something that we wrote:  *)
(* the draft, when the reply comes on a thread of its own.                  *)
DraftRead ==
  \A n \in DOMAIN items :
    (items[n].at = "decide" /\ items[n].event = "reply") =>
      \E turn \in items[n].seen : turn[1] \notin Mails

(* Both: whatever is decided on a reply is decided on what was written.     *)
TextInv == ReplyRead /\ DraftRead
=============================================================================

--------------------------- MODULE LoadTendering ---------------------------
(***************************************************************************)
(* The tender of one load: its workflow_lifecycles row, with the routing   *)
(* guide attempt kept in its metadata, the run queue and the graph run at  *)
(* its head, the delayed tasks that remind the carrier and escalate, and   *)
(* the inbound mails, which the ingress worker links to runs.  An FTL load *)
(* goes from carrier to carrier when one refuses or does not answer; an    *)
(* LTL load has one carrier.                                               *)
(*                                                                         *)
(* Runs of one lifecycle do not overlap and come in arrival order, which   *)
(* is what RunQueue guarantees; the ingress worker, the timers and the     *)
(* portal work beside them.  Left out: the carrier that an attempt stands  *)
(* for, the text of mails, the clock (a timer may always find that it is   *)
(* too late) and sequences that log and write no column.  An attempt that  *)
(* is absent from the metadata reads as 1, so it is 1 here.                *)
(***************************************************************************)
EXTENDS LifecycleRequests, FiniteSets, SequencesExt

CONSTANTS Loads,        \* what the tender may be
          Threads,      \* mail threads
          NoThread,     \* not a thread
          Slots,        \* reminder steps of the schedule
          Skips,        \* skip_sub_statuses of the tenant
          Failing,      \* the operations that may fail
          MaxMails, MaxOutside

\* The schedule entry of the escalation.
Escalation == 0

TenantSubs == <<"tender_sent_to_tenant_for_carrier_1",
                "tender_sent_to_tenant_for_carrier_2",
                "tender_sent_to_tenant_for_carrier_3">>

CarrierSubs == <<"tender_sent_to_carrier_1", "tender_sent_to_carrier_2",
                 "tender_sent_to_carrier_3">>

ReminderSubs == <<"reminder_1_sent", "reminder_2_sent">>

\* GELITA_MAX_CARRIER_ATTEMPTS.
Ceiling == Len(TenantSubs)

Attempts == 1..Ceiling

\* A load type, and how many carriers the tenant lets an FTL load go to.
ASSUME LoadsAssumption == Loads \subseteq [type : {"FTL", "LTL"}, carriers : Attempts]
ASSUME ThreadsAssumption == NoThread \notin Threads
ASSUME SlotsAssumption == Slots \subseteq 1..Len(ReminderSubs)
ASSUME FailingAssumption ==
  Failing \subseteq {"read", "mail", "enqueue", "register", "mark", "revoke", "cancel",
                     "link", "raise"}
ASSUME BoundsAssumption == {MaxMails, MaxOutside} \subseteq Nat

VARIABLES load,      \* the load type and the tenant's max_attempts
          row,       \* the lifecycle as committed
          attempt,   \* metadata: routing_guide_attempt
          marked,    \* metadata: reminders_scheduled_for_attempt, 0 if none
          pending,   \* metadata: pending_reminder_tasks
          tasks,     \* reminder tasks waiting in Celery for their time
          batches,   \* the attempt each batch of reminders is for, 0 if it failed
          mails,     \* inbound communications, in the order of created_at
          tendered,  \* whether a tender mail has been sent
          queue,     \* work items waiting behind the run
          run,       \* the graph run, Idle if there is none
          outside    \* writes by the portal

vars == <<load, row, attempt, marked, pending, tasks, batches, mails, tendered, queue, run,
          outside>>

\* What the ingress worker and what the runs leave alone.
mailVars == <<mails, tendered>>
metaVars == <<attempt, marked>>
timerVars == <<pending, tasks, batches>>

Inserted == [status |-> "none", sub |-> "none", pause |-> Unset]

Subs == {"none", "tender_created", "tender_sent_to_tenant", "tender_sent_to_carrier",
         "accepted", "rejected", "escalated", "resolved_manually"}
          \cup Range(TenantSubs) \cup Range(CarrierSubs) \cup Range(ReminderSubs)

Events == {"tender_created", "carrier_email_received", "ack_received", "reminder_due",
           "escalation_due"}

Items == [event : Events, thread : Threads \cup {NoThread}, attempt : Attempts,
          slot : Slots \cup {Escalation}]

Tasks == [slot : Slots \cup {Escalation}, attempt : Attempts, batch : Nat]

\* A mail: what the ingress worker takes it for, how far it is with it, the
\* attempt it has read, and the event of the run the mail is linked to.
Mails == [thread : Threads, event : Events \cup {"none"}, attempt : Attempts,
          at : {"arrived", "passed", "queued", "linked", "skipped", "retired"},
          run : Events \cup {"none"}]

\* Where a run is: before the node or the half of a node it names.
Nodes == {"idle", "record", "read", "skip", "send", "warn", "log", "carrier", "schedule",
          "mark", "remind", "update", "guard", "classify", "route", "advance", "bump",
          "escalate", "notify", "escalated", "ack", "write"}

Runs == [item : Items, at : Nodes, attempt : Attempts, failover : BOOLEAN,
         decision : {"none", "accepted", "rejected"}, todo : Seq(Commands(Subs))]

Item(event, thread, n, slot) == [event |-> event, thread |-> thread, attempt |-> n, slot |-> slot]

Created == Item("tender_created", NoThread, 1, Escalation)

Begun(item, at) == [item |-> item, at |-> at, attempt |-> item.attempt, failover |-> FALSE,
                    decision |-> "none", todo |-> <<>>]

Idle == Begun(Created, "idle")

TypeOK ==
  /\ load \in Loads
  /\ row \in [status : Statuses, sub : Subs, pause : PauseTypes \cup {Unset}]
  /\ attempt \in 1..load.carriers
  /\ marked \in 0..Ceiling
  /\ pending \in SUBSET Tasks
  /\ tasks \in SUBSET Tasks
  /\ batches \in Seq(0..Ceiling)
  /\ mails \in Seq(Mails)
  /\ tendered \in BOOLEAN
  /\ queue \in Seq(Items)
  /\ run \in Runs
  /\ outside \in Nat

\* The spreadsheet is imported: the lifecycle is there, the run is queued.
Init ==
  /\ load \in Loads
  /\ row = Inserted
  /\ attempt = 1
  /\ marked = 0
  /\ pending = {}
  /\ tasks = {}
  /\ batches = <<>>
  /\ mails = <<>>
  /\ tendered = FALSE
  /\ queue = <<Created>>
  /\ run = Idle
  /\ outside = 0

-----------------------------------------------------------------------------
(* What the code asks of threads and of runs.                              *)

FTL == load.type = "FTL"

Anchors(t) == {i \in DOMAIN mails : mails[i].thread = t /\ mails[i].run = "carrier_email_received"}

Anchored == {t \in Threads : Anchors(t) # {}}

\* _carrier_anchors_ranked_sql: the place of a thread among those linked to
\* carrier_email_received runs, by the first mail so linked; 0 if it is none
\* of them.  The code takes the place for the attempt.
Ordinal(t) ==
  IF t \notin Anchored THEN 0
  ELSE Cardinality({u \in Anchored : Min(Anchors(u)) <= Min(Anchors(t))})

\* is_retired_carrier_thread.
Retired(t) == FTL /\ Ordinal(t) \in 1..(attempt - 1)

\* _check_carrier_thread_ingress: whether this thread or another one has the
\* place already.
CarrierKnown == \E t \in Threads : IF FTL THEN Ordinal(t) = attempt ELSE Ordinal(t) > 0

\* resolve_thread_for_lifecycle.
HasReminderThread == IF FTL THEN \E t \in Threads : Ordinal(t) = run.attempt ELSE Anchored # {}

Timer(item) == item.event \in {"reminder_due", "escalation_due"}

\* Faulty variants, used as mutants.
OneFewer(n) == FTL /\ n + 1 < load.carriers
NeverScheduled(n) == FALSE
NeverCompleted == FALSE

\* mark_stale_routing_guide_reminder_if_needed.
Stale(r) == FTL /\ Timer(r.item) /\ r.attempt # attempt

\* tender_status_router, for a lifecycle that has been completed.
Completed == row.status = "completed"

\* routing_guide_reminders_scheduled_for_attempt.
AlreadyScheduled(n) == FTL /\ marked = n

\* routing_guide_router.
HasNext(n) == FTL /\ n < load.carriers

\* gelita_routing_guide_sub_status_for.
TenantSub(n) == IF FTL THEN TenantSubs[n] ELSE "tender_sent_to_tenant"
CarrierSub(n) == IF FTL THEN CarrierSubs[n] ELSE "tender_sent_to_carrier"

Skipped == DelayedSkip(row, Skips)

-----------------------------------------------------------------------------
(* The ingress worker, the timers, the portal.                             *)

\* A mail about an order can be written once the order has been mailed.
Arrive(t) ==
  /\ tendered
  /\ Len(mails) < MaxMails
  /\ mails' = Append(mails, [thread |-> t, event |-> "none", attempt |-> 1,
                             at |-> "arrived", run |-> "none"])
  /\ UNCHANGED <<load, row, metaVars, timerVars, tendered, queue, run, outside>>

\* The guards of _try_ack_received, in their order.
AckVerdict(m) ==
  IF row.status = "completed" THEN "skipped"
  ELSE IF Retired(mails[m].thread) THEN "retired"
  ELSE IF mails[m].run # "none" THEN "skipped"
  ELSE "passed"

\* The guards of _carrier_email_received.
CarrierVerdict(m) ==
  IF row.status = "completed" \/ CarrierKnown \/ mails[m].run # "none" THEN "skipped"
  ELSE "passed"

\* process: a reply, unless it is a forward of the tender mail, is an ack.
ReadMail(m, event) ==
  /\ mails[m].at = "arrived"
  /\ mails' = [mails EXCEPT ![m] = [@ EXCEPT !.event = event, !.attempt = attempt,
                                             !.at = IF event = "ack_received" THEN AckVerdict(m)
                                                    ELSE CarrierVerdict(m)]]
  /\ UNCHANGED <<load, row, metaVars, timerVars, tendered, queue, run, outside>>

\* enqueue_load_tendering_workflow, with the attempt that was read.
EnqueueMail(m) ==
  /\ mails[m].at = "passed"
  /\ mails' = [mails EXCEPT ![m].at = "queued"]
  /\ queue' = Append(queue, Item(mails[m].event, mails[m].thread, mails[m].attempt, Escalation))
  /\ UNCHANGED <<load, row, metaVars, timerVars, tendered, run, outside>>

\* What a run may be linked to: this mail and every other of its thread that
\* has no run; a link that fails is logged and forgotten.
Linkings(m) ==
  LET unlinked == {i \in DOMAIN mails : mails[i].thread = mails[m].thread /\ mails[i].run = "none"}
  IN {unlinked} \cup IF "link" \in Failing THEN {{}, unlinked \cap {m}} ELSE {}

\* enqueue_gelita_load_tendering_and_link, once the run is queued.
LinkMail(m) ==
  /\ mails[m].at = "queued"
  /\ \E linked \in Linkings(m) :
       mails' = [i \in DOMAIN mails |->
                   [mails[i] EXCEPT !.at = IF i = m THEN "linked" ELSE @,
                                    !.run = IF i \in linked THEN mails[m].event ELSE @]]
  /\ UNCHANGED <<load, row, metaVars, timerVars, tendered, queue, run, outside>>

\* trigger_workflow_reminder; workers are late, so in any order.
Fire(t) ==
  /\ t \in tasks
  /\ tasks' = tasks \ {t}
  /\ queue' = Append(queue, Item(IF t.slot = Escalation THEN "escalation_due" ELSE "reminder_due",
                                 NoThread, t.attempt, t.slot))
  /\ UNCHANGED <<load, row, metaVars, pending, batches, mailVars, run, outside>>

\* The portal resolves the tender without reading it.
Portal ==
  /\ outside < MaxOutside
  /\ outside' = outside + 1
  /\ \E commands \in Resolve(row) : row' = AfterSequence(row, commands)
  /\ UNCHANGED <<load, metaVars, timerVars, mailVars, queue, run>>

-----------------------------------------------------------------------------
(* The graph run.                                                          *)

Goto(at) == run' = [run EXCEPT !.at = at]

End == run' = Idle

\* A write decided on the row as it was read.
Write(commands) == run' = [run EXCEPT !.at = "write", !.todo = commands]

Committed(commands) == row' = AfterSequence(row, commands)

OnlyRun == UNCHANGED <<load, row, metaVars, timerVars, mailVars, queue, outside>>
OnlyRow == UNCHANGED <<load, metaVars, timerVars, mailVars, queue, outside>>

\* A node under safe_node: the failure is put on record and ends the run.
Fail == /\ \E category \in {"business", "system"} : Committed(FailureOf(category))
        /\ End

\* The next item is taken when the run before it has ended.
Take ==
  /\ run.at = "idle" /\ queue # <<>>
  /\ queue' = Tail(queue)
  /\ run' = Begun(Head(queue), CASE Head(queue).event = "tender_created" -> "record"
                                 [] Head(queue).event = "ack_received" -> "guard"
                                 [] OTHER -> "read")
  /\ UNCHANGED <<load, row, metaVars, timerVars, mailVars, outside>>

\* A node raises and nothing catches it: the run is over.
Raise ==
  /\ "raise" \in Failing
  /\ run.at \notin {"idle", "mark"}
  /\ End
  /\ OnlyRun

\* record_sequence or apply of what the node decided.
WriteRow ==
  /\ run.at = "write"
  /\ Committed(run.todo)
  /\ End
  /\ OnlyRow

RecordCreated ==
  /\ run.at = "record"
  /\ \E commands \in TenderCreated(row) : Committed(commands)
  /\ Goto("read")
  /\ OnlyRow

\* post_read_tender_router; the cutoff of the delivery date may have passed.
Branches(r) ==
  IF r.failover THEN {"send"}
  ELSE CASE r.item.event = "carrier_email_received" -> {"carrier"}
         [] r.item.event = "tender_created" -> {"send", "skip"}
         [] Timer(r.item) ->
              IF Stale(r) \/ Completed THEN {"idle"}
              ELSE {"idle", IF r.item.event = "reminder_due" THEN "remind" ELSE "route"}

\* read_tender_row: the attempt of the run becomes that of the lifecycle.
Read ==
  /\ run.at = "read"
  /\ \E at \in Branches(run) :
       IF at = "idle" THEN End ELSE run' = [run EXCEPT !.attempt = attempt, !.at = at]
  /\ OnlyRun

\* read_tender_row, calculate_tender_params and send_tender_email fail.
SafeNodeFails ==
  /\ run.at = "read" => "read" \in Failing
  /\ run.at = "send" => "mail" \in Failing
  /\ run.at \in {"read", "send"}
  /\ Fail
  /\ OnlyRow

\* resolve_international_delivery_skip and resolve_pack_code_skip.
SkipTender ==
  /\ run.at = "skip"
  /\ Committed(<<StatusChange("completed", "resolved_manually")>>)
  /\ End
  /\ OnlyRow

\* calculate_tender_params, then send_tender_email.
SendTender ==
  /\ run.at = "send"
  /\ tendered' = TRUE
  /\ Goto("warn")
  /\ UNCHANGED <<load, row, metaVars, timerVars, mails, queue, outside>>

\* record_tender_business_warnings, if there were any.
RecordWarnings ==
  /\ run.at = "warn"
  /\ row' \in {row, AfterSequence(row, <<Exception>>)}
  /\ Goto("log")
  /\ OnlyRow

\* log_tender_activity; record_tenant_sent reads the attempt again.
LogTender ==
  /\ run.at = "log"
  /\ Committed(<<Action, SubChange(Unset, TenantSub(attempt))>>)
  /\ End
  /\ OnlyRow

\* record_tender_sent_to_carrier: whatever the status of the row.
RecordCarrier ==
  /\ run.at = "carrier"
  /\ Committed(<<SubChange(Unset, CarrierSub(run.attempt))>>)
  /\ Goto("schedule")
  /\ OnlyRow

\* schedule has told the node that reminders are scheduled.
Flagged == IF FTL THEN Goto("mark") ELSE End

\* All steps are enqueued and put on the lifecycle, unless that fails.
ScheduleAll(batch) ==
  /\ batches' = Append(batches, run.attempt)
  /\ tasks' = tasks \cup batch
  /\ pending' \in {pending \cup batch} \cup IF "register" \in Failing THEN {pending} ELSE {}
  /\ Flagged

\* A step cannot be enqueued: those before it are revoked, if that works.
ScheduleFails(batch) ==
  /\ "enqueue" \in Failing
  /\ batches' = Append(batches, 0)
  /\ \E left \in SUBSET batch :
       /\ left # {} => "revoke" \in Failing
       /\ left # batch
       /\ tasks' = tasks \cup left
  /\ UNCHANGED pending
  /\ End

\* schedule_tender_reminders, with WorkflowReminderService.schedule.
Schedule ==
  /\ run.at = "schedule"
  /\ IF AlreadyScheduled(run.attempt) THEN End /\ UNCHANGED timerVars
     ELSE IF row.sub \in Skips THEN Flagged /\ UNCHANGED timerVars
     ELSE LET batch == [slot : Slots \cup {Escalation}, attempt : {run.attempt},
                        batch : {Len(batches) + 1}]
          IN ScheduleAll(batch) \/ ScheduleFails(batch)
  /\ UNCHANGED <<load, row, metaVars, mailVars, queue, outside>>

\* mark_reminders_scheduled_for_attempt, in a transaction of its own.
Mark ==
  /\ run.at = "mark"
  /\ marked' \in {run.attempt} \cup IF "mark" \in Failing THEN {marked} ELSE {}
  /\ End
  /\ UNCHANGED <<load, row, attempt, timerVars, mailVars, queue, outside>>

\* send_tender_reminder: to the thread of the attempt, if there is one.
Remind ==
  /\ run.at = "remind"
  /\ \/ ~Skipped /\ HasReminderThread /\ Goto("update")
     \/ (Skipped \/ ~HasReminderThread \/ "mail" \in Failing) /\ End
  /\ OnlyRun

\* update_reminder_status.
UpdateReminder ==
  /\ run.at = "update"
  /\ IF Skipped THEN End
     ELSE Write(<<Action, TenderReviewStep(row, ReminderSubs[run.item.slot])>>)
  /\ OnlyRun

\* guard_automatic_reply_ack: a retired thread, an automatic reply.
Guard ==
  /\ run.at = "guard"
  /\ \/ Retired(run.item.thread) /\ End /\ UNCHANGED row
     \/ ~Retired(run.item.thread) /\ Goto("classify") /\ UNCHANGED row
     \/ ~Retired(run.item.thread) /\ End /\ Committed(<<Exception>>)
  /\ OnlyRow

\* classify_carrier_ack; without a prompt or an answer, nothing is done.
Classify ==
  /\ run.at = "classify"
  /\ \/ run' = [run EXCEPT !.at = "ack", !.decision = "accepted"]
     \/ run' = [run EXCEPT !.at = "route", !.decision = "rejected"]
     \/ End
  /\ OnlyRun

\* The timeout of a carrier, or its refusal; the shipper's refusal is final.
Route ==
  /\ run.at = "route"
  /\ \/ HasNext(run.attempt) /\ Goto("advance")
     \/ ~HasNext(run.attempt) /\ (Timer(run.item) \/ FTL) /\ Goto("escalate")
     \/ ~Timer(run.item) /\ Goto("ack")
  /\ OnlyRun

\* _cancel_matching: what is on the lifecycle is revoked, as far as that
\* works, and taken off it, unless that fails.
Revoke(matching) ==
  \E revoked \in {matching} \cup IF "revoke" \in Failing THEN SUBSET matching ELSE {} :
    /\ tasks' = tasks \ revoked
    /\ pending' \in {pending \ matching} \cup IF "cancel" \in Failing THEN {pending} ELSE {}

OfAttempt(n) == {t \in pending : t.attempt = n}

\* advance_carrier_routing_guide: first the reminders of the attempt go.
Advance ==
  /\ run.at = "advance"
  /\ Revoke(OfAttempt(run.attempt))
  /\ Goto("bump")
  /\ UNCHANGED <<load, row, metaVars, batches, mailVars, queue, outside>>

\* Faulty variant, used as a mutant: a run that comes late is not noticed.
OneMore(n) == IF attempt >= load.carriers THEN attempt ELSE attempt + 1

\* advance, of a run that has seen attempt n: another run may have advanced.
NextAttempt(n) ==
  IF attempt > n \/ attempt >= load.carriers THEN attempt ELSE n + 1

Bump ==
  /\ run.at = "bump"
  /\ attempt' = NextAttempt(run.attempt)
  /\ run' = [run EXCEPT !.at = "read", !.attempt = attempt', !.failover = TRUE]
  /\ UNCHANGED <<load, row, marked, timerVars, mailVars, queue, outside>>

\* escalate_tender, up to its first look at the row.
Escalate ==
  /\ run.at = "escalate"
  /\ Revoke(pending)
  /\ IF Skipped THEN End ELSE Goto("notify")
  /\ UNCHANGED <<load, row, metaVars, batches, mailVars, queue, outside>>

Notify ==
  /\ run.at = "notify"
  /\ Goto("escalated") \/ ("mail" \in Failing /\ End)
  /\ OnlyRun

\* escalate_tender, from its second look on.
RecordEscalation ==
  /\ run.at = "escalated"
  /\ IF TenderEscalated(row) = {} THEN End
     ELSE \E commands \in TenderEscalated(row) : Write(commands)
  /\ OnlyRun

\* record_ack_received, which has not looked at the row.
RecordAck ==
  /\ run.at = "ack"
  /\ Revoke(pending)
  /\ Write(<<StatusChange("completed", run.decision)>>)
  /\ UNCHANGED <<load, row, metaVars, batches, mailVars, queue, outside>>

Ingress ==
  \/ \E t \in Threads : Arrive(t)
  \/ \E m \in DOMAIN mails :
       \/ \E event \in {"carrier_email_received", "ack_received"} : ReadMail(m, event)
       \/ EnqueueMail(m)
       \/ LinkMail(m)

Node ==
  \/ RecordCreated \/ Read \/ SafeNodeFails \/ SkipTender
  \/ SendTender \/ RecordWarnings \/ LogTender
  \/ RecordCarrier \/ Schedule \/ Mark
  \/ Remind \/ UpdateReminder
  \/ Guard \/ Classify \/ Route \/ Advance \/ Bump
  \/ Escalate \/ Notify \/ RecordEscalation \/ RecordAck \/ WriteRow

Next == Ingress \/ (\E t \in tasks : Fire(t)) \/ Portal \/ Take \/ Node \/ Raise

Spec == Init /\ [][Next]_vars

-----------------------------------------------------------------------------
Acked == row.status = "completed" /\ row.sub \in {"accepted", "rejected"}

(* A carrier is passed over only by a decision about it: a refusal or a      *)
(* timeout that comes twice, or late, does not skip the carrier that has     *)
(* been tendered meanwhile.                                                  *)
PassedOverOnce == [][attempt' # attempt => run.item.attempt = attempt]_attempt

(* An FTL tender is escalated only when the last carrier has been asked,     *)
(* however refusals, timeouts and carrier mails of several attempts mix.     *)
EscalatedLast == FTL /\ row.sub = "escalated" => attempt = load.carriers

(* Reminders are scheduled once for an attempt, though two mails of the same *)
(* attempt may both pass the ingress before either is linked.                *)
RemindersOnce ==
  FTL => \A i, j \in DOMAIN batches : batches[i] = batches[j] /\ batches[i] # 0 => i = j

(* What is on the lifecycle to be revoked and still waits is of the live     *)
(* attempt: an advance leaves no reminder of the carrier it has passed over. *)
RecordedAreLive == FTL => \A t \in pending \cap tasks : t.attempt = attempt

(* Both, of a well-typed state (schedule_tender_reminders, cancel_for_attempt). *)
ReminderInv == TypeOK /\ RemindersOnce /\ RecordedAreLive

(* A timer that survived its revocation reminds nobody and advances nothing  *)
(* once the tender has gone to another carrier, and writes nothing on a      *)
(* tender that has been accepted or rejected but the record of its own       *)
(* failure, which leaves the sub-status as it is.                            *)
LateTimersLost ==
  [][ Timer(run.item) /\ run' # run =>
        /\ FTL /\ run'.at \in {"update", "advance"} => run.item.attempt = attempt
        /\ Acked => row' = row \/ (row'.status = "pending_review" /\ row'.sub = row.sub) ]_run

(* "FTL: skip ack on a carrier thread superseded by a later routing-guide    *)
(* attempt" (gelita_email_ingress_service.py:374): a reply is dropped as     *)
(* retired only if the live carrier has not written on its thread.           *)
LiveThreadNotRetired ==
  [][ \A m \in DOMAIN mails :
        mails[m].at = "arrived" /\ mails'[m].at = "retired" =>
          ~ \E i \in Anchors(mails[m].thread) : mails[i].attempt = attempt ]_mails
=============================================================================

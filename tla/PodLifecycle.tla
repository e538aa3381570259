---------------------------- MODULE PodLifecycle ----------------------------
(***************************************************************************)
(* The proof of delivery of one shipment: the Turvo webhook that asks for  *)
(* it, the reminders to the carrier, the packets that come by mail or from *)
(* the portal, and the runs of the lifecycle's graph that read, store and  *)
(* push them.  The ingress, the portal, the dispatchers in Turvo and the   *)
(* pending Celery tasks work beside the runs, which RunQueue keeps apart   *)
(* and in arrival order.                                                   *)
(*                                                                         *)
(* Left out: what is on the pages and the score it gets (PodPages), shadow *)
(* mode, Teams posts (they stop nothing) and sequences that write no       *)
(* column.                                                                 *)
(***************************************************************************)
EXTENDS LifecycleRequests, FiniteSets, SequencesExt

CONSTANTS MultiStops,  \* what is_multi_stop_shipment may be
          Failing,     \* the operations that may fail
          Steps,       \* the reminder steps, in the order they are enqueued
          MaxHooks, MaxPackets, MaxOutside

ASSUME MultiStopsAssumption == MultiStops \subseteq BOOLEAN
ASSUME FailingAssumption ==
  Failing \subseteq {"check", "enqueue", "mail", "pipeline", "merge", "analyse", "persist",
                     "trim", "s3", "document", "score", "push", "timeout", "raise"}
ASSUME StepsAssumption == Steps \in Seq({1, 3}) /\ IsInjective(Steps)
ASSUME BoundsAssumption == {MaxHooks, MaxPackets, MaxOutside} \subseteq Nat

VARIABLES multi,    \* whether the shipment has more than two stops
          row,      \* the lifecycle as committed
          exists,   \* whether its row is there
          ran,      \* a route_completed run is on record in workflow_runs
          hooks,    \* webhooks received, and those past the gates but not enqueued
          packets,  \* packets received, and mails past the gates but not enqueued
          pending,  \* the steps of the reminder tasks that Celery holds
          queue,    \* work items waiting behind the run
          run,      \* the graph run, Idle if there is none
          stored,   \* a documents row names a POD
          inTms,    \* Turvo lists a POD
          mailed,   \* the steps of the reminders sent, in order
          raised,   \* a node has raised and nothing caught it
          outside   \* writes by the portal and by dispatchers in Turvo

vars == <<multi, row, exists, ran, hooks, packets, pending, queue, run, stored, inTms, mailed,
          raised, outside>>

Inserted == [status |-> "none", sub |-> "none", pause |-> Unset]

Subs == {"none", "pod_started", "reminder_1_sent", "reminder_3_sent", "document_uploaded",
         "document_processed", "uploaded_to_tms", "resolved_manually"}

\* The packet is in Turvo or with the reviewer.
Received == {"document_processed", "uploaded_to_tms"}

\* By hand, with a new PDF or with the one that is stored.
Manual == {"manual_fresh", "manual_stored"}
Events == {"route_completed", "email_received", "reminder_due"} \cup Manual

Items == [event : Events, step : {0} \cup ToSet(Steps)]

Item(event) == [event |-> event, step |-> 0]

Nodes == {"idle", "gate", "assess", "begin", "exists", "schedule", "started", "found", "revoke",
          "eligible", "mail", "reminder", "merge", "analyse", "extracted", "trim", "store",
          "uploaded", "score", "processed", "several", "push", "pushed", "write"}

\* What became of the pages that the LLM read.
Analyses == {"none", "lost", "kept"}

Runs == [item : Items, at : Nodes, then : Nodes, analysis : Analyses, todo : Seq(Commands(Subs))]

Begun(item, at) ==
  [item |-> item, at |-> at, then |-> "idle", analysis |-> "none", todo |-> <<>>]

Idle == Begun(Item("route_completed"), "idle")

TypeOK ==
  /\ multi \in MultiStops
  /\ row \in [status : Statuses, sub : Subs, pause : PauseTypes \cup {Unset}]
  /\ {exists, ran, stored, inTms, raised} \subseteq BOOLEAN
  /\ hooks \in [received : 0..MaxHooks, passed : 0..MaxHooks]
  /\ packets \in [received : 0..MaxPackets, passed : 0..MaxPackets]
  /\ pending \in Seq(ToSet(Steps))
  /\ queue \in Seq(Items)
  /\ run \in Runs
  /\ mailed \in Seq(ToSet(Steps))
  /\ outside \in 0..MaxOutside

Init ==
  /\ multi \in MultiStops
  /\ row = Inserted
  /\ exists = FALSE /\ ran = FALSE
  /\ hooks = [received |-> 0, passed |-> 0]
  /\ packets = [received |-> 0, passed |-> 0]
  /\ pending = <<>> /\ queue = <<>>
  /\ run = Idle
  /\ stored = FALSE /\ inTms = FALSE
  /\ mailed = <<>>
  /\ raised = FALSE
  /\ outside = 0

inVars == <<hooks, packets, outside>>
docVars == <<stored, inTms>>

-----------------------------------------------------------------------------
(* What the code asks of the lifecycle and of Turvo.                       *)

Can(failure) == failure \in Failing

\* What check_pod_by_shipment_id may say; a check that fails says no.
PodSeen == {inTms} \cup When(Can("check"), {FALSE})

\* check_route_completed_duplicate.
RanBefore == exists /\ ran

\* is_duplicate_email_pod_ingest.
AlreadyDone == row.sub \in PodDone

\* The gates of a route_completed, of which the convoy gate may close too.
RoutePasses == ~RanBefore /\ FALSE \in PodSeen

-----------------------------------------------------------------------------
(* The webhook, the mail ingress, the portal, Celery and Turvo.            *)

\* The Turvo webhook up to the gates; a webhook they stop leaves no trace.
RouteCompleted ==
  /\ hooks.received < MaxHooks
  /\ RoutePasses
  /\ hooks' = [received |-> hooks.received + 1, passed |-> hooks.passed + 1]
  /\ UNCHANGED <<multi, row, exists, ran, packets, pending, queue, run, docVars, mailed, raised,
                 outside>>

\* The rest of it: resolve_then_enqueue makes the lifecycle if need be.
EnqueueRoute ==
  /\ hooks.passed > 0
  /\ hooks' = [hooks EXCEPT !.passed = @ - 1]
  /\ exists' = TRUE
  /\ queue' = Append(queue, Item("route_completed"))
  /\ UNCHANGED <<multi, row, ran, packets, pending, run, docVars, mailed, raised, outside>>

\* prepare_pod_email_received_for_ingress.
PacketMailed ==
  /\ packets.received < MaxPackets
  /\ ~AlreadyDone
  /\ packets' = [received |-> packets.received + 1, passed |-> packets.passed + 1]
  /\ UNCHANGED <<multi, row, exists, ran, hooks, pending, queue, run, docVars, mailed, raised,
                 outside>>

\* enqueue_t3ra_workflow.
EnqueuePacket ==
  /\ packets.passed > 0
  /\ packets' = [packets EXCEPT !.passed = @ - 1]
  /\ exists' = TRUE
  /\ queue' = Append(queue, Item("email_received"))
  /\ UNCHANGED <<multi, row, ran, hooks, pending, run, docVars, mailed, raised, outside>>

\* upload_pod in the portal: a new PDF, or the stored one again.
UploadByHand(event) ==
  /\ packets.received < MaxPackets
  /\ exists
  /\ event = "manual_stored" => stored
  /\ packets' = [packets EXCEPT !.received = @ + 1]
  /\ queue' = Append(queue, Item(event))
  /\ UNCHANGED <<multi, row, exists, ran, hooks, pending, run, docVars, mailed, raised, outside>>

\* trigger_workflow_reminder; the delays keep no order between the steps.
ReminderFires(i) ==
  /\ pending' = RemoveAt(pending, i)
  /\ queue' = Append(queue, [event |-> "reminder_due", step |-> pending[i]])
  /\ UNCHANGED <<multi, row, exists, ran, inVars, run, docVars, mailed, raised>>

\* The portal resolves the lifecycle without reading it.
Portal ==
  /\ outside < MaxOutside /\ exists
  /\ outside' = outside + 1
  /\ \E commands \in Resolve(row) : row' = AfterSequence(row, commands)
  /\ UNCHANGED <<multi, exists, ran, hooks, packets, pending, queue, run, docVars, mailed, raised>>

\* A dispatcher attaches the POD in Turvo.
AttachInTurvo ==
  /\ outside < MaxOutside
  /\ outside' = outside + 1
  /\ inTms' = TRUE
  /\ UNCHANGED <<multi, row, exists, ran, hooks, packets, pending, queue, run, stored, mailed,
                 raised>>

-----------------------------------------------------------------------------
(* The graph run.                                                          *)

Goto(at) == run' = [run EXCEPT !.at = at]

End == run' = Idle

\* A write decided on the row as it was read; the run goes on after it.
Write(commands, next) == run' = [run EXCEPT !.at = "write", !.then = next, !.todo = commands]

Committed(commands) == row' = AfterSequence(row, commands)

\* What every step of a run leaves alone, what one that only moves on leaves.
Beside == UNCHANGED <<multi, exists, inVars>>
Still == Beside /\ UNCHANGED <<ran, pending, queue, docVars, mailed>>
OnlyRun == Still /\ UNCHANGED <<row, raised>>

\* A node under safe_node: the failure is put on record and ends the run.
Fail == /\ \E category \in {"business", "system"} : Committed(FailureOf(category))
        /\ End

\* A node that goes on to `next`, or fails as `failure`.
SafeNode(at, next, failure) ==
  /\ run.at = at
  /\ \/ Goto(next) /\ row' = row
     \/ Can(failure) /\ Fail
  /\ Still /\ UNCHANGED raised

\* A read of the row that leads to the sequence in `sequences`, or to none.
Record(at, sequences, next) ==
  /\ run.at = at
  /\ IF sequences = {} THEN run' = [run EXCEPT !.at = next]
     ELSE \E commands \in sequences : Write(commands, next)
  /\ OnlyRun

Take ==
  /\ run.at = "idle" /\ queue # <<>>
  /\ queue' = Tail(queue)
  /\ run' = Begun(Head(queue), CASE Head(queue).event = "route_completed" -> "gate"
                                 [] Head(queue).event \in {"email_received", "manual_fresh"} -> "assess"
                                 [] OTHER -> "begin")
  /\ Beside /\ UNCHANGED <<row, ran, pending, docVars, mailed, raised>>

\* ActivityLogService.record_sequence: what it raises is not caught.
WriteRow ==
  /\ run.at = "write"
  /\ Committed(run.todo)
  /\ IF run.then = "idle" THEN End ELSE Goto(run.then)
  /\ Still /\ UNCHANGED raised

\* The nodes that record or schedule are not under safe_node.
Raise ==
  /\ Can("raise")
  /\ run.at \in {"begin", "schedule", "started", "found", "revoke", "reminder", "extracted",
                "uploaded", "processed", "several", "pushed", "write"}
  /\ End
  /\ raised' = TRUE
  /\ Still /\ UNCHANGED row

\* Faulty variant, used as a mutant.
GateUnasked ==
  /\ run.at = "gate"
  /\ run' \in {Idle, [run EXCEPT !.at = "begin"]}
  /\ OnlyRun

\* WorkflowService.run of a route_completed asks the gates again.
Gate ==
  /\ run.at = "gate"
  /\ run' \in {Idle} \cup When(RoutePasses, {[run EXCEPT !.at = "begin"]})
  /\ OnlyRun

\* WorkflowService.run of a packet: the shipment of the mail, the attachments;
\* both may stop the run before it is a run.
Assess ==
  /\ run.at = "assess"
  /\ \/ Goto("begin")
     \/ Can("pipeline") /\ End
  /\ OnlyRun

\* ExecutionService.execute, route_event, read_workflow_lifecycle and
\* get_shipment with shipment_router, whose status gate may end the run.
Begin ==
  /\ run.at = "begin"
  /\ ran' = (ran \/ run.item.event = "route_completed")
  /\ CASE run.item.event = "reminder_due" -> Goto("exists")
       [] run.item.event = "route_completed" -> End \/ Goto("exists")
       [] run.item.event = "manual_stored" -> End \/ Goto("push")
       [] OTHER -> End \/ Goto("merge")
  /\ Beside /\ UNCHANGED <<row, pending, queue, docVars, mailed, raised>>

\* check_existing_pod and pod_missing_dispatch_router.
CheckExisting ==
  /\ run.at = "exists"
  /\ \E found \in PodSeen :
       IF run.item.event = "reminder_due" THEN Goto(IF found THEN "found" ELSE "eligible")
       ELSE IF found THEN End ELSE Goto("schedule")
  /\ OnlyRun

\* WorkflowReminderService.schedule: all steps or none, and none of a
\* lifecycle that is done; what was not scheduled is not recorded.
Schedule ==
  /\ run.at = "schedule"
  /\ \/ /\ pending' = IF AlreadyDone THEN pending ELSE pending \o Steps
        /\ Goto("started")
     \/ Can("enqueue") /\ ~AlreadyDone /\ pending' = pending /\ End
  /\ Beside /\ UNCHANGED <<row, ran, queue, docVars, mailed, raised>>

RecordStarted ==
  Record("started", IF [status |-> row.status, sub |-> row.sub] = Fresh THEN PodStarted(Fresh)
                    ELSE {}, "idle")

\* complete_on_reminder_from_state.
FoundSequences(v) == PodFoundInTms([status |-> v.status, sub |-> v.sub])
RecordFound == Record("found", FoundSequences(row), "revoke")

\* cancel_all: the tasks that Celery still holds.
RevokeReminders ==
  /\ run.at = "revoke"
  /\ pending' = <<>>
  /\ End
  /\ Beside /\ UNCHANGED <<row, ran, queue, docVars, mailed, raised>>

\* Faulty variant, used as a mutant.
EligibleUnread ==
  /\ run.at = "eligible"
  /\ Goto("mail")
  /\ OnlyRun

\* PodLifecycleReminderEligibilityService.check.
CheckEligible ==
  /\ run.at = "eligible"
  /\ IF DelayedSkip(row, PodDone) THEN End ELSE Goto("mail")
  /\ OnlyRun

\* send_email; one that reports a failure may have gone out all the same.
SendReminder ==
  /\ run.at = "mail"
  /\ \/ mailed' = Append(mailed, run.item.step) /\ Goto("reminder")
     \/ Can("mail") /\ mailed' \in {mailed, Append(mailed, run.item.step)} /\ End
  /\ Beside /\ UNCHANGED <<row, ran, pending, queue, docVars, raised>>

\* record_reminder_from_state.
SubOfStep(step) == IF step = 1 THEN "reminder_1_sent" ELSE "reminder_3_sent"
ReminderSequences(v, step) == {s \in PodReminder(v) : s[2].sub = SubOfStep(step)}
RecordReminder == Record("reminder", ReminderSequences(row, run.item.step), "idle")

\* merge_pod_attachments_local and pod_stop_type_router.
Merge == SafeNode("merge", IF multi THEN "store" ELSE "analyse", "merge")

\* pod_analysis: no pages end a mail's run and not one by hand; the extraction
\* may not be stored.
Analyse ==
  /\ run.at = "analyse"
  /\ \/ \E analysis \in {"kept"} \cup When(Can("persist"), {"lost"}) :
          run' = [run EXCEPT !.at = "extracted", !.analysis = analysis] /\ row' = row
     \/ /\ Can("analyse")
        /\ IF run.item.event = "manual_fresh" THEN Goto("extracted") /\ row' = row ELSE Fail
  /\ Still /\ UNCHANGED raised

\* should_skip_idempotent_pod_activity_log: a fresh upload by hand logs again.
Logged(subs) == run.item.event # "manual_fresh" /\ row.sub \in subs

\* record_extraction_from_state.
RecordExtraction ==
  Record("extracted",
         When(run.analysis = "kept" /\ ~Logged({"document_processed"}), {<<Action>>}), "trim")

\* trim_ratecon_pages_from_pod: without pages it fails whoever sent them, and
\* a packet of rate confirmations only ends the run.
Trim ==
  /\ run.at = "trim"
  /\ \/ run.analysis # "none" /\ row' = row /\ (Goto("store") \/ End)
     \/ (run.analysis = "none" \/ Can("trim")) /\ Fail
  /\ Still /\ UNCHANGED raised

\* upload_preferred_from_state; a documents row that fails stops nothing.
Store ==
  /\ run.at = "store"
  /\ \/ /\ stored' \in {TRUE} \cup When(Can("document"), {stored})
        /\ Goto(IF multi THEN "several" ELSE "uploaded")
        /\ row' = row
     \/ Can("s3") /\ Fail /\ stored' = stored
  /\ Beside /\ UNCHANGED <<ran, pending, queue, inTms, mailed, raised>>

\* PodUploadActivityService.record_from_state.
UploadSequences(v) ==
  When(~Logged({"document_uploaded", "document_processed"}),
       {s \in PodUploaded(v) : s[1].sub = "document_uploaded"})
RecordUpload == Record("uploaded", UploadSequences(row), "score")

Score == SafeNode("score", "processed", "score")

\* post_pod_processing_router; update_shipment does nothing.
AfterProcessing == IF run.item.event \in Manual THEN "push" ELSE "idle"

\* PodProcessedActivityService.record_from_state.
ProcessedSequences(v) ==
  When(~Logged({"document_processed"}),
       IF run.analysis = "kept" THEN {<<ReviewStep(v, "document_processed")>>}
       ELSE When(run.item.event \notin Manual, PodFailed(v)))
RecordProcessed == Record("processed", ProcessedSequences(row), AfterProcessing)

\* record_multi_stop_pod_activity.
MultiStopSequences(v) == When(~Logged(Received), {<<ReviewStep(v, "document_uploaded")>>})
RecordMultiStop == Record("several", MultiStopSequences(row), AfterProcessing)

\* Faulty variant, used as a mutant.
PushUnnoticed ==
  /\ run.at = "push"
  /\ inTms' \in {TRUE, inTms}
  /\ Goto("pushed")
  /\ Beside /\ UNCHANGED <<row, ran, pending, queue, stored, mailed, raised>>

\* upload_to_turvo; a request that times out may have been carried out.
Push ==
  /\ run.at = "push"
  /\ \/ inTms' = TRUE /\ Goto("pushed") /\ row' = row
     \/ Can("push") /\ inTms' \in {inTms} \cup When(Can("timeout"), {TRUE}) /\ Fail
  /\ Beside /\ UNCHANGED <<ran, pending, queue, stored, mailed, raised>>

\* record_pod_tms_upload_from_state, by hand: only an upload comes this far.
PushedSequences(v) ==
  {s \in PodTmsUpload(v) :
     /\ Action \in ToSet(s)
     /\ s[1] = Action <=> v.status # "pending_review"
     /\ \A i \in DOMAIN s : s[i].status # "failed"}
RecordPushed == Record("pushed", PushedSequences(row), "idle")

-----------------------------------------------------------------------------
Ingress ==
  \/ RouteCompleted \/ EnqueueRoute \/ PacketMailed \/ EnqueuePacket
  \/ \E event \in Manual : UploadByHand(event)
  \/ \E i \in DOMAIN pending : ReminderFires(i)
  \/ Portal \/ AttachInTurvo

Asking == Gate \/ CheckExisting \/ Schedule \/ RecordStarted

Reminding == RecordFound \/ RevokeReminders \/ CheckEligible \/ SendReminder \/ RecordReminder

Reading == Assess \/ Merge \/ Analyse \/ RecordExtraction \/ Trim \/ Store

Finishing == RecordUpload \/ Score \/ RecordProcessed \/ RecordMultiStop \/ Push \/ RecordPushed

Next == Ingress \/ Take \/ WriteRow \/ Raise \/ Begin \/ Asking \/ Reminding \/ Reading \/ Finishing

Spec == Init /\ [][Next]_vars

-----------------------------------------------------------------------------
(* The carrier is asked once per reminder step, however many webhooks of   *)
(* the same delivery pass the gates before the first run: the run asks     *)
(* them again (WorkflowService.run, check_route_completed_duplicate).      *)
EachReminderOnce == \A i, j \in DOMAIN mailed : mailed[i] = mailed[j] => i = j

(* A POD that is processed or in Turvo is asked for no more, and a late    *)
(* reminder does not take it back out of that state                        *)
(* (check_pod_reminder_eligibility, complete_pod_found_in_tms).            *)
ReminderLeavesReceived ==
  [][ (run.item.event = "reminder_due" /\ row.sub \in Received)
        => mailed' = mailed /\ row'.sub \in PodDone ]_vars

(* uploaded_to_tms is told only of a shipment whose POD Turvo lists, if    *)
(* the push fails, times out or finds one there.                           *)
DoneMeansInTms == row.sub = "uploaded_to_tms" => inTms

(* Between two runs, a POD on file is in somebody's hands: under review,   *)
(* done, or told to have failed, unless a run was cut short by an          *)
(* exception (record_pod_processed_activity, record_workflow_failure).     *)
ReceivedIsSeen ==
  (run.at = "idle" /\ stored /\ ~raised) => row.status \in {"pending_review", "completed", "failed"}

(* Both, of a well-typed state: what the row says of the POD is so.        *)
StatusInv == TypeOK /\ DoneMeansInTms /\ ReceivedIsSeen
=============================================================================

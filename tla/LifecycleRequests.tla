------------------------- MODULE LifecycleRequests -------------------------
(***************************************************************************)
(* The command sequences the program sends to LifecycleTransitionService,  *)
(* workflow by workflow.  Each operator is one caller: given the view v of *)
(* the row that the caller read before (read_lifecycle_row_by_id, in its   *)
(* own transaction), the set of sequences it may send; a caller that       *)
(* returns early sends none.                                               *)
(***************************************************************************)
EXTENDS LifecycleTransition

Action == Command("action", Unset, Unset)
Info == Command("info", Unset, Unset)
Exception == Command("exception", Unset, Unset)
StatusChange(status, sub) == Command("status_change", status, sub)
SubChange(status, sub) == Command("sub_status_change", status, sub)

From(v, command) == [command EXCEPT !.fromStatus = v.status, !.fromSub = v.sub]

Fresh == [status |-> "none", sub |-> "none"]

\* {sequence} if the caller gets that far.
When(guard, sequences) == {s \in sequences : guard}

\* _build_reminder_transition_step and its copies: to pending_review, as a
\* sub_status_change if the row is there already.
ReviewStep(v, sub) ==
  Command(IF v.status = "pending_review" THEN "sub_status_change" ELSE "status_change",
          "pending_review", sub)

\* The same in the load tendering nodes, which leave the status out of the
\* sub_status_change.
TenderReviewStep(v, sub) ==
  IF v.status = "pending_review" THEN SubChange(Unset, sub)
  ELSE StatusChange("pending_review", sub)

\* To completed and uploaded_to_tms, from the view; nothing if it is there.
UploadedStep(v) ==
  IF v.status # "completed"
    THEN <<From(v, StatusChange("completed", "uploaded_to_tms"))>>
  ELSE IF v.sub # "uploaded_to_tms"
    THEN <<[SubChange(Unset, "uploaded_to_tms") EXCEPT !.fromSub = v.sub]>>
  ELSE <<>>

\* delayed_workflow_step_skip_reason, with the workflow's own skip list.
DelayedSkip(v, skips) ==
  v.status = "completed" \/ v.sub \in {"accepted", "rejected", "escalated"} \cup skips

\* The row after a sequence of commands.
AfterSequence(before, commands) ==
  LET tx[n \in 0..Len(commands)] ==
        IF n = 0 THEN Open(1, before, <<>>, commands) ELSE Apply(tx[n - 1])
  IN IF commands = <<>> THEN before ELSE Paused(tx[Len(commands)])

-----------------------------------------------------------------------------
(* Any workflow.                                                           *)

\* record_workflow_failure_node: a business failure names no pause_type.
FailureOf(category) ==
  <<[Exception EXCEPT !.pause = IF category = "business" THEN Unset ELSE "system_error"],
    StatusChange("pending_review", Unset)>>

Failure(v) == {FailureOf("business"), FailureOf("system")}

\* The portal: comment on a lifecycle under review, or resolve it.
Acknowledge(v) == {<<Action>>}
Resolve(v) == {<<Action, StatusChange("completed", "resolved_manually")>>}

\* cancel_by_shipment and supersede_by_shipment.
Cancellable(v, statuses, terminal) ==
  /\ ~(v.status = "completed" /\ v.sub = "cancelled")
  /\ v.sub \notin terminal
  /\ v.status \in statuses

Cancel(v, statuses, terminal) ==
  When(Cancellable(v, statuses, terminal),
       {<<Action, StatusChange("completed", "cancelled")>>})

Anywhere(v) == Failure(v) \cup Acknowledge(v) \cup Resolve(v)

-----------------------------------------------------------------------------
(* driver_assignment.                                                      *)

DriverSkips == {"uploaded_to_tms", "escalated"}

DriverStarted(v) ==
  When(v.status = "none",
       {<<From(Fresh, StatusChange("processing", "driver_assignment_started"))>>})

\* A reminder, or a follow-up that asks for the missing details.
DriverReminder(v) ==
  When(~DelayedSkip(v, DriverSkips),
       {<<Action, ReviewStep(v, sub)>> : sub \in {"reminder_1_sent", "reminder_2_sent"}}
         \cup {<<Action>>})

DriverEscalated(v) ==
  When(~DelayedSkip(v, DriverSkips), {<<Action, ReviewStep(v, "escalated")>>})

\* record_tms_driver_success: the sub-status moves, the status is the one read.
DriverAssigned(v) ==
  {<<Action>> \o IF v.sub = "uploaded_to_tms" THEN <<>>
                 ELSE <<SubChange(v.status, "uploaded_to_tms")>>}

DriverAlreadyAssigned(v) ==
  {<<Info>> \o (IF v.sub = "uploaded_to_tms" THEN <<>>
                ELSE <<SubChange(v.status, "uploaded_to_tms")>>)
            \o UploadedStep([v EXCEPT !.sub = "uploaded_to_tms"])}

DriverCompleted(v) == {UploadedStep(v)} \ {<<>>}

\* driver not found, ambiguous, refused by the TMS; the TMS timed out.
DriverUnresolved(v) == {<<Info>>, <<Action>>, <<Exception>>}

DriverCancelled(v) ==
  Cancel(v, {"processing", "pending_review"}, {"uploaded_to_tms"})
    \cup Cancel(v, {"processing", "pending_review", "completed"}, {})

DriverAssignment(v) ==
  UNION {DriverStarted(v), DriverReminder(v), DriverEscalated(v), DriverAssigned(v),
         DriverAlreadyAssigned(v), DriverCompleted(v), DriverUnresolved(v),
         DriverCancelled(v), Anywhere(v)}

-----------------------------------------------------------------------------
(* ratecon.                                                                *)

RateconReceived(v) ==
  {<<Action, From(Fresh, StatusChange("processing", "ratecon_started"))>>}

RateconUploaded(v) ==
  LET started == [status |-> "processing", sub |-> "ratecon_started"] IN
  {<<Action, From(started, StatusChange("completed", "document_uploaded"))>>,
   <<Exception, From(started, StatusChange("completed", "ratecon_started"))>>}

RateconSuperseded(v) ==
  Cancel(v, {"processing", "pending_review", "completed", "failed"}, {})

Ratecon(v) ==
  UNION {RateconReceived(v), RateconUploaded(v), RateconSuperseded(v),
         {<<Action>>}, Anywhere(v)}

-----------------------------------------------------------------------------
(* pod_lifecycle.                                                          *)

PodDone == {"document_processed", "uploaded_to_tms", "resolved_manually"}

PodStarted(v) ==
  When(v = Fresh, {<<From(Fresh, StatusChange("processing", "pod_started"))>>})

PodReminder(v) ==
  When(~DelayedSkip(v, PodDone),
       {<<Action, ReviewStep(v, sub)>> : sub \in {"reminder_1_sent", "reminder_3_sent"}})

PodEscalated(v) ==
  When(~DelayedSkip(v, PodDone),
       {<<Action, [SubChange(Unset, "escalated") EXCEPT !.fromSub = "reminder_3_sent"]>>})

PodFailed(v) ==
  {<<Action, [StatusChange("failed", Unset) EXCEPT
                !.fromStatus = IF v.status = "none" THEN "processing" ELSE v.status]>>}

\* An upload by email is skipped once done, one by hand never is.
PodUploaded(v) ==
  {<<[Command(IF v.status = "processing" THEN "sub_status_change" ELSE "status_change",
              "processing", "document_uploaded") EXCEPT !.fromSub = v.sub],
     Action>>,
   <<Info>>} \cup PodFailed(v)

PodProcessed(v) ==
  {<<ReviewStep(v, "document_processed")>>, <<ReviewStep(v, "document_uploaded")>>}
    \cup PodFailed(v)

\* By hand, a stale pending_review is first put back to processing.
PodTmsUpload(v) ==
  LET normalize == <<[StatusChange("processing", v.sub) EXCEPT
                        !.fromStatus = "pending_review", !.fromSub = v.sub]>>
      reviewed == v.status = "pending_review"
      resumed == IF reviewed THEN [v EXCEPT !.status = "processing"] ELSE v
      logged == {<<Action>>, <<Info>>}
  IN {step \o UploadedStep(v) : step \in logged}
       \cup {(IF reviewed THEN normalize ELSE <<>>) \o step \o UploadedStep(resumed)
               : step \in logged}
       \cup {<<Action, [StatusChange("failed", Unset) EXCEPT !.fromStatus = v.status]>>}

PodFoundInTms(v) ==
  When(v # [status |-> "completed", sub |-> "uploaded_to_tms"], {<<Info>> \o UploadedStep(v)})

PodLifecycle(v) ==
  UNION {PodStarted(v), PodReminder(v), PodEscalated(v), PodUploaded(v), PodProcessed(v),
         PodTmsUpload(v), PodFoundInTms(v), Anywhere(v)}

-----------------------------------------------------------------------------
(* load_tendering.                                                         *)

TenderCreated(v) == {<<Action, From(Fresh, StatusChange("processing", "tender_created"))>>}

\* To the tenant, or not sent; then to the carrier.
TenderSent(v) ==
  {<<Action, SubChange(Unset, "tender_sent_to_tenant")>>,
   <<StatusChange("failed", Unset)>>,
   <<SubChange(Unset, "tender_sent_to_carrier")>>}

TenderAcknowledged(v) ==
  {<<StatusChange("completed", sub)>> : sub \in {"accepted", "rejected", "resolved_manually"}}

TenderReminder(v) ==
  IF DelayedSkip(v, {}) THEN {<<Action>>}
  ELSE {<<Action, TenderReviewStep(v, sub)>> : sub \in {"reminder_1_sent", "reminder_2_sent"}}

TenderEscalated(v) ==
  When(~DelayedSkip(v, {}), {<<Action, TenderReviewStep(v, "escalated")>>})

LoadTendering(v) ==
  UNION {TenderCreated(v), TenderSent(v), TenderAcknowledged(v), TenderReminder(v),
         TenderEscalated(v), Anywhere(v)}

-----------------------------------------------------------------------------
(* appointment_scheduling.                                                 *)

AppointmentStarted(v) ==
  When(v.status = "none",
       {<<From(Fresh, StatusChange("processing", "appointment_scheduling_started"))>>})

AppointmentDrafted(v) ==
  {<<Action>>, <<From(v, StatusChange("pending_review", "appointment_draft_created"))>>}

\* record_failed sends two, one after the other, and reads in between.
AppointmentFailed(v) ==
  {<<Exception>>, <<From(v, StatusChange("pending_review", "none"))>>}

AppointmentAwaiting(v) ==
  When(v.sub # "awaiting_customer_reply", {<<ReviewStep(v, "awaiting_customer_reply")>>})

AppointmentReplied(v) ==
  When(~(v.status = "completed" /\ v.sub \in {"none", "appointment_scheduled"}),
       {<<From(v, StatusChange("completed", "appointment_scheduled"))>>})
  \cup When(v # [status |-> "completed", sub |-> "rejected"],
            {<<From(v, StatusChange("completed", "rejected"))>>})

AppointmentScheduling(v) ==
  UNION {AppointmentStarted(v), AppointmentDrafted(v), AppointmentFailed(v),
         AppointmentAwaiting(v), AppointmentReplied(v), Anywhere(v)}
=============================================================================

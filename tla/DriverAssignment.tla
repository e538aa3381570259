-------------------------- MODULE DriverAssignment --------------------------
(***************************************************************************)
(* The driver assignment of one shipment: its workflow_lifecycles row, the *)
(* run queue of that row, the graph run at the head of the queue, the      *)
(* delayed reminder tasks, and the drivers the TMS shows on the shipment.  *)
(* Against the run work the ratecon tail that starts a cycle, carrier      *)
(* replies, reminder tasks that fire, cancellation, the portal, and a      *)
(* dispatcher in the TMS.                                                  *)
(*                                                                         *)
(* Runs of one lifecycle do not overlap and come in arrival order, which   *)
(* is what RunQueue guarantees.  The ratecon tail finds or inserts the row *)
(* in one step: two tails racing to insert are not modelled here.  A       *)
(* command sequence is applied in one step, under the row lock, but what   *)
(* its sender read may be older.  Sequences that log and write no column   *)
(* are left out, and so are tenants in shadow mode, where the TMS is never *)
(* written to.                                                             *)
(***************************************************************************)
EXTENDS LifecycleRequests, DriverContacts

CONSTANTS Blocks,       \* the driver's name, phone and e-mail that a reply may give
          Slots,        \* reminder steps of the tenant's schedule
          Plans,        \* what plan_before_pickup_reminders may leave to send
          Failing,      \* the operations that may fail
          Outsiders,    \* who may write the row besides the runs
          MaxRatecons, MaxReplies, MaxOutside, MaxDispatch

\* The schedule entry of the escalation.
Escalation == 0

\* A phone has one country group at most.
ASSUME BlocksAssumption ==
  \A b \in Blocks :
    /\ b \in [name : Names, phone : Phones, email : BOOLEAN]
    /\ Digits(Digits(b.phone)) = Digits(b.phone)
ASSUME SlotsAssumption == Slots \subseteq Nat \ {Escalation}
ASSUME PlansAssumption == Plans \subseteq SUBSET (Slots \cup {Escalation})
ASSUME FailingAssumption ==
  Failing \subseteq {"tms", "hydrate", "create", "put", "mail", "teams", "enqueue", "revoke", "raise"}
ASSUME OutsidersAssumption == Outsiders \subseteq {"tendered", "superseded", "portal"}
ASSUME BoundsAssumption == {MaxRatecons, MaxReplies, MaxOutside, MaxDispatch} \subseteq Nat

VARIABLES row,       \* the lifecycle as committed, Absent before it is inserted
          passed,    \* ratecon tails past the gates that have not enqueued yet
          queue,     \* work items waiting behind the run
          run,       \* the graph run, Idle if there is none
          tasks,     \* reminder tasks waiting in Celery for their time
          batch,     \* how many times reminders have been scheduled
          sent,      \* metadata: schedule steps recorded as sent
          runs,      \* workflow_runs rows with event ratecon_completed
          tms,       \* the shipment in the TMS
          outside,   \* the sequence an outsider has decided to send, or <<>>
          used       \* how much of each bound is used up

vars == <<row, passed, queue, run, tasks, batch, sent, runs, tms, contacts, outside,
          used>>

Absent == [status |-> Unset, sub |-> Unset, pause |-> Unset]

Inserted == [status |-> "none", sub |-> "none", pause |-> Unset]

Ladder == <<"reminder_1_sent", "reminder_2_sent", "reminder_3_sent", "reminder_4_sent">>

MaxRung == Len(Ladder)

Subs == {"none", "driver_assignment_started", "escalated", "uploaded_to_tms",
         "cancelled", "resolved_manually"} \cup {Ladder[n] : n \in 1..MaxRung}

Kinds == {"ratecon", "reminder", "escalation", "reply"}
Items == [kind : Kinds, slot : Slots \cup {Escalation}]
Tasks == [slot : Slots \cup {Escalation}, batch : Nat]
Shipments == [drivers : SUBSET Nat, picked : BOOLEAN, eligible : BOOLEAN]

\* Where a run is: before the node it names, or before the write it has
\* decided on, after which it goes on at next.
Nodes == {"idle", "prepare", "start", "schedule", "started", "fetch", "check", "send",
          "record", "post", "escalated", "complete", "classify", "resolve", "create", "put",
          "follow_up", "success", "confirm", "finish", "append", "write", "end"}

\* The stub that stands for a shipment that could not be fetched.
NoShipment == [drivers |-> {}, picked |-> FALSE, eligible |-> FALSE]

NoBlock == [name |-> {}, phone |-> <<>>, email |-> FALSE]

Runs == [item : Items, at : Nodes, next : Nodes, todo : Seq(Commands(Subs)),
         seen : Shipments, driver : Nat, block : Blocks \cup {NoBlock},
         rung : 0..MaxRung, partial : BOOLEAN]

Begun(item, at) ==
  [item |-> item, at |-> at, next |-> "idle", todo |-> <<>>,
   seen |-> NoShipment, driver |-> 0, block |-> NoBlock, rung |-> 0, partial |-> FALSE]

Item(kind, slot) == [kind |-> kind, slot |-> slot]

Idle == Begun(Item("ratecon", Escalation), "idle")

TypeOK ==
  /\ row \in [status : Statuses, sub : Subs, pause : PauseTypes \cup {Unset}] \cup {Absent}
  /\ passed \in Nat
  /\ queue \in Seq(Items)
  /\ run \in Runs
  /\ tasks \in SUBSET Tasks
  /\ batch \in Nat
  /\ sent \in SUBSET Slots
  /\ runs \in Nat
  /\ contacts \in Seq(Contacts)
  /\ tms \in Shipments /\ tms.drivers \subseteq DOMAIN contacts /\ run.driver \in 0..Len(contacts)
  /\ outside \in Seq(Commands(Subs))
  /\ used \in [ratecons : Nat, replies : Nat, outside : Nat, dispatch : Nat]

Init ==
  /\ row = Absent
  /\ passed = 0
  /\ queue = <<>>
  /\ run = Idle
  /\ tasks = {}
  /\ batch = 0
  /\ sent = {}
  /\ runs = 0
  /\ tms = [NoShipment EXCEPT !.eligible = TRUE]
  /\ contacts = Directory
  /\ outside = <<>>
  /\ used = [ratecons |-> 0, replies |-> 0, outside |-> 0, dispatch |-> 0]

-----------------------------------------------------------------------------
(* What the code asks of a row.                                            *)

\* sequential_reminder_step_from_sub_status.
Rung(sub) == IF \E n \in 1..MaxRung : Ladder[n] = sub
               THEN CHOOSE n \in 1..MaxRung : Ladder[n] = sub
               ELSE 0

\* A faulty variant of NextRung: the step of the schedule.
SlotAsRung(sub) == run.item.slot

NextRung(sub) == IF Rung(sub) < MaxRung THEN Rung(sub) + 1 ELSE MaxRung

Cancelled(v) == v.status = "completed" /\ v.sub = "cancelled"

Terminal == {"uploaded_to_tms", "cancelled"}

\* find_active_driver_assignment_lifecycle_id.
Active(v) == v.status \in {"processing", "pending_review"} /\ v.sub \notin Terminal

\* Faulty variants, used as mutants.
ActiveBlocksOnly(others) == ~Active(row) /\ row.sub # "uploaded_to_tms"
BlocksReminderUnlessDone(v) ==
  \/ Cancelled(v)
  \/ v.status = "pending_review" /\ Rung(v.sub) \notin 1..(MaxRung - 1)
  \/ v.status \notin {"pending_review", "processing"}

\* _evaluate_start_gates, others being the runs of earlier ratecons.
MayStart(others) ==
  /\ ~Active(row)
  /\ row.sub # "uploaded_to_tms"
  /\ others > 0 => Cancelled(row)

\* blocks_driver_assignment_reminder.
BlocksReminder(v) ==
  \/ Cancelled(v)
  \/ v.sub = "uploaded_to_tms"
  \/ v.status = "pending_review" /\ Rung(v.sub) \notin 1..(MaxRung - 1)
  \/ v.status \notin {"pending_review", "processing"}

\* blocks_driver_assignment_escalation, then the skip list.
BlocksEscalation(v) ==
  \/ v.sub \in {"uploaded_to_tms", "escalated"}
  \/ v.status = "completed"
  \/ DelayedSkip(v, DriverSkips)

\* driver_assigned_from_payload: a driver, or the pickup has happened.
Assigned(shipment) == shipment.drivers # {} \/ shipment.picked

\* driver_request_eligible_from_payload: a truckload that is covered, by a carrier
\* that is asked for drivers.
Eligible(shipment) == shipment.eligible

-----------------------------------------------------------------------------
(* Requests for runs.                                                      *)

Bounded(name, max) == /\ used[name] < max
                      /\ used' = [used EXCEPT ![name] = @ + 1]

\* The ratecon tail, up to the gates.  The shipment that it asks about, and that the
\* run asks about again, is the one read when the mail came: eligible, if the tail
\* passes, whatever the TMS says by then.
RateconPasses ==
  /\ Bounded("ratecons", MaxRatecons)
  /\ MayStart(runs)
  /\ passed' = passed + 1
  /\ UNCHANGED <<row, queue, run, tasks, batch, sent, runs, tms, contacts, outside>>

\* resolve_then_enqueue: the shipment's lifecycle, whatever its state, or a
\* new one.
RateconEnqueues ==
  /\ passed > 0
  /\ passed' = passed - 1
  /\ row' = IF row = Absent THEN Inserted ELSE row
  /\ queue' = Append(queue, Item("ratecon", Escalation))
  /\ UNCHANGED <<run, tasks, batch, sent, runs, tms, contacts, outside, used>>

\* try_driver_details_email_received: the thread is linked by a run.
ReplyArrives ==
  /\ Bounded("replies", MaxReplies)
  /\ runs > 0
  /\ row.sub \notin Terminal
  /\ queue' = Append(queue, Item("reply", Escalation))
  /\ UNCHANGED <<row, passed, run, tasks, batch, sent, runs, tms, contacts, outside>>

\* trigger_workflow_reminder; workers are late, so in any order.
Fire(t) ==
  /\ t \in tasks
  /\ tasks' = tasks \ {t}
  /\ queue' = Append(queue, Item(IF t.slot = Escalation THEN "escalation" ELSE "reminder", t.slot))
  /\ UNCHANGED <<row, passed, run, batch, sent, runs, tms, contacts, outside, used>>

-----------------------------------------------------------------------------
(* The graph run.                                                          *)

Goto(at) == run' = [run EXCEPT !.at = at]

End == run' = Idle

Write(commands, next) ==
  run' = [run EXCEPT !.at = "write", !.todo = commands, !.next = next]

Quiet == UNCHANGED <<passed, contacts, outside, used>>

\* The next item is taken when the run before it has ended.
Take ==
  /\ run.at = "idle" /\ queue # <<>>
  /\ queue' = Tail(queue)
  /\ run' = Begun(Head(queue), CASE Head(queue).kind = "ratecon" -> "prepare"
                                 [] Head(queue).kind = "reply" -> "classify"
                                 [] OTHER -> "fetch")
  /\ Quiet /\ UNCHANGED <<row, tasks, batch, sent, runs, tms>>

\* What the node does when its write has been committed: it ends, or goes on.
AfterWrite == IF run.next = "idle" THEN End ELSE run' = [run EXCEPT !.at = run.next, !.todo = <<>>]

\* record_sequence of what the node decided from the row it had read.
WriteRow ==
  /\ run.at = "write"
  /\ row' = AfterSequence(row, run.todo)
  /\ AfterWrite
  /\ Quiet /\ UNCHANGED <<queue, tasks, batch, sent, runs, tms>>

\* A node or a write raises and nothing catches it: the run is over.
Raise ==
  /\ "raise" \in Failing
  /\ run.at # "idle"
  /\ End
  /\ Quiet /\ UNCHANGED <<row, queue, tasks, batch, sent, runs, tms>>

\* prepare_ratecon_completed_payload; the run is recorded once it passes.
Prepare ==
  /\ run.at = "prepare"
  /\ IF MayStart(runs) THEN Goto("start") /\ runs' = runs + 1 ELSE End /\ UNCHANGED runs
  /\ Quiet /\ UNCHANGED <<row, queue, tasks, batch, sent, tms>>

\* check_start_eligibility leaves its own run out.
CheckStart ==
  /\ run.at = "start"
  /\ IF MayStart(runs - 1) THEN Goto("schedule") ELSE End
  /\ Quiet /\ UNCHANGED <<row, queue, tasks, batch, sent, runs, tms>>

\* WorkflowReminderService.schedule: all steps of a plan, or, when a task
\* cannot be enqueued, those that could and were then not revoked.
Schedule ==
  /\ run.at = "schedule"
  /\ \/ /\ row.sub \in DriverSkips
        /\ Goto("started")
        /\ UNCHANGED <<tasks, batch>>
     \/ /\ row.sub \notin DriverSkips
        /\ batch' = batch + 1
        /\ \E plan \in Plans :
             \/ /\ tasks' = tasks \cup [slot : plan, batch : {batch'}]
                /\ Goto("started")
             \/ /\ "enqueue" \in Failing /\ plan # {}
                /\ \E left \in SUBSET plan :
                     /\ left # {} => "revoke" \in Failing
                     /\ tasks' = tasks \cup [slot : left, batch : {batch'}]
                /\ End
  /\ Quiet /\ UNCHANGED <<row, queue, sent, runs, tms>>

\* record_started.
RecordStarted ==
  /\ run.at = "started"
  /\ IF DriverStarted(row) = {} THEN End
     ELSE \E commands \in DriverStarted(row) : Write(commands, "idle")
  /\ Quiet /\ UNCHANGED <<row, queue, tasks, batch, sent, runs, tms>>

\* get_shipment of a delayed event.  When it fails there is a stub to check, and
\* a timeout is put on record before that.
Fetch ==
  /\ run.at = "fetch"
  /\ \/ run' = [run EXCEPT !.at = "check", !.seen = tms]
     \/ "tms" \in Failing /\ (Goto("check") \/ Write(<<Exception>>, "check"))
  /\ Quiet /\ UNCHANGED <<row, queue, tasks, batch, sent, runs, tms>>

\* check_reminder_eligibility: the shipment decides before the row does; one that
\* is no longer eligible ends the run without a word.
CheckReminder ==
  /\ run.at = "check" /\ run.item.kind = "reminder"
  /\ IF Assigned(run.seen) THEN Goto("complete")
     ELSE IF \/ ~Eligible(run.seen) \/ BlocksReminder(row)
             \/ Rung(row.sub) = MaxRung \/ run.item.slot \in sent THEN End
     ELSE Goto("send")
  /\ Quiet /\ UNCHANGED <<row, queue, tasks, batch, sent, runs, tms>>

\* send_reminder_email: the rung comes from the row, not from the slot.  With a mail
\* that failed there is none, and nothing to record.
SendReminder ==
  /\ run.at = "send"
  /\ \/ run' = [run EXCEPT !.at = "record", !.rung = NextRung(row.sub)]
     \/ "mail" \in Failing /\ run' = [run EXCEPT !.at = "record", !.rung = 0]
  /\ Quiet /\ UNCHANGED <<row, queue, tasks, batch, sent, runs, tms>>

\* send_partial_details_follow_up_email: no gate but the cap of the rung.
SendFollowUp ==
  /\ run.at = "follow_up"
  /\ \/ run' = [run EXCEPT !.at = "record", !.partial = TRUE,
                           !.rung = IF Rung(row.sub) = MaxRung THEN 0 ELSE NextRung(row.sub)]
     \/ "mail" \in Failing /\ End
  /\ Quiet /\ UNCHANGED <<row, queue, tasks, batch, sent, runs, tms>>

\* record_reminder_sent; rung 0 is skip_sub_status_bump, or a mail that failed.
RecordReminder ==
  /\ run.at = "record"
  /\ IF DelayedSkip(row, DriverSkips) \/ run.rung = 0 THEN End
     ELSE Write(<<Action, ReviewStep(row, Ladder[run.rung])>>,
                IF run.partial THEN "idle" ELSE "append")
  /\ Quiet /\ UNCHANGED <<row, queue, tasks, batch, sent, runs, tms>>

\* append_driver_assignment_sent_schedule_step.
AppendSent ==
  /\ run.at = "append"
  /\ sent' = sent \cup {run.item.slot}
  /\ End
  /\ Quiet /\ UNCHANGED <<row, queue, tasks, batch, runs, tms>>

\* check_escalation_eligibility.
CheckEscalation ==
  /\ run.at = "check" /\ run.item.kind = "escalation"
  /\ IF Assigned(run.seen) THEN Goto("complete")
     ELSE IF ~Eligible(run.seen) \/ BlocksEscalation(row) THEN End
     ELSE Goto("post")
  /\ Quiet /\ UNCHANGED <<row, queue, tasks, batch, sent, runs, tms>>

\* escalate_from_payload, which asks once more before it posts to Teams: of the
\* shipment the answer is the same.
Post ==
  /\ run.at = "post"
  /\ \/ ~BlocksEscalation(row) /\ Goto("escalated")
     \/ BlocksEscalation(row) /\ End
     \/ ~BlocksEscalation(row) /\ "teams" \in Failing /\ Goto("end")
  /\ Quiet /\ UNCHANGED <<row, queue, tasks, batch, sent, runs, tms>>

\* The graph's last node, after a post that failed.
EndGraph ==
  /\ run.at = "end"
  /\ End
  /\ Quiet /\ UNCHANGED <<row, queue, tasks, batch, sent, runs, tms>>

\* record_escalation_sent.
RecordEscalation ==
  /\ run.at = "escalated"
  /\ IF DriverEscalated(row) = {} THEN End
     ELSE \E commands \in DriverEscalated(row) : Write(commands, "idle")
  /\ Quiet /\ UNCHANGED <<row, queue, tasks, batch, sent, runs, tms>>

-----------------------------------------------------------------------------
(* A carrier's reply.                                                      *)

\* driver_details_router and tms_searchable_router.
Routed(block) ==
  IF Searchable(block) THEN "resolve" ELSE IF block.email THEN "follow_up" ELSE "idle"

\* classify_driver_details: nothing of use, or something of a driver.  No gate
\* looks at the row.
Classify ==
  /\ run.at = "classify"
  /\ \/ End
     \/ \E block \in Blocks :
          run' = [run EXCEPT !.at = Routed(block),
                             !.block = IF Searchable(block) THEN block ELSE NoBlock]
  /\ Quiet /\ UNCHANGED <<row, queue, tasks, batch, sent, runs, tms>>

\* record_tms_driver_error: a note, or an exception if the TMS timed out.
Unresolved == End \/ Write(<<Exception>>, "idle")

\* From here on nothing is asked of what the reply named.
Forget(at) ==
  run' = [run EXCEPT !.at = at, !.block = NoBlock, !.driver = 0, !.seen = NoShipment]

\* What becomes of the contact: asked for again, created, already there, or
\* put on the shipment.
Outcome(result) ==
  \/ result.outcome = "follow_up" /\ Forget("follow_up")
  \/ result.outcome = "create" /\ run' = [run EXCEPT !.at = "create", !.seen = tms]
  \/ result.outcome = "found" /\ result.id \in tms.drivers /\ Forget("complete")
  \/ /\ result.outcome = "found" /\ result.id \notin tms.drivers
     /\ run' = [run EXCEPT !.at = "put", !.seen = tms, !.driver = result.id]

\* resolve_and_assign up to the contact; a shipment may be without a carrier.
ResolveDriver ==
  /\ run.at = "resolve"
  /\ \/ \E lost \in SUBSET (IF "hydrate" \in Failing THEN DOMAIN contacts ELSE {}),
           reached \in {TRUE} \cup (IF "hydrate" \in Failing THEN {FALSE} ELSE {}) :
          Outcome(ResolveContact(run.block, reached, tms.drivers, lost))
     \/ Forget("follow_up")
     \/ "tms" \in Failing /\ Unresolved
  /\ Quiet /\ UNCHANGED <<row, queue, tasks, batch, sent, runs, tms>>

\* The POST; one that times out may have been carried out.
CreateContact ==
  /\ run.at = "create"
  /\ \/ /\ contacts' = Append(contacts, Created(run.block))
        /\ run' = [run EXCEPT !.at = "put", !.driver = Len(contacts')]
     \/ /\ "create" \in Failing
        /\ contacts' \in {contacts, Append(contacts, Created(run.block))}
        /\ Unresolved
  /\ UNCHANGED <<row, passed, queue, tasks, batch, sent, runs, tms, outside, used>>

\* replace_driver_on_shipment deletes the assignments that were read;
\* assign_driver_to_shipment reads none.
DriversAfterPut(seen) == (tms.drivers \ seen.drivers) \cup {run.driver}

\* A faulty variant of Put: a refused request counts as done.
PutAnyhow ==
  /\ run.at = "put"
  /\ \/ tms' = [tms EXCEPT !.drivers = DriversAfterPut(run.seen)] /\ Forget("success")
     \/ "put" \in Failing /\ UNCHANGED tms /\ Forget("success")
  /\ Quiet /\ UNCHANGED <<row, queue, tasks, batch, sent, runs>>

\* The PUT; one that times out may have been carried out.
Put ==
  /\ run.at = "put"
  /\ \/ tms' = [tms EXCEPT !.drivers = DriversAfterPut(run.seen)] /\ Forget("success")
     \/ /\ "put" \in Failing
        /\ tms' \in {tms, [tms EXCEPT !.drivers = DriversAfterPut(run.seen)]}
        /\ Unresolved
  /\ Quiet /\ UNCHANGED <<row, queue, tasks, batch, sent, runs>>

\* cancel_all: revocation is best effort.
CancelTasks == \/ tasks' = {}
               \/ "revoke" \in Failing /\ tasks' \in SUBSET tasks

\* record_tms_driver_success after a PUT.
RecordSuccess ==
  /\ run.at = "success"
  /\ CancelTasks
  /\ \E commands \in DriverAssigned(row) : Write(commands, "confirm")
  /\ Quiet /\ UNCHANGED <<row, queue, batch, sent, runs, tms>>

\* complete_when_driver_already_in_tms, and record_tms_driver_success when
\* the driver was there: no mail confirms it.
CompleteFromTms ==
  /\ run.at = "complete"
  /\ CancelTasks
  /\ \E commands \in DriverAlreadyAssigned(row) : Write(commands, "idle")
  /\ Quiet /\ UNCHANGED <<row, queue, batch, sent, runs, tms>>

\* send_driver_details_confirmation, the one node under safe_node.
Confirm ==
  /\ run.at = "confirm"
  /\ \/ Goto("finish")
     \/ "mail" \in Failing /\ Write(FailureOf("system"), "idle")
  /\ Quiet /\ UNCHANGED <<row, queue, tasks, batch, sent, runs, tms>>

\* A faulty variant of Finish: the sub-status alone decides.
FinishUnlessUploaded ==
  /\ run.at = "finish"
  /\ IF row.sub = "uploaded_to_tms" THEN End
     ELSE \E commands \in DriverCompleted(row) : Write(commands, "idle")
  /\ Quiet /\ UNCHANGED <<row, queue, tasks, batch, sent, runs, tms>>

\* record_driver_assignment_completed.
Finish ==
  /\ run.at = "finish"
  /\ IF DriverCompleted(row) = {} THEN End
     ELSE \E commands \in DriverCompleted(row) : Write(commands, "idle")
  /\ Quiet /\ UNCHANGED <<row, queue, tasks, batch, sent, runs, tms>>

-----------------------------------------------------------------------------
(* Everybody else.                                                         *)

\* What an outsider sends, given the row it has read.  The portal resolves
\* without reading.
Interference(kind) ==
  CASE kind = "tendered" -> Cancel(row, {"processing", "pending_review"}, {"uploaded_to_tms"})
    [] kind = "superseded" -> Cancel(row, {"processing", "pending_review", "completed"}, {})
    [] kind = "portal" -> Resolve(row)

OutsideDecides(kind) ==
  /\ outside = <<>>
  /\ Bounded("outside", MaxOutside)
  /\ row # Absent
  /\ outside' \in Interference(kind)
  /\ UNCHANGED <<row, passed, queue, run, tasks, batch, sent, runs, tms, contacts>>

OutsideWrites ==
  /\ outside # <<>>
  /\ row' = AfterSequence(row, outside)
  /\ outside' = <<>>
  /\ UNCHANGED <<passed, queue, run, tasks, batch, sent, runs, tms, contacts, used>>

\* In the TMS: another driver or none, the pickup is executed, or the mode, the
\* status or the carrier changes.
Dispatch ==
  /\ Bounded("dispatch", MaxDispatch)
  /\ \/ \E ds \in {{}} \cup {{i} : i \in CarrierDrivers} : tms' = [tms EXCEPT !.drivers = ds]
     \/ tms' = [tms EXCEPT !.picked = TRUE]
     \/ \E e \in BOOLEAN : tms' = [tms EXCEPT !.eligible = e]
  /\ UNCHANGED <<row, passed, queue, run, tasks, batch, sent, runs, contacts, outside>>

Node ==
  \/ Prepare \/ CheckStart \/ Schedule \/ RecordStarted
  \/ Fetch \/ CheckReminder \/ SendReminder \/ RecordReminder \/ AppendSent
  \/ CheckEscalation \/ Post \/ EndGraph \/ RecordEscalation
  \/ Classify \/ ResolveDriver \/ CreateContact \/ SendFollowUp \/ Put \/ RecordSuccess \/ CompleteFromTms
  \/ Confirm \/ Finish \/ WriteRow

Next ==
  \/ RateconPasses \/ RateconEnqueues \/ ReplyArrives
  \/ \E t \in tasks : Fire(t)
  \/ Take \/ Node \/ Raise
  \/ \E kind \in Outsiders : OutsideDecides(kind)
  \/ OutsideWrites \/ Dispatch

Spec == Init /\ [][Next]_vars

\* A step of the run, without the row that a write leaves: cheap to find enabled.
GoesOn == \/ run.at # "write" /\ Node
          \/ run.at = "write" /\ AfterWrite

(* Celery delivers: a tail past the gates enqueues, a reminder task fires   *)
(* when its time has come, the queue runs its items and a run goes on.      *)
Fairness ==
  /\ WF_vars(RateconEnqueues)
  /\ \A t \in [slot : Slots \cup {Escalation}, batch : 1..MaxRatecons] : WF_vars(Fire(t))
  /\ WF_vars(Take)
  /\ WF_run(GoesOn)

FairSpec == Spec /\ Fairness

-----------------------------------------------------------------------------
IsRung(sub) == Rung(sub) > 0

(* Reminders are scheduled once for a cycle that is still open: two ratecons *)
(* that both passed the gates, or a start whose record was lost, never put a *)
(* second set of reminders behind the first.                                 *)
ScheduledOnce == [][batch' # batch => batch = 0 \/ row.status = "completed"]_batch

(* The ladder of an open cycle is climbed one rung at a time, whatever the   *)
(* order in which the steps of the schedule fire and follow-ups are sent,    *)
(* and it is never climbed down; past the fourth rung it stays where it is.  *)
OneRungAtATime ==
  [][ /\ row.status # "completed"
      /\ IsRung(row'.sub) /\ row'.sub # row.sub
      => Rung(row'.sub) = Rung(row.sub) + 1 ]_row

(* No scheduled reminder is mailed once the driver is on record or the cycle *)
(* was escalated, though its task may have survived revocation and the TMS   *)
(* may show no driver any more; and after an escalation the row never        *)
(* returns to the ladder: a follow-up to a later reply is not counted as a   *)
(* reminder.                                                                 *)
LateRemindersLost ==
  [][ /\ run.at = "send" /\ run'.at = "record" => row.sub \notin DriverSkips
      /\ row.sub = "escalated" => ~IsRung(row'.sub) ]_<<row, run>>

\* Nobody else has edited the shipment so far.
Undisturbed == used.dispatch = 0

(* The row says uploaded_to_tms only of a shipment that shows a driver, or   *)
(* has been picked up.                                                       *)
UploadedMeansDriver == row.sub = "uploaded_to_tms" => Assigned(tms)

(* Several replies that name several drivers leave one of them in the TMS:   *)
(* each run replaces what it has read.                                       *)
OneDriverInTms == Cardinality(tms.drivers) <= 1

(* Both hold until somebody else edits the shipment (persist_driver_to_turvo).*)
TmsInv == TypeOK /\ (Undisturbed => UploadedMeansDriver /\ OneDriverInTms)

(* The contact put on the shipment is a driver of its carrier, with the      *)
(* phone the reply gave or else the name; of several contacts with that      *)
(* phone it is one with the name the reply gave.                             *)
NamedDriver ==
  run.at = "put" =>
    LET i == run.driver
        sharing == {j \in CarrierDrivers : HasPhone(j, run.block.phone)}
        named == NameTokensMatch(run.block.name, contacts[i].name)
    IN /\ i \in CarrierDrivers
       /\ IF run.block.phone = <<>> THEN named ELSE i \in sharing
       /\ (Cardinality(sharing) > 1 /\ run.block.name # {}) => named

\* The last of the cycle's delayed tasks comes to nothing: the shipment is not
\* eligible or was not fetched, or the mail or the post fails.
LastGivenUp ==
  /\ tasks = {} /\ \A i \in DOMAIN queue : queue[i].kind \notin {"reminder", "escalation"}
  /\ \/ run.at = "check" /\ ~Assigned(run.seen) /\ ~Eligible(run.seen)
     \/ run.at = "record" /\ run.item.kind = "reminder" /\ run.rung = 0
     \/ run.at = "end"

\* The schedule had nothing left to send.
NothingPlanned == run.at = "started" /\ tasks = {}

(* A cycle that has started does not stay in processing: the carrier is     *)
(* chased, the cycle escalated, completed or cancelled, unless nothing was  *)
(* left to schedule or its very last task came to nothing.  A task that     *)
(* fails before the last, a reply that assigns nobody, a revocation that    *)
(* missed and a change of the shipment never leave it there.                *)
ProcessingEnds == <>[](row.status = "processing") => <>(NothingPlanned \/ LastGivenUp)
=============================================================================

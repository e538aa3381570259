----------------------- MODULE AppointmentScheduling -----------------------
(***************************************************************************)
(* The delivery appointment of one Turvo shipment: the pickup updates that *)
(* start it, the draft a dispatcher lets out of the portal, the customer's *)
(* replies, and the runs of the lifecycle's graph.  The webhook, the       *)
(* portal and the mail ingress work beside the runs, which RunQueue keeps  *)
(* apart and in arrival order.                                             *)
(*                                                                         *)
(* A draft is known by its number, the time a reply agrees on by the place *)
(* of the reply.  Left out: the text of mails, sequences that log and      *)
(* write no column, the second lifecycle that find-then-insert can make,   *)
(* and edits of the draft in the portal.                                   *)
(***************************************************************************)
EXTENDS LifecycleRequests, FiniteSets, SequencesExt

CONSTANTS AscendSkips,  \* what skip_ascend_writes may be for the tenant
          Failing,      \* the operations that may fail
          MaxHooks, MaxReplies, MaxOutside

ASSUME AscendSkipsAssumption == AscendSkips \subseteq BOOLEAN
ASSUME FailingAssumption ==
  Failing \subseteq {"create", "publish", "intake", "facts", "mail", "record", "ascend",
                     "turvo", "timeout", "confirm", "tender", "log", "raise"}
ASSUME BoundsAssumption == {MaxHooks, MaxReplies, MaxOutside} \subseteq Nat

VARIABLES skipAscend, \* skip_ascend_writes
          row,        \* the lifecycle as committed
          rowId,      \* its id: from the shipment number, or drawn; "none" before
          shipment,   \* whether the shipments row is there
          meta,       \* metadata: email_draft, weekend_shifted, email_sent
          hooks,      \* pickup updates received
          claims,     \* claims of the draft that are not published yet
          replies,    \* how far the ingress is with each mail of the customer
          queue,      \* work items waiting behind the run
          run,        \* the graph run, Idle if there is none
          tms,        \* delivery times in Ascend and Turvo, the pickup, the tender status
          mailed,     \* the drafts sent, in order
          recorded,   \* an outbound communication names the lifecycle
          confirmed,  \* the times confirmed to the customer, in order
          outside     \* writes by the portal

vars == <<skipAscend, row, rowId, shipment, meta, hooks, claims, replies, queue, run, tms, mailed,
          recorded, confirmed, outside>>

Inserted == [status |-> "none", sub |-> "none", pause |-> Unset]

Subs == {"none", "appointment_scheduling_started", "appointment_draft_created",
         "awaiting_customer_reply", "appointment_scheduled", "rejected", "resolved_manually"}

Events == {"pickup_changed", "draft_send", "customer_reply"}

\* A work item, with what its webhook was about or the mail it answers.
Items == [event : Events, id : {"stub", "own"}, moved : BOOLEAN, reply : 0..MaxReplies]

Item(event, id, moved, reply) == [event |-> event, id |-> id, moved |-> moved, reply |-> reply]

\* No time, and the placeholder of the draft.
NoTime == 0
Placeholder == MaxReplies + 1
Times == NoTime..Placeholder

Nodes == {"idle", "prepare", "read", "start", "intake", "decide", "persist", "facts", "review",
          "hydrate", "weekend", "mail", "placeholder", "await", "classify", "dropoff", "delivery",
          "confirm", "tender", "settle", "reject", "write"}

\* The data of a run: the draft it hydrated, and the Ascend appointments.
Runs == [item : Items, at : Nodes, then : Nodes, draft : Nat, weekend : BOOLEAN,
         appointments : BOOLEAN, todo : Seq(Commands(Subs))]

Begun(item, at) == [item |-> item, at |-> at, then |-> "idle", draft |-> 0, weekend |-> FALSE,
                    appointments |-> FALSE, todo |-> <<>>]

Idle == Begun(Item("pickup_changed", "own", FALSE, 0), "idle")

TypeOK ==
  /\ skipAscend \in AscendSkips
  /\ row \in [status : Statuses, sub : Subs, pause : PauseTypes \cup {Unset}]
  /\ rowId \in {"none", "stub", "own"}
  /\ shipment \in BOOLEAN
  /\ meta \in [draft : Nat, weekend : BOOLEAN, sent : BOOLEAN]
  /\ hooks \in Seq([at : {"passed", "done"}, moved : BOOLEAN])
  /\ claims \in Nat
  /\ replies \in Seq({"arrived", "resolved", "done"})
  /\ queue \in Seq(Items)
  /\ run \in Runs
  /\ tms \in [ascend : Times, turvo : Times, pickup : Nat, tendered : BOOLEAN]
  /\ mailed \in Seq(Nat)
  /\ recorded \in BOOLEAN
  /\ confirmed \in Seq(Times)
  /\ outside \in Nat

\* Another workflow may have made the shipments row before.
Init ==
  /\ skipAscend \in AscendSkips
  /\ row = Inserted
  /\ rowId = "none"
  /\ shipment \in BOOLEAN
  /\ meta = [draft |-> 0, weekend |-> FALSE, sent |-> FALSE]
  /\ hooks = <<>>
  /\ claims = 0
  /\ replies = <<>>
  /\ queue = <<>>
  /\ run = Idle
  /\ tms = [ascend |-> NoTime, turvo |-> NoTime, pickup |-> 0, tendered |-> FALSE]
  /\ mailed = <<>>
  /\ recorded = FALSE
  /\ confirmed = <<>>
  /\ outside = 0

\* What the webhook, the portal and the ingress keep; what the runs touch.
inVars == <<hooks, claims, replies>>
outVars == <<tms, mailed, recorded, confirmed>>

-----------------------------------------------------------------------------
(* What the code asks of the lifecycle.                                    *)

\* The draft waits for the dispatcher: claim_appointment_draft_send_queued
\* and appointment_post_read_router.
DraftWaits == row.status = "pending_review" /\ row.sub = "appointment_draft_created"

\* _lifecycle_is_terminal.
Terminal == \/ row.status \in {"completed", "failed"}
            \/ row.sub \in {"resolved_manually", "rejected", "appointment_scheduled"}

\* Faulty variants, used as mutants.
ClaimableAgain == DraftWaits /\ meta.draft # 0
AnyReply == TRUE

\* find_blocking_appointment_scheduling_lifecycle_id; nothing ever writes the
\* appointment_failure_reason that it also looks at.
Blocking == rowId # "none" /\ ~(row.status = "failed" \/ row.sub = "resolved_manually")

\* claim_appointment_draft_send_queued, up to the UPDATE.
Claimable == DraftWaits /\ ~meta.sent /\ meta.draft # 0

\* appointment_post_read_router, for a reply.
ReplyAwaited == ~Terminal /\ row.sub = "awaiting_customer_reply"

-----------------------------------------------------------------------------
(* The webhook, the portal, the mail ingress.                              *)

\* handle_shipment_update up to the duplicate gate: a shipment update, about
\* the pickup or about something else.
CheckHook ==
  /\ Len(hooks) < MaxHooks
  /\ \E moved \in BOOLEAN :
       hooks' = Append(hooks, [at |-> IF Blocking THEN "done" ELSE "passed", moved |-> moved])
  /\ UNCHANGED <<skipAscend, row, rowId, shipment, meta, claims, replies, queue, run, outVars,
                 outside>>

\* The rest of it: resolve_then_enqueue if there is a shipments row, else
\* the id that is made from the shipment number.
EnqueueHook(h) ==
  /\ hooks[h].at = "passed"
  /\ hooks' = [hooks EXCEPT ![h].at = "done"]
  /\ rowId' = IF shipment /\ rowId = "none" THEN "own" ELSE rowId
  /\ queue' = Append(queue, Item("pickup_changed", IF shipment THEN rowId' ELSE "stub",
                                 hooks[h].moved, 0))
  /\ UNCHANGED <<skipAscend, row, shipment, meta, claims, replies, run, outVars, outside>>

\* validate_and_enqueue_draft_send: the claim is committed first.
Claim ==
  /\ Claimable
  /\ meta' = [meta EXCEPT !.sent = TRUE]
  /\ claims' = claims + 1
  /\ UNCHANGED <<skipAscend, row, rowId, shipment, hooks, replies, queue, run, outVars, outside>>

\* enqueue_appointment_draft_send; a failure leaves the claim.
Publish ==
  /\ claims > 0
  /\ claims' = claims - 1
  /\ queue' \in {Append(queue, Item("draft_send", rowId, FALSE, 0))}
                  \cup When("publish" \in Failing, {queue})
  /\ UNCHANGED <<skipAscend, row, rowId, shipment, meta, hooks, replies, run, outVars, outside>>

\* The portal resolves the lifecycle without reading it.
Portal ==
  /\ outside < MaxOutside /\ rowId # "none"
  /\ outside' = outside + 1
  /\ \E commands \in Resolve(row) : row' = AfterSequence(row, commands)
  /\ UNCHANGED <<skipAscend, rowId, shipment, meta, inVars, queue, run, outVars>>

\* The customer answers what was sent.
ReplyArrives ==
  /\ mailed # <<>>
  /\ Len(replies) < MaxReplies
  /\ replies' = Append(replies, "arrived")
  /\ UNCHANGED <<skipAscend, row, rowId, shipment, meta, hooks, claims, queue, run, outVars,
                 outside>>

\* resolve_active_reply_lifecycle_id, by thread, shipment or subject.
ResolveReply(m) ==
  /\ replies[m] = "arrived"
  /\ replies' = [replies EXCEPT ![m] = IF ReplyAwaited THEN "resolved" ELSE "done"]
  /\ UNCHANGED <<skipAscend, row, rowId, shipment, meta, hooks, claims, queue, run, outVars,
                 outside>>

\* try_customer_reply_received reads the lifecycle again.
EnqueueReply(m) ==
  /\ replies[m] = "resolved"
  /\ replies' = [replies EXCEPT ![m] = "done"]
  /\ queue' = IF Terminal THEN queue
              ELSE Append(queue, Item("customer_reply", rowId, FALSE, m))
  /\ UNCHANGED <<skipAscend, row, rowId, shipment, meta, hooks, claims, run, outVars, outside>>

-----------------------------------------------------------------------------
(* The graph run.                                                          *)

Goto(at) == run' = [run EXCEPT !.at = at]

End == run' = Idle

\* A write decided on the row as it was read; the run goes on after it.
Write(commands, next) == run' = [run EXCEPT !.at = "write", !.then = next, !.todo = commands]

Committed(commands) == row' = AfterSequence(row, commands)

OnlyRun == UNCHANGED <<skipAscend, row, rowId, shipment, meta, inVars, queue, outVars, outside>>
OnlyRow == UNCHANGED <<skipAscend, rowId, shipment, meta, inVars, queue, outVars, outside>>
NotVendors == UNCHANGED <<skipAscend, rowId, shipment, meta, inVars, queue, outside>>

Can(failure) == failure \in Failing

\* A node under safe_node: the failure is put on record and ends the run.
Fail == /\ \E category \in {"business", "system"} : Committed(FailureOf(category))
        /\ End

\* A read of the row that leads to the sequence in `sequences`, or to none.
Record(at, sequences, next) ==
  /\ run.at = at
  /\ IF sequences = {} THEN run' = [run EXCEPT !.at = next]
     ELSE \E commands \in sequences : Write(commands, next)
  /\ OnlyRun

\* The next item; only a pickup update is prepared.
Take ==
  /\ run.at = "idle" /\ queue # <<>>
  /\ queue' = Tail(queue)
  /\ run' = Begun(Head(queue), IF Head(queue).event = "pickup_changed" THEN "prepare" ELSE "read")
  /\ UNCHANGED <<skipAscend, row, rowId, shipment, meta, inVars, outVars, outside>>

\* A node raises and nothing catches it: the run is over.
Raise ==
  /\ Can("raise")
  /\ run.at \in {"read", "start", "decide", "persist", "review", "hydrate", "await", "classify",
                "settle", "reject"}
  /\ End
  /\ OnlyRun

\* SchedulingActivityDeps.apply: a write that fails is logged and forgotten.
WriteRow ==
  /\ run.at = "write"
  /\ \/ Committed(run.todo)
     \/ Can("log") /\ row' = row
  /\ IF run.then = "idle" THEN End ELSE Goto(run.then)
  /\ OnlyRow

\* WorkflowService.run of a lifecycle whose id has no row: what it writes
\* finds nothing to write to.
RunStray ==
  /\ run.at = "prepare"
  /\ shipment /\ run.item.id # rowId
  /\ End
  /\ OnlyRun

\* prepare_pickup_changed for a shipment that is linked: no gate is passed.
PrepareLinked ==
  /\ run.at = "prepare"
  /\ shipment /\ run.item.id = rowId
  /\ Goto("read")
  /\ OnlyRun

\* prepare_pickup_changed: the gates of the shipment, of its activity and of
\* the recipient, each of which may skip the run.
PrepareSkipped ==
  /\ run.at = "prepare"
  /\ ~shipment
  /\ End
  /\ OnlyRun

\* Past the gates: the shipments row and the lifecycle are made.
PrepareCreated ==
  /\ run.at = "prepare"
  /\ ~shipment /\ run.item.moved
  /\ shipment' = TRUE
  /\ \/ rowId' = run.item.id /\ Goto("read")
     \/ Can("create") /\ rowId' = rowId /\ End
  /\ UNCHANGED <<skipAscend, row, meta, inVars, queue, outVars, outside>>

\* appointment_post_read_router on hydrate_read_context.
Read ==
  /\ run.at = "read"
  /\ run' = CASE run.item.event = "pickup_changed" -> [run EXCEPT !.at = "start"]
              [] run.item.event = "draft_send" ->
                   IF DraftWaits /\ meta.draft # 0 THEN [run EXCEPT !.at = "hydrate"] ELSE Idle
              [] OTHER -> IF ReplyAwaited THEN [run EXCEPT !.at = "classify"] ELSE Idle
  /\ OnlyRun

RecordStarted == Record("start", AppointmentStarted(row), "intake")

\* run_appointment_intake: the shipment in Turvo and in Ascend, the recipient,
\* the appointments of the pickup.
Intake ==
  /\ run.at = "intake"
  /\ \/ run' = [run EXCEPT !.at = "decide", !.appointments = TRUE] /\ row' = row
     \/ Can("intake") /\ Fail
  /\ OnlyRow

\* compute_decision: the LLM, or the fallback, chooses the pickup.
Decide ==
  /\ run.at = "decide"
  /\ \E weekend \in BOOLEAN : run' = [run EXCEPT !.at = "persist", !.weekend = weekend]
  /\ OnlyRun

\* build_appointment_draft, and the first half of persist_draft_ready: the
\* draft and weekend_shifted are committed.
Persist ==
  /\ run.at = "persist"
  /\ meta' = [meta EXCEPT !.draft = @ + 1, !.weekend = run.weekend]
  /\ Goto("facts")
  /\ UNCHANGED <<skipAscend, row, rowId, shipment, inVars, queue, outVars, outside>>

\* The second half: the facts on the shipments row.
PersistFacts ==
  /\ run.at = "facts"
  /\ \/ Goto("review") /\ row' = row
     \/ Can("facts") /\ Fail
  /\ OnlyRow

\* finalize_after_teams_notify: a Teams post that fails stops nothing, the
\* row goes to review whatever it is in.
DraftReady(v) == {<<From(v, StatusChange("pending_review", "appointment_draft_created"))>>}

FinalizeIntake == Record("review", DraftReady(row), "idle")

\* hydrate_appointment_send_context and appointment_weekend_pickup_router.
Hydrate ==
  /\ run.at = "hydrate"
  /\ run' = [run EXCEPT !.draft = meta.draft, !.weekend = meta.weekend,
                        !.at = IF meta.weekend THEN "weekend" ELSE "mail"]
  /\ OnlyRun

\* apply_weekend_shifted_pickup: plan_ascend_pickup_update plans nothing
\* without appointments, and then nothing is fetched or written.
WeekendPickup ==
  /\ run.at = "weekend"
  /\ tms' = [tms EXCEPT !.pickup = IF run.appointments THEN run.draft ELSE @]
  /\ Goto("mail")
  /\ UNCHANGED <<row, mailed, recorded, confirmed>>
  /\ NotVendors

\* send_draft_from_state: a draft that has a communication is not sent again.
SendDraft ==
  /\ run.at = "mail"
  /\ mailed' = IF recorded THEN mailed ELSE Append(mailed, run.draft)
  /\ recorded' = TRUE
  /\ Goto("placeholder")
  /\ UNCHANGED <<row, tms, confirmed>>
  /\ NotVendors

\* The mail is refused; or goes out without a communication id.
SendFails ==
  /\ run.at = "mail" /\ ~recorded
  /\ \/ Can("mail") /\ mailed' = mailed
     \/ Can("record") /\ mailed' = Append(mailed, run.draft)
  /\ Fail
  /\ UNCHANGED <<tms, recorded, confirmed>>
  /\ NotVendors

\* What a PUT leaves in `field`, when it works and when it does not.
Put(field, value) == tms' = [tms EXCEPT ![field] = value]
PutFails(field, value) == tms' = tms \/ (Can("timeout") /\ Put(field, value))

\* A node that writes a time to a vendor.
VendorWrite(at, field, value, failure, next) ==
  /\ run.at = at
  /\ \/ Put(field, value) /\ Goto(next) /\ row' = row
     \/ Can(failure) /\ PutFails(field, value) /\ Fail
  /\ UNCHANGED <<mailed, recorded, confirmed>>
  /\ NotVendors

ApplyPlaceholder == VendorWrite("placeholder", "turvo", Placeholder, "turvo", "await")

FinalizeAwaiting == Record("await", AppointmentAwaiting(row), "idle")

\* customer_reply_router; an LLM that fails, or an empty body, does nothing.
Classify ==
  /\ run.at = "classify"
  /\ \E at \in {"dropoff", "reject", "idle"} : IF at = "idle" THEN End ELSE Goto(at)
  /\ OnlyRun

\* apply_dropoff.
ApplyAscend ==
  /\ ~skipAscend
  /\ VendorWrite("dropoff", "ascend", run.item.reply, "ascend", "delivery")

ApplyAscendSkipped ==
  /\ skipAscend
  /\ run.at = "dropoff"
  /\ Goto("delivery")
  /\ OnlyRun

\* Faulty variant, used as a mutant.
IgnoreTurvoFailure ==
  /\ run.at = "delivery"
  /\ Put("turvo", run.item.reply) \/ tms' = tms
  /\ Goto("confirm")
  /\ UNCHANGED <<row, mailed, recorded, confirmed>>
  /\ NotVendors

\* apply_delivery.
ApplyTurvo == VendorWrite("delivery", "turvo", run.item.reply, "turvo", "confirm")

\* send_confirmation_reply_from_state; a refused mail may have gone out.
Confirm ==
  /\ run.at = "confirm"
  /\ \/ confirmed' = Append(confirmed, run.item.reply) /\ Goto("tender") /\ row' = row
     \/ Can("confirm") /\ confirmed' \in {confirmed, Append(confirmed, run.item.reply)} /\ Fail
  /\ UNCHANGED <<tms, mailed, recorded>>
  /\ NotVendors

\* apply_tender, which leaves a shipment alone that is tendered.
ApplyTender == VendorWrite("tender", "tendered", TRUE, "tender", "settle")

\* record_reply_completed and record_reply_rejected.
Completing(v) == {s \in AppointmentReplied(v) : s[1].sub = "appointment_scheduled"}
Rejecting(v) == {s \in AppointmentReplied(v) : s[1].sub = "rejected"}

RecordCompleted == Record("settle", Completing(row), "idle")
RecordRejected == Record("reject", Rejecting(row), "idle")

-----------------------------------------------------------------------------
Ingress ==
  \/ CheckHook
  \/ \E h \in DOMAIN hooks : EnqueueHook(h)
  \/ Claim \/ Publish \/ Portal \/ ReplyArrives
  \/ \E m \in DOMAIN replies : ResolveReply(m) \/ EnqueueReply(m)

Preparing == RunStray \/ PrepareLinked \/ PrepareSkipped \/ PrepareCreated

Drafting == RecordStarted \/ Intake \/ Decide \/ Persist \/ PersistFacts \/ FinalizeIntake

Sending == Hydrate \/ WeekendPickup \/ SendDraft \/ SendFails \/ ApplyPlaceholder
             \/ FinalizeAwaiting

Replying == Classify \/ ApplyAscend \/ ApplyAscendSkipped \/ ApplyTurvo \/ Confirm \/ ApplyTender
              \/ RecordCompleted \/ RecordRejected

Next == Ingress \/ Take \/ Raise \/ WriteRow \/ Read \/ Preparing \/ Drafting \/ Sending \/ Replying

Spec == Init /\ [][Next]_vars

-----------------------------------------------------------------------------
(* The draft goes to the customer once, whatever fails and however often   *)
(* pickup updates start the intake again: the claim is never given back    *)
(* (claim_appointment_draft_send_queued).                                  *)
DraftMailedOnce == Len(mailed) <= 1

(* A lifecycle that waits for the customer has asked: the draft went out   *)
(* and the delivery carries a time in Turvo (send_appointment_draft_email  *)
(* and apply_turvo_delivery_placeholder come before the sub-status).       *)
AwaitingMeansMailed ==
  row.sub = "awaiting_customer_reply" => mailed # <<>> /\ tms.turvo # NoTime

(* appointment_scheduled is told of a delivery that stands in the TMS as   *)
(* it was last confirmed to the customer, with the shipment tendered, even *)
(* if runs before failed halfway.                                          *)
ScheduledMeansAgreed ==
  row.sub = "appointment_scheduled" =>
    /\ confirmed # <<>> /\ Last(confirmed) = tms.turvo
    /\ skipAscend \/ tms.ascend = tms.turvo
    /\ tms.tendered

(* Both, of a well-typed state (record_awaiting_customer_reply and         *)
(* record_appointment_scheduled, the last steps of their runs).            *)
ProgressInv == TypeOK /\ AwaitingMeansMailed /\ ScheduledMeansAgreed

(* What one reply settled, no later reply and no send undoes: neither the  *)
(* row nor the times in the TMS nor what the customer was told             *)
(* (appointment_post_read_router reads the row before the run acts).       *)
Settled == row.sub \in {"appointment_scheduled", "rejected"}
SettledStays ==
  [][ (Settled /\ run.item.event # "pickup_changed" /\ run.at # "idle" /\ outside' = outside)
        => UNCHANGED <<row, tms, confirmed>> ]_vars
=============================================================================
